------------------------ MODULE CleanupEngineProofs ------------------------
(***************************************************************************)
(* Theorems about the cleanup engine, for any number of processes,         *)
(* receipts, objects and outside events: its types, that no object is      *)
(* forgotten, and what it does with other people's objects: nothing is     *)
(* overwritten, nothing is deleted early or by hearsay, what is            *)
(* quarantined is what was checked, and the engine implements the promise  *)
(* of Custody.tla.                                                         *)
(***************************************************************************)
EXTENDS CleanupEngine, TLAPS

\* The in-memory item between two receipts.
LEMMA NilReceiptType == NilReceipt \in Receipt
<1>1. PICK b \in Batch, a \in Action : TRUE
  BY ConstantsAssumption
<1>2. <<b, a>> \in Receipt
  BY DEF Receipt
<1> QED
  BY <1>2 DEF NilReceipt

-----------------------------------------------------------------------------
(* The operators of control keep the locals well typed. *)

\* A step to another label keeps the types of the processes.
LEMMA GotoType ==
    ASSUME LocalsTypeOK, NEW p \in Proc, NEW l \in Labels, Goto(p, l)
    PROVE  LocalsTypeOK'
  BY DEF Goto, LocalsTypeOK

\* So does the end of one item,
LEMMA EndItemType ==
    ASSUME LocalsTypeOK, NEW p \in Proc, EndItem(p)
    PROVE  LocalsTypeOK'
<1>1. "loop" \in Labels /\ -1 \in -1..MaxVer
  BY ConstantsAssumption DEF Labels
<1> QED
  BY <1>1, NilReceiptType DEF EndItem, LocalsTypeOK

\* and going on with an item, or ending it where it has nothing left to do.
LEMMA ContinueType ==
    ASSUME LocalsTypeOK, NEW p \in Proc, NEW l \in Labels,
           NEW s \in CleanupState \cup {"none"}, Continue(p, l, s)
    PROVE  LocalsTypeOK'
<1>1. CASE l = "loop"
  BY <1>1, EndItemType DEF Continue
<1>2. CASE l # "loop"
  BY <1>2 DEF Continue, LocalsTypeOK
<1> QED
  BY <1>1, <1>2

\* Where a command or Reconcile sends an item is a label.
LEMMA LabelType ==
    ASSUME NEW c, NEW r, NEW s
    PROVE  /\ AfterReconcile(c, r, s) \in Labels
           /\ FirstStep(c, r) \in Labels
           /\ Verdict(c, r, s) \in Labels
           /\ RestoreVerdict(r, s) \in Labels
<1>1. AfterReconcile(c, r, s) \in Labels
  BY DEF AfterReconcile, Labels
<1>2. FirstStep(c, r) \in Labels
  BY DEF FirstStep, Labels
<1>3. Verdict(c, r, s) \in Labels
  BY <1>1 DEF Verdict, Labels
<1>4. RestoreVerdict(r, s) \in Labels
  BY DEF RestoreVerdict, Labels
<1> QED
  BY <1>1, <1>2, <1>3, <1>4

\* A transition of the journal leaves a state of the journal.
LEMMA UpdateCleanupType ==
    ASSUME StoreTypeOK, NEW r \in Receipt, NEW e, NEW n \in CleanupState,
           UpdateCleanup(r, e, n)
    PROVE  jstate' \in [Receipt -> CleanupState \cup {"none"}]
  BY DEF UpdateCleanup, StoreTypeOK

-----------------------------------------------------------------------------
(* Type correctness. *)

\* A step of control changes the locals only.
LEMMA ControlOnly ==
    ASSUME TypeOK, LocalsTypeOK', UNCHANGED <<lock, machine, store, plans, world, history>>
    PROVE  TypeOK'
  BY DEF TypeOK, MachineTypeOK, StoreTypeOK, PlansTypeOK, WorldTypeOK, HistoryTypeOK,
         machine, store, plans, world, history

\* A journal step changes the locals and the states of receipts.
LEMMA JournalOnly ==
    ASSUME TypeOK, LocalsTypeOK', jstate' \in [Receipt -> CleanupState \cup {"none"}],
           UNCHANGED <<movedAt, qver, lock, machine, plans, world, history>>
    PROVE  TypeOK'
  BY DEF TypeOK, MachineTypeOK, StoreTypeOK, PlansTypeOK, WorldTypeOK, HistoryTypeOK,
         machine, plans, world, history

\* A file-system step changes the locals, the machine and the history.
LEMMA MachineOnly ==
    ASSUME TypeOK, LocalsTypeOK', MachineTypeOK', HistoryTypeOK',
           UNCHANGED <<lock, store, plans, world>>
    PROVE  TypeOK'
  BY DEF TypeOK, StoreTypeOK, PlansTypeOK, WorldTypeOK, store, plans, world

\* What the types say of one process.
LEMMA LocalsOfProcess ==
    ASSUME TypeOK, NEW p \in Proc
    PROVE  /\ cur[p] \in Receipt /\ cmd[p] \in Command /\ pc[p] \in Labels
           /\ mem[p] \in CleanupState \cup {"none"}
           /\ obs[p] \in -1..MaxVer /\ handle[p] \in Obj \cup {NoObj}
           /\ PathOfReceipt(cur[p]) \in Source
           /\ LocalsTypeOK
  BY ConstantsAssumption DEF TypeOK, LocalsTypeOK, Receipt, PathOfReceipt

\* A step that decides keeps the types.
LEMMA ControlStepType ==
    ASSUME TypeOK, NEW p \in Proc,
           \/ Pick(p) \/ Reconcile(p) \/ Unreadable(p) \/ EligibleRetry(p)
           \/ InvestigateUnwritten(p) \/ FinishRecovered(p) \/ FinishQuarantine(p)
           \/ FinishRefused(p) \/ FinishRecoveredFails(p) \/ StatSource(p) \/ GitMove(p)
           \/ Cancel(p) \/ Restore(p) \/ GitMoveBack(p) \/ SettleAbsent(p) \/ CheckEligible(p)
           \/ Fail(p)
    PROVE  TypeOK'
<1> USE LocalsOfProcess
<1>1. CASE Pick(p)
  <2>1. PICK r \in todo[p] : 
          /\ pc' = [pc EXCEPT ![p] = FirstStep(cmd[p], r)]
          /\ todo' = [todo EXCEPT ![p] = @ \ {r}]
          /\ cur' = [cur EXCEPT ![p] = IF FirstStep(cmd[p], r) = "loop" THEN NilReceipt ELSE r]
          /\ mem' = [mem EXCEPT ![p] = IF FirstStep(cmd[p], r) = "loop" THEN "none" ELSE jstate[r]]
    BY <1>1 DEF Pick
  <2>2. r \in Receipt /\ jstate[r] \in CleanupState \cup {"none"}
    BY DEF TypeOK, LocalsTypeOK, StoreTypeOK
  <2>3. FirstStep(cmd[p], r) \in Labels
    BY LabelType
  <2>4. UNCHANGED <<cmd, obs, handle>>
    BY <1>1 DEF Pick
  <2>5. LocalsTypeOK'
    BY <2>1, <2>2, <2>3, <2>4, NilReceiptType DEF LocalsTypeOK
  <2> QED
    BY <1>1, <2>5, ControlOnly DEF Pick
<1>2. CASE Reconcile(p)
  <2>1. LocalsTypeOK'
    BY <1>2, LabelType, ContinueType DEF Reconcile
  <2> QED
    BY <1>2, <2>1, ControlOnly DEF Reconcile
<1>3. CASE Unreadable(p)
  <2>1. LocalsTypeOK'
    BY <1>3, GotoType DEF Unreadable, Labels
  <2> QED
    BY <1>3, <2>1, ControlOnly DEF Unreadable
<1>4. CASE EligibleRetry(p)
  <2>1. LocalsTypeOK'
    BY <1>4, GotoType, ContinueType DEF EligibleRetry, Labels, CleanupState
  <2> QED
    BY <1>4, <2>1, ControlOnly DEF EligibleRetry
<1>5. CASE InvestigateUnwritten(p)
  <2>1. LocalsTypeOK'
    BY <1>5, ContinueType DEF InvestigateUnwritten, Labels, CleanupState
  <2> QED
    BY <1>5, <2>1, ControlOnly DEF InvestigateUnwritten
<1>6. CASE FinishRecovered(p) \/ FinishQuarantine(p)
  <2>1. dst[cur[p]] \in Obj
    BY <1>6 DEF FinishRecovered, FinishQuarantine, FinishMove, Observed, DestinationMatches,
              identityMatches, TypeOK, MachineTypeOK
  <2>2. ver[dst[cur[p]]] \in -1..MaxVer
    BY <2>1, ConstantsAssumption DEF TypeOK, MachineTypeOK
  <2>3. LocalsTypeOK'
    BY <1>6, <2>2 DEF FinishRecovered, FinishQuarantine, FinishMove, LocalsTypeOK, Labels
  <2> QED
    BY <1>6, <2>3, ControlOnly DEF FinishRecovered, FinishQuarantine, FinishMove
<1>7. CASE FinishRefused(p)
  <2>1. LocalsTypeOK'
    BY <1>7, GotoType, EndItemType DEF FinishRefused, Labels
  <2> QED
    BY <1>7, <2>1, ControlOnly DEF FinishRefused
<1>8. CASE FinishRecoveredFails(p)
  <2>1. LocalsTypeOK'
    BY <1>8, ConstantsAssumption DEF FinishRecoveredFails, Labels, LocalsTypeOK
  <2> QED
    BY <1>8, <2>1, ControlOnly DEF FinishRecoveredFails
<1>9. CASE StatSource(p)
  <2>1. LocalsTypeOK'
    BY <1>9, GotoType, EndItemType DEF StatSource, Labels
  <2> QED
    BY <1>9, <2>1, ControlOnly DEF StatSource
<1>10. CASE Cancel(p)
  <2>1. LocalsTypeOK'
    BY <1>10, GotoType, EndItemType DEF Cancel, Labels
  <2> QED
    BY <1>10, <2>1, ControlOnly DEF Cancel
<1>11. CASE Restore(p)
  <2>1. LocalsTypeOK'
    BY <1>11, LabelType, ContinueType DEF Restore
  <2> QED
    BY <1>11, <2>1, ControlOnly DEF Restore
<1>12. CASE SettleAbsent(p)
  <2> DEFINE l == CASE settleAbsent(cur[p]) = "deleted"  -> "journalDeleted"
                    [] settleAbsent(cur[p]) = "restored" -> "reconcile"
                    [] OTHER -> "eligible"
  <2>1. l \in Labels
    BY DEF Labels
  <2>2. Goto(p, l)
    BY <1>12 DEF SettleAbsent
  <2>3. LocalsTypeOK'
    <3> HIDE DEF l
    <3> QED
      BY <2>1, <2>2, GotoType
  <2> QED
    BY <1>12, <2>3, ControlOnly DEF SettleAbsent
<1>13. CASE CheckEligible(p)
  <2>1. LocalsTypeOK'
    BY <1>13, GotoType DEF CheckEligible, Labels
  <2> QED
    BY <1>13, <2>1, ControlOnly DEF CheckEligible
<1>14. CASE Fail(p)
  <2>1. LocalsTypeOK' /\ HistoryTypeOK'
    BY <1>14, EndItemType DEF Fail, TypeOK, HistoryTypeOK
  <2> QED
    BY <1>14, <2>1 DEF Fail, TypeOK, MachineTypeOK, StoreTypeOK, PlansTypeOK, WorldTypeOK,
       machine, store, plans, world
<1>15. CASE GitMove(p)
  <2>1. LocalsTypeOK'
    BY <1>15, GotoType, EndItemType DEF GitMove, Labels
  <2> QED
    BY <1>15, <2>1, ControlOnly DEF GitMove
<1>16. CASE GitMoveBack(p)
  <2>1. LocalsTypeOK'
    BY <1>16, GotoType, EndItemType DEF GitMoveBack, Labels
  <2> QED
    BY <1>16, <2>1, ControlOnly DEF GitMoveBack
<1> QED
  BY <1>1, <1>2, <1>3, <1>4, <1>5, <1>6, <1>7, <1>8, <1>9, <1>10, <1>11, <1>12,
     <1>13, <1>14, <1>15, <1>16

\* A step that writes the journal keeps the types.
LEMMA JournalStepType ==
    ASSUME TypeOK, NEW p \in Proc,
           \/ Prepare(p) \/ Requarantine(p) \/ Investigate(p) \/ JournalMove(p)
           \/ JournalRestored(p) \/ JournalDeleted(p)
    PROVE  TypeOK'
<1> USE LocalsOfProcess
<1>1. StoreTypeOK
  BY DEF TypeOK
<1>2. CASE Prepare(p)
  <2>1. LocalsTypeOK'
    BY <1>2, ContinueType, EndItemType DEF Prepare, Labels, CleanupState
  <2>2. jstate' \in [Receipt -> CleanupState \cup {"none"}]
    BY <1>1, <1>2 DEF Prepare, StoreTypeOK, CleanupState
  <2> QED
    BY <1>2, <2>1, <2>2, JournalOnly DEF Prepare, history
<1>3. CASE Requarantine(p)
  <2>1. LocalsTypeOK'
    BY <1>3, LabelType, ContinueType DEF Requarantine, Labels, CleanupState
  <2>2. jstate' \in [Receipt -> CleanupState \cup {"none"}]
    BY <1>1, <1>3, UpdateCleanupType DEF Requarantine, CleanupState
  <2> QED
    BY <1>3, <2>1, <2>2, JournalOnly DEF Requarantine, history
<1>4. CASE Investigate(p)
  <2>1. LocalsTypeOK'
    BY <1>4, ContinueType DEF Investigate, Labels, CleanupState
  <2>2. jstate' \in [Receipt -> CleanupState \cup {"none"}]
    BY <1>1, <1>4, UpdateCleanupType DEF Investigate, CleanupState
  <2> QED
    BY <1>4, <2>1, <2>2, JournalOnly DEF Investigate, history
<1>5. CASE JournalMove(p)
  <2> DEFINE ok == Accepts(cur[p], "prepared", "quarantined")
             l  == IF At(p, "journalMove") THEN "loop"
                   ELSE IF ok THEN AfterReconcile(cmd[p], cur[p], "quarantined") ELSE "investigate"
  <2>1. l \in Labels
    BY LabelType DEF Labels
  <2>2. LocalsTypeOK'
    <3>1. CASE l = "loop"
      BY <1>5, <3>1, EndItemType DEF JournalMove
    <3>2. CASE l # "loop"
      <4>1. /\ pc' = [pc EXCEPT ![p] = l]
            /\ mem' = [mem EXCEPT ![p] = IF ok THEN "quarantined" ELSE "prepared"]
            /\ obs' = [obs EXCEPT ![p] = -1]
            /\ UNCHANGED <<cmd, todo, cur, handle>>
        BY <1>5, <3>2 DEF JournalMove
      <4> HIDE DEF l, ok
      <4>2. -1 \in -1..MaxVer
        BY ConstantsAssumption
      <4> QED
        BY <2>1, <4>1, <4>2 DEF LocalsTypeOK, CleanupState
    <3> QED
      BY <3>1, <3>2
  <2>3. jstate' \in [Receipt -> CleanupState \cup {"none"}]
    BY <1>1, <1>5, UpdateCleanupType DEF JournalMove, CleanupState
  <2>4. movedAt' \in [Receipt -> -1..MaxTime]
    <3>1. now \in -1..MaxTime
      BY ConstantsAssumption DEF TypeOK, WorldTypeOK
    <3>2. movedAt' = movedAt \/ movedAt' = [movedAt EXCEPT ![cur[p]] = now]
      BY <1>5 DEF JournalMove
    <3> QED
      BY <1>1, <3>1, <3>2 DEF StoreTypeOK
  <2>5. qver' \in [Receipt -> -1..MaxVer]
    <3>1. qver' = qver \/ qver' = [qver EXCEPT ![cur[p]] = obs[p]]
      BY <1>5 DEF JournalMove
    <3> QED
      BY <1>1, <3>1 DEF StoreTypeOK
  <2> QED
    BY <1>5, <2>2, <2>3, <2>4, <2>5 DEF JournalMove, TypeOK, StoreTypeOK, MachineTypeOK,
       PlansTypeOK, WorldTypeOK, HistoryTypeOK, machine, plans, world, history
<1>6. CASE JournalRestored(p)
  <2>1. jstate' \in [Receipt -> CleanupState \cup {"none"}]
    BY <1>1, <1>6, UpdateCleanupType DEF JournalRestored, CleanupState
  <2> QED
    BY <1>6, <2>1, EndItemType, JournalOnly DEF JournalRestored, history
<1>7. CASE JournalDeleted(p)
  <2>1. jstate' \in [Receipt -> CleanupState \cup {"none"}]
    BY <1>1, <1>7, UpdateCleanupType DEF JournalDeleted, CleanupState
  <2> QED
    BY <1>7, <2>1, EndItemType, JournalOnly DEF JournalDeleted, history
<1> QED
  BY <1>2, <1>3, <1>4, <1>5, <1>6, <1>7

\* Moving an object between its path and a receipt directory.
LEMMA MoveType ==
    ASSUME TypeOK, NEW r \in Receipt, MovedIn(r) \/ MovedBack(r)
    PROVE  /\ src' \in [Source -> Obj \cup {NoObj}]
           /\ dst' \in [Receipt -> Obj \cup {NoObj}]
           /\ took' \in [Receipt -> -1..MaxTime]
<1>1. PathOfReceipt(r) \in Source
  BY ConstantsAssumption DEF Receipt, PathOfReceipt
<1>2. now \in -1..MaxTime /\ -1 \in -1..MaxTime
  BY ConstantsAssumption DEF TypeOK, WorldTypeOK
<1> QED
  BY <1>1, <1>2 DEF MovedIn, MovedBack, TypeOK, MachineTypeOK, HistoryTypeOK

\* A step that touches the file system or Git keeps the types.
LEMMA MachineStepType ==
    ASSUME TypeOK, NEW p \in Proc,
           \/ ensureManifest(p) \/ Open(p) \/ Revalidate(p) \/ RenameSource(p) \/ GitRun(p)
           \/ GitRegister(p) \/ RenameBack(p) \/ GitRunBack(p) \/ GitEnters(p)
           \/ GitRegisterBack(p) \/ writeDeletionMarker(p) \/ deleteAnchored(p)
           \/ PartialDelete(p)
    PROVE  TypeOK'
<1> USE LocalsOfProcess
<1> USE DEF MachineTypeOK, HistoryTypeOK, history
<1>0. MachineTypeOK /\ HistoryTypeOK
  BY DEF TypeOK
<1>1. CASE ensureManifest(p)
  <2>1. LocalsTypeOK'
    BY <1>1, GotoType DEF ensureManifest, Labels
  <2> QED
    BY <1>0, <1>1, <2>1, MachineOnly DEF ensureManifest
<1>2. CASE Open(p)
  <2>1. LocalsTypeOK'
    <3>1. CASE SourceAbsent(cur[p])
      BY <1>2, <3>1, EndItemType DEF Open
    <3>2. CASE ~SourceAbsent(cur[p])
      BY <1>0, <1>2, <3>2 DEF Open, LocalsTypeOK, Labels
    <3> QED
      BY <3>1, <3>2
  <2> QED
    BY <1>0, <1>2, <2>1, MachineOnly DEF Open
<1>3. CASE Revalidate(p)
  <2>1. LocalsTypeOK'
    BY <1>3, GotoType, EndItemType DEF Revalidate, Labels
  <2>2. checked' \in [Receipt -> Obj \cup {NoObj}]
    BY <1>0, <1>3 DEF Revalidate
  <2> QED
    BY <1>0, <1>3, <2>1, <2>2, MachineOnly DEF Revalidate, machine
<1>4. CASE RenameSource(p)
  <2>1. LocalsTypeOK'
    BY <1>4, GotoType, EndItemType DEF RenameSource, Labels
  <2> QED
    BY <1>0, <1>4, <2>1, MoveType, MachineOnly DEF RenameSource
<1>5. CASE GitRun(p)
  <2>1. LocalsTypeOK'
    BY <1>5, GotoType, EndItemType DEF GitRun, Labels
  <2> QED
    BY <1>0, <1>5, <2>1, MoveType, MachineOnly DEF GitRun
<1>6. CASE GitRegister(p)
  <2>1. LocalsTypeOK'
    BY <1>6, GotoType, EndItemType DEF GitRegister, Labels
  <2> QED
    BY <1>0, <1>6, <2>1, MachineOnly DEF GitRegister
<1>7. CASE RenameBack(p)
  <2>1. LocalsTypeOK'
    BY <1>7, GotoType, EndItemType DEF RenameBack, Labels
  <2> QED
    BY <1>0, <1>7, <2>1, MoveType, MachineOnly DEF RenameBack
<1>8. CASE GitRunBack(p)
  <2>1. LocalsTypeOK'
    BY <1>8, GotoType, EndItemType DEF GitRunBack, Labels
  <2> QED
    BY <1>0, <1>8, <2>1, MoveType, MachineOnly DEF GitRunBack
<1>9. CASE GitRegisterBack(p)
  <2>1. LocalsTypeOK'
    BY <1>9, GotoType, EndItemType DEF GitRegisterBack, Labels
  <2> QED
    BY <1>0, <1>9, <2>1, MachineOnly DEF GitRegisterBack
<1>10. CASE writeDeletionMarker(p)
  <2>1. LocalsTypeOK'
    BY <1>10, GotoType, EndItemType DEF writeDeletionMarker, Labels
  <2> QED
    BY <1>0, <1>10, <2>1, MachineOnly DEF writeDeletionMarker
<1>11. CASE deleteAnchored(p)
  <2>1. LocalsTypeOK'
    BY <1>11, GotoType, EndItemType DEF deleteAnchored, Labels
  <2>2. -1 \in -1..MaxTime
    BY ConstantsAssumption
  <2> QED
    BY <1>0, <1>11, <2>1, <2>2, MachineOnly DEF deleteAnchored
<1>12. CASE PartialDelete(p)
  <2>1. dst[cur[p]] \in Obj
    BY <1>0, <1>12 DEF PartialDelete, DestinationMatches, identityMatches
  <2>2. ver' \in [Obj -> 0..MaxVer]
    BY <1>0, <1>12, <2>1, ConstantsAssumption DEF PartialDelete
  <2> QED
    BY <1>0, <1>12, <2>2, EndItemType, MachineOnly DEF PartialDelete
<1>13. CASE GitEnters(p)
  <2>1. dst[cur[p]] \in Obj /\ -1 \in -1..MaxTime
    BY <1>0, <1>13, ConstantsAssumption DEF GitEnters
  <2>2. MachineTypeOK' /\ HistoryTypeOK'
    BY <1>0, <1>13, <2>1 DEF GitEnters
  <2> QED
    BY <1>13, <2>2, EndItemType, MachineOnly DEF GitEnters
<1> QED
  BY <1>1, <1>2, <1>3, <1>4, <1>5, <1>6, <1>7, <1>8, <1>9, <1>10, <1>11, <1>12, <1>13

\* A command that begins keeps the types.
LEMMA BeginType ==
    ASSUME TypeOK, NEW p \in Proc, NEW c \in Command, NEW rs \in SUBSET Receipt, Begin(p, c, rs)
    PROVE  TypeOK'
<1>1. LocalsTypeOK'
  BY DEF Begin, TypeOK, LocalsTypeOK, Labels
<1>2. lock' \in Proc \cup {NoProc}
  BY DEF Begin, lockApply
<1> QED
  BY <1>1, <1>2 DEF Begin, TypeOK, MachineTypeOK, StoreTypeOK, PlansTypeOK, WorldTypeOK,
     HistoryTypeOK, machine, store, plans, world, history

\* So do the start of a command, its end and a crash.
LEMMA CommandStepType ==
    ASSUME TypeOK, NEW p \in Proc, Start(p) \/ Finish(p) \/ Crash(p)
    PROVE  TypeOK'
<1>1. CASE StartQuarantine(p)
  <2>1. PICK b \in Batch, selected \in SUBSET Planned :
             Begin(p, "quarantine", {<<b, a>> : a \in selected})
    BY <1>1 DEF StartQuarantine
  <2>2. {<<b, a>> : a \in selected} \subseteq Receipt
    BY DEF Planned, Receipt
  <2> QED
    BY <2>1, <2>2, BeginType DEF Command
<1>2. CASE StartExpire(p)
  <2>1. PICK ids : Begin(p, "expire", {r \in Rows : r[1] \in ids})
    BY <1>2 DEF StartExpire
  <2>2. {r \in Rows : r[1] \in ids} \subseteq Receipt
    BY DEF Rows
  <2> QED
    BY <2>1, <2>2, BeginType DEF Command
<1>3. ASSUME NEW b \in Batch, StartRestore(p, b)
      PROVE  TypeOK'
  <2>1. {r \in ActiveRows : r[1] = b} \subseteq Receipt
    BY DEF ActiveRows
  <2> QED
    BY <1>3, <2>1, BeginType DEF StartRestore, Command
<1>4. CASE Finish(p)
  BY <1>4 DEF Finish, TypeOK, LocalsTypeOK, Labels, Command, MachineTypeOK, StoreTypeOK,
     PlansTypeOK, WorldTypeOK, HistoryTypeOK, machine, store, plans, world, history
<1>5. CASE Crash(p)
  <2>1. -1 \in -1..MaxVer
    BY ConstantsAssumption
  <2>2. LocalsTypeOK'
    BY <1>5, <2>1, NilReceiptType DEF Crash, TypeOK, LocalsTypeOK, Labels, Command
  <2> QED
    BY <1>5, <2>2 DEF Crash, TypeOK, MachineTypeOK, StoreTypeOK, PlansTypeOK, WorldTypeOK,
       HistoryTypeOK, machine, store, plans, world, history
<1> QED
  BY <1>1, <1>2, <1>3, <1>4, <1>5 DEF Start

\* What an outside event leaves alone, and what it may change.
LEMMA OutsideRestType ==
    ASSUME TypeOK, UNCHANGED outsideRest
    PROVE  /\ StoreTypeOK' /\ lock' \in Proc \cup {NoProc} /\ LocalsTypeOK'
           /\ checked' \in [Receipt -> Obj \cup {NoObj}]
  BY DEF outsideRest, store, locals, TypeOK, StoreTypeOK, LocalsTypeOK, HistoryTypeOK

\* What the owner does keeps the types.
LEMMA EnvironmentType ==
    ASSUME TypeOK, Environment
    PROVE  TypeOK'
<1> USE DEF TypeOK, MachineTypeOK, PlansTypeOK, WorldTypeOK, HistoryTypeOK
<1>1. ASSUME NEW s \in Source, NEW o \in Obj, Create(s, o) \/ PutBack(s, o)
      PROVE  TypeOK'
  BY <1>1, OutsideRestType DEF Create, PutBack, Arrives, plans, world, outsideRest
<1>2. ASSUME NEW s \in Source, Remove(s)
      PROVE  TypeOK'
  BY <1>2, OutsideRestType DEF Remove, plans, world, outsideRest
<1>3. ASSUME NEW s \in Source, MoveAway(s)
      PROVE  TypeOK'
  BY <1>3, OutsideRestType DEF MoveAway, plans, world, outsideRest
<1>4. ASSUME NEW o \in Obj, Touch(o)
      PROVE  TypeOK'
  <2>1. ver' \in [Obj -> 0..MaxVer]
    BY <1>4, ConstantsAssumption DEF Touch
  <2> QED
    BY <1>4, <2>1, OutsideRestType DEF Touch, plans, world, outsideRest
<1>5. ASSUME NEW o \in Obj, Repair(o)
      PROVE  TypeOK'
  BY <1>5, OutsideRestType DEF Repair, plans, world, outsideRest
<1>6. ASSUME NEW r \in Receipt, ReplaceDir(r)
      PROVE  TypeOK'
  <2>1. away' \subseteq Obj
    BY <1>6 DEF ReplaceDir
  <2>2. took' \in [Receipt -> -1..MaxTime]
    BY <1>6, ConstantsAssumption DEF ReplaceDir
  <2> QED
    BY <1>6, <2>1, <2>2, OutsideRestType DEF ReplaceDir, plans, world, outsideRest
<1>7. ASSUME NEW pl \in Plan, ScanPlan(pl)
      PROVE  TypeOK'
  <2>1. planObj' \in [Action -> Obj \cup {NoObj}] /\ planVer' \in [Action -> 0..MaxVer]
    <3>1. PICK found \in SUBSET {a \in Action : PlanOf[a] = pl /\ src[PathOf[a]] # NoObj} :
            /\ planObj' = [a \in Action |-> IF a \in found THEN src[PathOf[a]] ELSE planObj[a]]
            /\ planVer' = [a \in Action |-> IF a \in found THEN ver[src[PathOf[a]]] ELSE planVer[a]]
      BY <1>7 DEF ScanPlan
    <3>2. ASSUME NEW a \in Action, a \in found
          PROVE  src[PathOf[a]] \in Obj /\ ver[src[PathOf[a]]] \in 0..MaxVer
      BY <3>2, ConstantsAssumption
    <3> QED
      BY <3>1, <3>2
  <2>2. plan' \in Plan \cup {NoPlan}
    BY <1>7 DEF ScanPlan
  <2>3. MachineTypeOK' /\ WorldTypeOK'
    BY <1>7 DEF ScanPlan, machine, world
  <2>4. took' \in [Receipt -> -1..MaxTime]
    BY <1>7 DEF ScanPlan
  <2> QED
    BY <1>7, <2>1, <2>2, <2>3, <2>4, OutsideRestType DEF ScanPlan
<1>8. CASE Tick
  <2>1. now' \in 0..MaxTime
    BY <1>8, ConstantsAssumption DEF Tick
  <2> QED
    BY <1>8, <2>1, OutsideRestType DEF Tick, machine, plans, outsideRest
<1>9. CASE Calm
  BY <1>9, OutsideRestType DEF Calm, machine, plans, outsideRest
<1> QED
  BY <1>1, <1>2, <1>3, <1>4, <1>5, <1>6, <1>7, <1>8, <1>9 DEF Environment

\* The first states are of the types.
LEMMA InitType == Init => TypeOK
<1> SUFFICES ASSUME Init PROVE TypeOK
  OBVIOUS
<1>1. 0 \in 0..MaxVer /\ -1 \in -1..MaxVer /\ 0 \in 0..MaxTime /\ -1 \in -1..MaxTime
  BY ConstantsAssumption
<1> QED
  BY <1>1, NilReceiptType DEF Init, TypeOK, MachineTypeOK, StoreTypeOK, PlansTypeOK,
     WorldTypeOK, LocalsTypeOK, HistoryTypeOK, Labels, Command

\* Every step keeps the types.
LEMMA StepType == TypeOK /\ [Next]_vars => TypeOK'
<1> SUFFICES ASSUME TypeOK, [Next]_vars PROVE TypeOK'
  OBVIOUS
<1>1. CASE UNCHANGED vars
  BY <1>1 DEF vars, machine, store, plans, world, locals, history, TypeOK, MachineTypeOK,
     StoreTypeOK, PlansTypeOK, WorldTypeOK, LocalsTypeOK, HistoryTypeOK
<1>2. CASE Environment
  BY <1>2, EnvironmentType
<1>3. ASSUME NEW p \in Proc, Start(p)
      PROVE  TypeOK'
  BY <1>3, CommandStepType
<1>4. ASSUME NEW p \in Proc, Work(p)
      PROVE  TypeOK'
  <2> USE DEF Work
  <2>1. CASE Finish(p)
    BY <2>1, CommandStepType
  <2>2. CASE \/ Pick(p) \/ Reconcile(p) \/ EligibleRetry(p) \/ FinishRecovered(p)
             \/ FinishQuarantine(p) \/ FinishRefused(p) \/ StatSource(p) \/ GitMove(p)
             \/ Cancel(p) \/ Restore(p) \/ GitMoveBack(p) \/ SettleAbsent(p) \/ CheckEligible(p)
    BY <2>2, ControlStepType
  <2>3. CASE \/ Prepare(p) \/ Requarantine(p) \/ Investigate(p) \/ JournalMove(p)
             \/ JournalRestored(p) \/ JournalDeleted(p)
    BY <2>3, JournalStepType
  <2>4. CASE \/ ensureManifest(p) \/ Open(p) \/ Revalidate(p) \/ RenameSource(p)
             \/ GitRun(p) \/ GitRegister(p) \/ RenameBack(p) \/ GitRunBack(p) \/ GitEnters(p)
             \/ GitRegisterBack(p) \/ writeDeletionMarker(p) \/ deleteAnchored(p)
    BY <2>4, MachineStepType
  <2> QED
    BY <1>4, <2>1, <2>2, <2>3, <2>4
<1>5. ASSUME NEW p \in Proc, Fault(p)
      PROVE  TypeOK'
  BY <1>5, CommandStepType, ControlStepType, MachineStepType DEF Fault
<1> QED
  BY <1>1, <1>2, <1>3, <1>4, <1>5 DEF Next

\* Every variable keeps its type, whatever the owner does and wherever the
\* janitor fails or dies.
THEOREM TypeCorrect == Spec => []TypeOK
  BY InitType, StepType, PTL DEF Spec

-----------------------------------------------------------------------------
(* Nothing in quarantine is forgotten.  NoOrphan is not inductive: a journal *)
(* write closes a receipt several steps after its directory was seen empty,  *)
(* and a rename fills a directory several steps after its row was read.  The *)
(* strengthening says what a process knows in between: only the holder of    *)
(* the lock is under way, its in-memory item is the row as it stands, a      *)
(* receipt about to be filled is prepared, and one about to be closed is     *)
(* empty.                                                                    *)

MoveLabels  == {"open", "revalidate", "stat", "rename", "gitMove", "gitRun"}
MemLabels   == {"manifest", "reconcile", "settle"} \cup MoveLabels
EmptyLabels == {"gitRegisterBack", "journalRestored", "journalDeleted"}

LockHeld == \A p \in Proc : pc[p] # "idle" => lock = p

Knows(p) ==
    /\ pc[p] \in MemLabels => mem[p] = jstate[cur[p]]
    /\ pc[p] \in MoveLabels => mem[p] = "prepared"
    /\ pc[p] \in EmptyLabels => DestinationAbsent(cur[p])

NoOrphanInv == LockHeld /\ (\A p \in Proc : Knows(p)) /\ NoOrphan

\* Only the holder of the lock moves, so a step of p is judged by what p knows.
LEMMA StepOfHolder ==
    ASSUME TypeOK, NoOrphanInv, NEW p \in Proc, pc[p] # "idle", lock' = lock,
           \A q \in Proc \ {p} : pc'[q] = pc[q],
           Knows(p)', NoOrphan'
    PROVE  NoOrphanInv'
<1>1. \A q \in Proc \ {p} : pc[q] = "idle"
  BY DEF NoOrphanInv, LockHeld
<1>2. \A q \in Proc \ {p} : Knows(q)'
  BY <1>1 DEF Knows, MemLabels, MoveLabels, EmptyLabels
<1>3. LockHeld'
  BY <1>1 DEF NoOrphanInv, LockHeld
<1> QED
  BY <1>2, <1>3 DEF NoOrphanInv

\* A process between two receipts knows nothing and needs to know nothing.
LEMMA EndItemKnows ==
    ASSUME TypeOK, NEW p \in Proc, EndItem(p)
    PROVE  Knows(p)' /\ \A q \in Proc \ {p} : pc'[q] = pc[q]
  BY DEF EndItem, Knows, MemLabels, MoveLabels, EmptyLabels, TypeOK, LocalsTypeOK

\* Arriving at a label outside the three sets needs no knowledge either.
LEMMA GotoKnows ==
    ASSUME TypeOK, NEW p \in Proc, NEW l, l \notin MemLabels \cup EmptyLabels,
           pc' = [pc EXCEPT ![p] = l]
    PROVE  Knows(p)' /\ \A q \in Proc \ {p} : pc'[q] = pc[q]
  BY DEF Knows, MemLabels, MoveLabels, EmptyLabels, TypeOK, LocalsTypeOK

\* A journal write leaves no orphan when it keeps the receipt active or the
\* receipt holds nothing.
LEMMA UpdateKeepsNoOrphan ==
    ASSUME TypeOK, NoOrphan, NEW r \in Receipt, NEW e, NEW n, UpdateCleanup(r, e, n),
           n \in Active \/ DestinationAbsent(r), UNCHANGED dst
    PROVE  NoOrphan'
  BY DEF UpdateCleanup, NoOrphan, DestinationAbsent, TypeOK, StoreTypeOK

\* Where Reconcile and Restore may send an item that needs knowledge.
LEMMA VerdictFacts ==
    ASSUME NEW c, NEW r, NEW s
    PROVE  /\ AfterReconcile(c, r, s) \notin EmptyLabels
           /\ AfterReconcile(c, r, s) \in MemLabels
                => \/ AfterReconcile(c, r, s) = "open" /\ s = "prepared"
                   \/ AfterReconcile(c, r, s) = "settle"
           /\ Verdict(c, r, s) \in EmptyLabels => DestinationAbsent(r)
           /\ Verdict(c, r, s) \in MoveLabels => s = "prepared"
           /\ RestoreVerdict(r, s) \notin MemLabels
           /\ RestoreVerdict(r, s) \in EmptyLabels => DestinationAbsent(r)
<1> USE DEF MemLabels, MoveLabels, EmptyLabels
<1>1. /\ AfterReconcile(c, r, s) \notin EmptyLabels
      /\ AfterReconcile(c, r, s) \in MemLabels
           => \/ AfterReconcile(c, r, s) = "open" /\ s = "prepared"
              \/ AfterReconcile(c, r, s) = "settle"
  BY DEF AfterReconcile
<1>2. Verdict(c, r, s) \in EmptyLabels => DestinationAbsent(r)
  BY <1>1 DEF Verdict
<1>3. Verdict(c, r, s) \in MoveLabels => s = "prepared"
  BY <1>1 DEF Verdict
<1>4. RestoreVerdict(r, s) \notin MemLabels
  BY DEF RestoreVerdict
<1>5. RestoreVerdict(r, s) \in EmptyLabels => DestinationAbsent(r)
  BY DEF RestoreVerdict
<1> QED
  BY <1>1, <1>2, <1>3, <1>4, <1>5

\* A step that decides leaves nothing behind without an active row.
LEMMA ControlStepNoOrphan ==
    ASSUME TypeOK, NoOrphanInv, NEW p \in Proc,
           \/ Pick(p) \/ Reconcile(p) \/ Unreadable(p) \/ EligibleRetry(p)
           \/ InvestigateUnwritten(p) \/ FinishRecovered(p) \/ FinishQuarantine(p)
           \/ FinishRefused(p) \/ FinishRecoveredFails(p) \/ StatSource(p) \/ GitMove(p)
           \/ Cancel(p) \/ Restore(p) \/ GitMoveBack(p) \/ SettleAbsent(p) \/ CheckEligible(p)
           \/ Fail(p)
    PROVE  NoOrphanInv'
<1>1. UNCHANGED <<lock, machine, store>>
  BY DEF Pick, Reconcile, Unreadable, EligibleRetry, InvestigateUnwritten, FinishRecovered,
     FinishQuarantine, FinishMove, FinishRefused, FinishRecoveredFails, StatSource, GitMove,
     Cancel, Restore, GitMoveBack, SettleAbsent, CheckEligible, Fail
<1>2. UNCHANGED <<dst, jstate, lock>> /\ NoOrphan'
  BY <1>1 DEF machine, store, NoOrphanInv, NoOrphan
<1>3. Knows(p) /\ LocalsTypeOK
  BY DEF NoOrphanInv, TypeOK
<1>4. SUFFICES pc[p] # "idle" /\ Knows(p)' /\ \A q \in Proc \ {p} : pc'[q] = pc[q]
  BY <1>2, StepOfHolder
<1> USE <1>3 DEF At
<1>5. CASE Pick(p)
  <2>1. PICK r \in todo[p] :
          /\ pc' = [pc EXCEPT ![p] = FirstStep(cmd[p], r)]
          /\ cur' = [cur EXCEPT ![p] = IF FirstStep(cmd[p], r) = "loop" THEN NilReceipt ELSE r]
          /\ mem' = [mem EXCEPT ![p] = IF FirstStep(cmd[p], r) = "loop" THEN "none" ELSE jstate[r]]
    BY <1>5 DEF Pick
  <2>2. FirstStep(cmd[p], r) \in {"loop", "prepare", "reconcile", "settle"}
    BY DEF FirstStep
  <2>3. pc[p] = "loop"
    BY <1>5 DEF Pick
  <2> QED
    BY <1>2, <2>1, <2>2, <2>3 DEF Knows, MemLabels, MoveLabels, EmptyLabels, LocalsTypeOK
<1>6. CASE Reconcile(p)
  <2> DEFINE l == Verdict(cmd[p], cur[p], mem[p])
  <2>1. pc[p] = "reconcile" /\ mem[p] = jstate[cur[p]]
    BY <1>6 DEF Reconcile, Knows, MemLabels
  <2>2. CASE l = "loop"
    <3>1. EndItem(p)
      BY <1>6, <2>2 DEF Reconcile, Continue
    <3> QED
      BY <2>1, <3>1, EndItemKnows
  <2>3. CASE l # "loop"
    <3>1. /\ pc' = [pc EXCEPT ![p] = l] /\ mem' = [mem EXCEPT ![p] = mem[p]]
          /\ UNCHANGED cur
      BY <1>6, <2>3 DEF Reconcile, Continue
    <3>2. /\ l \in EmptyLabels => DestinationAbsent(cur[p])
          /\ l \in MoveLabels => mem[p] = "prepared"
      BY VerdictFacts
    <3> HIDE DEF l
    <3> QED
      BY <1>2, <2>1, <3>1, <3>2 DEF Knows, DestinationAbsent, LocalsTypeOK
  <2> QED
    BY <2>2, <2>3
<1>7. CASE Unreadable(p)
  BY <1>7, GotoKnows DEF Unreadable, Goto, MemLabels, MoveLabels, EmptyLabels
<1>8. CASE EligibleRetry(p)
  BY <1>8, GotoKnows, EndItemKnows DEF EligibleRetry, Continue, Goto, MemLabels, MoveLabels,
     EmptyLabels
<1>9. CASE InvestigateUnwritten(p)
  BY <1>9, GotoKnows, EndItemKnows DEF InvestigateUnwritten, Continue, MemLabels, MoveLabels,
     EmptyLabels
<1>10. CASE FinishRecovered(p) \/ FinishQuarantine(p)
  BY <1>10, GotoKnows DEF FinishRecovered, FinishQuarantine, FinishMove, MemLabels, MoveLabels,
     EmptyLabels
<1>11. CASE FinishRefused(p)
  BY <1>11, GotoKnows, EndItemKnows DEF FinishRefused, Goto, MemLabels, MoveLabels, EmptyLabels
<1>12. CASE FinishRecoveredFails(p)
  BY <1>12, GotoKnows DEF FinishRecoveredFails, MemLabels, MoveLabels, EmptyLabels
<1>13. CASE StatSource(p) \/ GitMove(p)
  <2>1. pc[p] \in {"stat", "gitMove"} /\ mem[p] = jstate[cur[p]] /\ mem[p] = "prepared"
    BY <1>13 DEF StatSource, GitMove, Knows, MemLabels, MoveLabels
  <2>2. CASE EndItem(p)
    BY <2>1, <2>2, EndItemKnows
  <2>3. CASE Goto(p, "rename") \/ Goto(p, "gitRun")
    BY <1>2, <2>1, <2>3 DEF Goto, Knows, MemLabels, MoveLabels, EmptyLabels, LocalsTypeOK
  <2> QED
    BY <1>13, <2>2, <2>3 DEF StatSource, GitMove
<1>14. CASE Cancel(p)
  <2>1. pc[p] = "cancel"
    BY <1>14 DEF Cancel
  <2>2. CASE EndItem(p)
    BY <2>1, <2>2, EndItemKnows
  <2>3. CASE DestinationAbsent(cur[p]) /\ Goto(p, "journalRestored")
    BY <1>2, <2>1, <2>3 DEF Goto, Knows, MemLabels, MoveLabels, EmptyLabels, LocalsTypeOK,
       DestinationAbsent
  <2> QED
    BY <1>14, <2>2, <2>3 DEF Cancel
<1>15. CASE Restore(p)
  <2> DEFINE l == RestoreVerdict(cur[p], mem[p])
  <2>1. pc[p] = "restore"
    BY <1>15 DEF Restore
  <2>2. CASE l = "loop"
    <3>1. EndItem(p)
      BY <1>15, <2>2 DEF Restore, Continue
    <3> QED
      BY <2>1, <3>1, EndItemKnows
  <2>3. CASE l # "loop"
    <3>1. pc' = [pc EXCEPT ![p] = l] /\ UNCHANGED cur
      BY <1>15, <2>3 DEF Restore, Continue
    <3>2. /\ l \in EmptyLabels => DestinationAbsent(cur[p])
          /\ l \notin MemLabels /\ l \notin MoveLabels
      BY VerdictFacts DEF MemLabels
    <3> HIDE DEF l
    <3> QED
      BY <1>2, <2>1, <3>1, <3>2 DEF Knows, DestinationAbsent, LocalsTypeOK
  <2> QED
    BY <2>2, <2>3
<1>16. CASE SettleAbsent(p)
  <2>1. pc[p] = "settle" /\ mem[p] = jstate[cur[p]]
    BY <1>16 DEF SettleAbsent, Knows, MemLabels
  <2>2. UNCHANGED <<cur, mem>>
    BY <1>16 DEF SettleAbsent, Goto
  <2>3. CASE settleAbsent(cur[p]) = "deleted"
    <3>1. pc' = [pc EXCEPT ![p] = "journalDeleted"]
      BY <1>16, <2>3 DEF SettleAbsent, Goto
    <3>2. DestinationAbsent(cur[p])
      BY <2>3 DEF settleAbsent
    <3> QED
      BY <1>2, <2>1, <2>2, <3>1, <3>2 DEF Knows, MemLabels, MoveLabels, LocalsTypeOK,
         DestinationAbsent
  <2>4. CASE settleAbsent(cur[p]) = "restored"
    <3>1. pc' = [pc EXCEPT ![p] = "reconcile"]
      BY <1>16, <2>4 DEF SettleAbsent, Goto
    <3> QED
      BY <1>2, <2>1, <2>2, <3>1 DEF Knows, MoveLabels, EmptyLabels, LocalsTypeOK
  <2>5. CASE settleAbsent(cur[p]) \notin {"deleted", "restored"}
    <3>1. pc' = [pc EXCEPT ![p] = "eligible"]
      BY <1>16, <2>5 DEF SettleAbsent, Goto
    <3> QED
      BY <2>1, <3>1, GotoKnows DEF MemLabels, MoveLabels, EmptyLabels
  <2> QED
    BY <2>3, <2>4, <2>5
<1>17. CASE CheckEligible(p)
  BY <1>17, GotoKnows DEF CheckEligible, Goto, MemLabels, MoveLabels, EmptyLabels
<1>18. CASE Fail(p)
  BY <1>18, EndItemKnows DEF Fail, Abandons
<1>19. CASE GitMoveBack(p)
  BY <1>19, GotoKnows, EndItemKnows DEF GitMoveBack, Goto, MemLabels, MoveLabels, EmptyLabels
<1> QED
  BY <1>5, <1>6, <1>7, <1>8, <1>9, <1>10, <1>11, <1>12, <1>13, <1>14, <1>15, <1>16, <1>17,
     <1>18, <1>19

\* Nor does a step that writes the journal: it closes a row only over an empty directory.
LEMMA JournalStepNoOrphan ==
    ASSUME TypeOK, NoOrphanInv, NEW p \in Proc,
           \/ Prepare(p) \/ Requarantine(p) \/ Investigate(p) \/ JournalMove(p)
           \/ JournalRestored(p) \/ JournalDeleted(p)
    PROVE  NoOrphanInv'
<1>1. UNCHANGED <<lock, dst>>
  BY DEF Prepare, Requarantine, Investigate, JournalMove, JournalRestored,
     JournalDeleted, machine
<1>2. Knows(p) /\ NoOrphan /\ LocalsTypeOK /\ StoreTypeOK /\ cur[p] \in Receipt
  BY DEF NoOrphanInv, TypeOK, LocalsTypeOK
<1>3. SUFFICES /\ pc[p] # "idle" /\ Knows(p)' /\ NoOrphan'
               /\ \A q \in Proc \ {p} : pc'[q] = pc[q]
  BY <1>1, StepOfHolder
<1> USE <1>2 DEF At
<1>4. CASE Prepare(p)
  <2>1. pc[p] = "prepare"
    BY <1>4 DEF Prepare
  <2>2. CASE EndItem(p) /\ UNCHANGED jstate
    BY <1>1, <2>1, <2>2, EndItemKnows DEF NoOrphan
  <2>3. CASE jstate' = [jstate EXCEPT ![cur[p]] = "prepared"] /\ Continue(p, "manifest", "prepared")
    <3>1. NoOrphan'
      BY <1>1, <2>3 DEF NoOrphan, Active, StoreTypeOK
    <3> QED
      BY <2>1, <2>3, <3>1 DEF Continue, Knows, MemLabels, MoveLabels, EmptyLabels, LocalsTypeOK,
         StoreTypeOK
  <2> QED
    BY <1>4, <2>2, <2>3 DEF Prepare
<1>5. CASE Requarantine(p)
  <2> DEFINE ok == Accepts(cur[p], "investigate", "quarantined")
             l  == IF ok THEN AfterReconcile(cmd[p], cur[p], "quarantined") ELSE "loop"
  <2>1. pc[p] = "requarantine" /\ Continue(p, l, "quarantined")
    BY <1>5 DEF Requarantine
  <2>2. NoOrphan'
    BY <1>1, <1>5, UpdateKeepsNoOrphan DEF Requarantine, Active
  <2>3. CASE l = "loop"
    BY <2>1, <2>2, <2>3, EndItemKnows DEF Continue
  <2>4. CASE l # "loop"
    <3>1. /\ pc' = [pc EXCEPT ![p] = l] /\ mem' = [mem EXCEPT ![p] = "quarantined"]
          /\ UNCHANGED cur
      BY <2>1, <2>4 DEF Continue
    <3>2. jstate'[cur[p]] = "quarantined"
      BY <1>5, <2>4 DEF Requarantine, UpdateCleanup, StoreTypeOK
    <3>3. l \notin EmptyLabels /\ l \notin MoveLabels
      <4>1. l = AfterReconcile(cmd[p], cur[p], "quarantined")
        BY <2>4
      <4> QED
        BY <4>1, VerdictFacts DEF MemLabels, MoveLabels
    <3> HIDE DEF l
    <3> QED
      BY <2>1, <2>2, <3>1, <3>2, <3>3 DEF Knows, LocalsTypeOK
  <2> QED
    BY <2>3, <2>4
<1>6. CASE Investigate(p)
  <2>1. NoOrphan'
    BY <1>1, <1>6, UpdateKeepsNoOrphan DEF Investigate, Active
  <2> QED
    BY <1>6, <2>1, GotoKnows, EndItemKnows DEF Investigate, Continue, MemLabels, MoveLabels,
       EmptyLabels
<1>7. CASE JournalMove(p)
  <2> DEFINE ok == Accepts(cur[p], "prepared", "quarantined")
             l  == IF At(p, "journalMove") THEN "loop"
                   ELSE IF ok THEN AfterReconcile(cmd[p], cur[p], "quarantined") ELSE "investigate"
  <2>1. NoOrphan' /\ pc[p] # "idle"
    BY <1>1, <1>7, UpdateKeepsNoOrphan DEF JournalMove, Active
  <2>2. CASE l = "loop"
    <3>1. EndItem(p)
      BY <1>7, <2>2 DEF JournalMove
    <3> QED
      BY <2>1, <3>1, EndItemKnows
  <2>3. CASE l # "loop"
    <3>1. /\ pc' = [pc EXCEPT ![p] = l]
          /\ mem' = [mem EXCEPT ![p] = IF ok THEN "quarantined" ELSE "prepared"]
          /\ UNCHANGED cur
      BY <1>7, <2>3 DEF JournalMove
    <3>2. l \notin EmptyLabels /\ l \notin MoveLabels
      BY <2>3, VerdictFacts DEF MemLabels, MoveLabels, EmptyLabels
    <3>3. l \in MemLabels => ok
      BY DEF MemLabels, MoveLabels
    <3>4. ok => jstate'[cur[p]] = "quarantined"
      BY <1>7 DEF JournalMove, UpdateCleanup, StoreTypeOK
    <3> HIDE DEF l, ok
    <3> QED
      BY <2>1, <3>1, <3>2, <3>3, <3>4 DEF Knows, LocalsTypeOK
  <2> QED
    BY <2>2, <2>3
<1>8. CASE JournalRestored(p)
  <2>1. pc[p] = "journalRestored" /\ DestinationAbsent(cur[p])
    BY <1>8 DEF JournalRestored, Knows, EmptyLabels
  <2>2. NoOrphan'
    BY <1>1, <1>8, <2>1, UpdateKeepsNoOrphan DEF JournalRestored
  <2> QED
    BY <1>8, <2>1, <2>2, EndItemKnows DEF JournalRestored
<1>9. CASE JournalDeleted(p)
  <2>1. pc[p] = "journalDeleted" /\ DestinationAbsent(cur[p])
    BY <1>9 DEF JournalDeleted, Knows, EmptyLabels
  <2>2. NoOrphan'
    BY <1>1, <1>9, <2>1, UpdateKeepsNoOrphan DEF JournalDeleted
  <2> QED
    BY <1>9, <2>1, <2>2, EndItemKnows DEF JournalDeleted
<1> QED
  BY <1>4, <1>5, <1>6, <1>7, <1>8, <1>9

\* Nor does a step that touches the file system or Git: its row is active.
LEMMA MachineStepNoOrphan ==
    ASSUME TypeOK, NoOrphanInv, NEW p \in Proc,
           \/ ensureManifest(p) \/ Open(p) \/ Revalidate(p) \/ RenameSource(p) \/ GitRun(p)
           \/ GitRegister(p) \/ RenameBack(p) \/ GitRunBack(p) \/ GitEnters(p)
           \/ GitRegisterBack(p) \/ writeDeletionMarker(p) \/ deleteAnchored(p)
           \/ PartialDelete(p)
    PROVE  NoOrphanInv'
<1>1. UNCHANGED <<lock, jstate>>
  BY DEF ensureManifest, Open, Revalidate, RenameSource, GitRun, GitRegister, RenameBack,
     GitRunBack, GitEnters, GitRegisterBack, writeDeletionMarker, deleteAnchored,
     PartialDelete, store
<1>2. Knows(p) /\ NoOrphan /\ LocalsTypeOK /\ MachineTypeOK /\ cur[p] \in Receipt
  BY DEF NoOrphanInv, TypeOK, LocalsTypeOK
<1>3. SUFFICES /\ pc[p] # "idle" /\ Knows(p)' /\ NoOrphan'
               /\ \A q \in Proc \ {p} : pc'[q] = pc[q]
  BY <1>1, StepOfHolder
<1>4. UNCHANGED dst => NoOrphan'
  BY <1>1, <1>2 DEF NoOrphan
\* Emptying a directory leaves no orphan, and filling that of a prepared
\* receipt does not either.
<1>5. dst' = [dst EXCEPT ![cur[p]] = NoObj]
        => NoOrphan' /\ dst'[cur[p]] = NoObj
  BY <1>1, <1>2 DEF NoOrphan, MachineTypeOK
<1>6. jstate[cur[p]] = "prepared" /\ MovedIn(cur[p]) => NoOrphan'
  BY <1>1, <1>2 DEF NoOrphan, MovedIn, Active, MachineTypeOK
<1> USE <1>2 DEF At
<1>7. CASE ensureManifest(p)
  <2>1. pc[p] = "manifest" /\ UNCHANGED <<dst, cur, mem>> /\ pc' = [pc EXCEPT ![p] = "reconcile"]
    BY <1>7 DEF ensureManifest, Goto
  <2>2. mem[p] = jstate[cur[p]]
    BY <2>1 DEF Knows, MemLabels
  <2> QED
    BY <1>1, <1>4, <2>1, <2>2 DEF Knows, MemLabels, MoveLabels, EmptyLabels, LocalsTypeOK
<1>8. CASE Open(p)
  <2>1. pc[p] = "open" /\ UNCHANGED dst
    BY <1>8 DEF Open
  <2>2. CASE SourceAbsent(cur[p])
    BY <1>4, <1>8, <2>1, <2>2, EndItemKnows DEF Open
  <2>3. CASE ~SourceAbsent(cur[p])
    <3>1. pc' = [pc EXCEPT ![p] = "revalidate"] /\ UNCHANGED <<cur, mem>>
      BY <1>8, <2>3 DEF Open
    <3> QED
      BY <1>1, <1>4, <2>1, <3>1 DEF Knows, MemLabels, MoveLabels, EmptyLabels, LocalsTypeOK
  <2> QED
    BY <2>2, <2>3
<1>9. CASE Revalidate(p)
  <2>1. pc[p] = "revalidate" /\ UNCHANGED dst
    BY <1>9 DEF Revalidate, machine
  <2>2. CASE EndItem(p)
    BY <1>4, <2>1, <2>2, EndItemKnows
  <2>3. CASE Goto(p, IF IsLinked(cur[p]) THEN "gitMove" ELSE "stat")
    <3>1. (pc' = [pc EXCEPT ![p] = "gitMove"] \/ pc' = [pc EXCEPT ![p] = "stat"])
          /\ UNCHANGED <<cur, mem>>
      BY <2>3 DEF Goto
    <3> QED
      BY <1>1, <1>4, <2>1, <3>1 DEF Knows, MemLabels, MoveLabels, EmptyLabels, LocalsTypeOK
  <2> QED
    BY <1>9, <2>2, <2>3 DEF Revalidate
<1>10. CASE RenameSource(p) \/ GitRun(p)
  <2>1. pc[p] \in {"rename", "gitRun"} /\ jstate[cur[p]] = "prepared"
    BY <1>10 DEF RenameSource, GitRun, Knows, MemLabels, MoveLabels
  <2>2. UNCHANGED dst \/ MovedIn(cur[p])
    BY <1>10 DEF RenameSource, GitRun
  <2>3. EndItem(p) \/ Goto(p, "finish") \/ Goto(p, "gitRegister")
    BY <1>10 DEF RenameSource, GitRun
  <2> QED
    BY <1>4, <1>6, <2>1, <2>2, <2>3, EndItemKnows, GotoKnows DEF Goto, MemLabels, MoveLabels,
       EmptyLabels
<1>11. CASE GitRegister(p)
  <2>1. pc[p] = "gitRegister" /\ UNCHANGED dst /\ (EndItem(p) \/ Goto(p, "finish"))
    BY <1>11 DEF GitRegister
  <2> QED
    BY <1>4, <2>1, EndItemKnows, GotoKnows DEF Goto, MemLabels, MoveLabels, EmptyLabels
<1>12. CASE RenameBack(p) \/ GitRunBack(p) \/ GitEnters(p)
  <2>1. pc[p] \in {"renameBack", "gitRunBack"}
    BY <1>12 DEF RenameBack, GitRunBack, GitEnters
  <2>2. CASE EndItem(p) /\ UNCHANGED dst
    BY <1>4, <2>1, <2>2, EndItemKnows
  <2>3. CASE MovedBack(cur[p]) /\ (Goto(p, "journalRestored") \/ Goto(p, "gitRegisterBack"))
    <3>1. NoOrphan' /\ dst'[cur[p]] = NoObj
      BY <1>5, <2>3 DEF MovedBack
    <3> QED
      BY <2>1, <2>3, <3>1 DEF Goto, Knows, MemLabels, MoveLabels, EmptyLabels, DestinationAbsent,
         LocalsTypeOK
  <2>4. CASE EndItem(p) /\ dst' = [dst EXCEPT ![cur[p]] = NoObj]
    BY <1>5, <2>1, <2>4, EndItemKnows
  <2> QED
    BY <1>12, <2>2, <2>3, <2>4 DEF RenameBack, GitRunBack, GitEnters
<1>13. CASE GitRegisterBack(p)
  <2>1. pc[p] = "gitRegisterBack" /\ UNCHANGED dst /\ DestinationAbsent(cur[p])
    BY <1>13 DEF GitRegisterBack, Knows, EmptyLabels
  <2>2. CASE EndItem(p)
    BY <1>4, <2>1, <2>2, EndItemKnows
  <2>3. CASE Goto(p, "journalRestored")
    BY <1>4, <2>1, <2>3 DEF Goto, Knows, MemLabels, MoveLabels, EmptyLabels, DestinationAbsent,
       LocalsTypeOK
  <2> QED
    BY <1>13, <2>2, <2>3 DEF GitRegisterBack
<1>14. CASE writeDeletionMarker(p)
  <2>1. pc[p] = "mark" /\ UNCHANGED dst /\ (EndItem(p) \/ Goto(p, "remove"))
    BY <1>14 DEF writeDeletionMarker
  <2> QED
    BY <1>4, <2>1, EndItemKnows, GotoKnows DEF Goto, MemLabels, MoveLabels, EmptyLabels
<1>15. CASE deleteAnchored(p)
  <2>1. pc[p] = "remove"
    BY <1>15 DEF deleteAnchored
  <2>2. CASE EndItem(p) /\ UNCHANGED dst
    BY <1>4, <2>1, <2>2, EndItemKnows
  <2>3. CASE dst' = [dst EXCEPT ![cur[p]] = NoObj] /\ Goto(p, "journalDeleted")
    BY <1>5, <2>1, <2>3 DEF Goto, Knows, MemLabels, MoveLabels, EmptyLabels, DestinationAbsent,
       LocalsTypeOK
  <2> QED
    BY <1>15, <2>2, <2>3 DEF deleteAnchored
<1>16. CASE PartialDelete(p)
  <2>1. pc[p] = "remove" /\ UNCHANGED dst /\ EndItem(p)
    BY <1>16 DEF PartialDelete
  <2> QED
    BY <1>4, <2>1, EndItemKnows
<1> QED
  BY <1>7, <1>8, <1>9, <1>10, <1>11, <1>12, <1>13, <1>14, <1>15, <1>16

\* Taking and giving up the lock.
LEMMA CommandStepNoOrphan ==
    ASSUME TypeOK, NoOrphanInv, NEW p \in Proc, Start(p) \/ Finish(p) \/ Crash(p)
    PROVE  NoOrphanInv'
<1>1. UNCHANGED <<machine, store>>
  BY DEF Start, StartQuarantine, StartRestore, StartExpire, Begin, Finish, Crash
<1>2. NoOrphan'
  BY <1>1 DEF machine, store, NoOrphanInv, NoOrphan
<1>3. LocalsTypeOK
  BY DEF TypeOK
<1>4. CASE Start(p)
  <2>1. lock = NoProc /\ lock' = p /\ pc' = [pc EXCEPT ![p] = "loop"]
    BY <1>4 DEF Start, StartQuarantine, StartRestore, StartExpire, Begin, lockApply
  <2>2. \A q \in Proc : pc[q] = "idle"
    BY <2>1, ConstantsAssumption DEF NoOrphanInv, LockHeld
  <2>3. LockHeld' /\ \A q \in Proc : Knows(q)'
    BY <1>3, <2>1, <2>2 DEF LockHeld, Knows, MemLabels, MoveLabels, EmptyLabels, LocalsTypeOK
  <2> QED
    BY <1>2, <2>3 DEF NoOrphanInv
<1>5. CASE Finish(p) \/ Crash(p)
  <2>1. lock = p /\ pc' = [pc EXCEPT ![p] = "idle"]
    BY <1>5 DEF Finish, Crash, At, NoOrphanInv, LockHeld
  <2>2. \A q \in Proc : pc'[q] = "idle"
    BY <1>3, <2>1 DEF NoOrphanInv, LockHeld, LocalsTypeOK
  <2>3. LockHeld' /\ \A q \in Proc : Knows(q)'
    BY <2>2 DEF LockHeld, Knows, MemLabels, MoveLabels, EmptyLabels
  <2> QED
    BY <1>2, <2>3 DEF NoOrphanInv
<1> QED
  BY <1>4, <1>5

\* The owner may empty a receipt directory, but puts nothing into one.
LEMMA EnvironmentNoOrphan ==
    ASSUME TypeOK, NoOrphanInv, Environment
    PROVE  NoOrphanInv'
<1>1. UNCHANGED <<store, lock, locals>>
  BY DEF Environment, Create, Remove, MoveAway, PutBack, Touch, ReplaceDir,
     Repair, Tick, ScanPlan, Calm, outsideRest
<1>2. UNCHANGED <<jstate, lock, pc, cur, mem>>
  BY <1>1 DEF store, locals
<1>3. \A r \in Receipt : dst[r] = NoObj => dst'[r] = NoObj
  <2>1. \/ UNCHANGED dst
        \/ \E q \in Receipt : dst' = [dst EXCEPT ![q] = NoObj]
    BY DEF Environment, Create, Remove, MoveAway, PutBack, Touch, ReplaceDir,
       Repair, Tick, ScanPlan, Calm, machine
  <2> QED
    BY <2>1 DEF TypeOK, MachineTypeOK
<1>4. \A p \in Proc : cur[p] \in Receipt
  BY DEF TypeOK, LocalsTypeOK
<1> QED
  BY <1>2, <1>3, <1>4 DEF NoOrphanInv, LockHeld, Knows, DestinationAbsent, NoOrphan

\* Every step keeps the invariant.
LEMMA StepNoOrphan == TypeOK /\ NoOrphanInv /\ [Next]_vars => NoOrphanInv'
<1> SUFFICES ASSUME TypeOK, NoOrphanInv, [Next]_vars PROVE NoOrphanInv'
  OBVIOUS
<1>1. CASE UNCHANGED vars
  BY <1>1 DEF vars, machine, store, locals, NoOrphanInv, LockHeld, Knows, DestinationAbsent,
     NoOrphan
<1>2. CASE Environment
  BY <1>2, EnvironmentNoOrphan
<1>3. ASSUME NEW p \in Proc, Start(p)
      PROVE  NoOrphanInv'
  BY <1>3, CommandStepNoOrphan
<1>4. ASSUME NEW p \in Proc, Work(p)
      PROVE  NoOrphanInv'
  <2> USE DEF Work
  <2>1. CASE Finish(p)
    BY <2>1, CommandStepNoOrphan
  <2>2. CASE \/ Pick(p) \/ Reconcile(p) \/ EligibleRetry(p) \/ FinishRecovered(p)
             \/ FinishQuarantine(p) \/ FinishRefused(p) \/ StatSource(p) \/ GitMove(p)
             \/ Cancel(p) \/ Restore(p) \/ GitMoveBack(p) \/ SettleAbsent(p) \/ CheckEligible(p)
    BY <2>2, ControlStepNoOrphan
  <2>3. CASE \/ Prepare(p) \/ Requarantine(p) \/ Investigate(p) \/ JournalMove(p)
             \/ JournalRestored(p) \/ JournalDeleted(p)
    BY <2>3, JournalStepNoOrphan
  <2>4. CASE \/ ensureManifest(p) \/ Open(p) \/ Revalidate(p) \/ RenameSource(p)
             \/ GitRun(p) \/ GitRegister(p) \/ RenameBack(p) \/ GitRunBack(p) \/ GitEnters(p)
             \/ GitRegisterBack(p) \/ writeDeletionMarker(p) \/ deleteAnchored(p)
    BY <2>4, MachineStepNoOrphan
  <2> QED
    BY <1>4, <2>1, <2>2, <2>3, <2>4
<1>5. ASSUME NEW p \in Proc, Fault(p)
      PROVE  NoOrphanInv'
  BY <1>5, CommandStepNoOrphan, ControlStepNoOrphan, MachineStepNoOrphan DEF Fault
<1> QED
  BY <1>1, <1>2, <1>3, <1>4, <1>5 DEF Next

\* Whatever fails, dies or runs beside it, the engine never closes the receipt
\* of an object that still is in quarantine, nor quarantines one without an
\* active receipt.
THEOREM NothingForgotten == Spec => []NoOrphan
<1>1. Init => NoOrphanInv
  BY DEF Init, NoOrphanInv, LockHeld, Knows, NoOrphan, MemLabels, MoveLabels, EmptyLabels
<1>2. TypeOK /\ NoOrphanInv /\ [Next]_vars => NoOrphanInv'
  BY StepNoOrphan
<1>3. NoOrphanInv => NoOrphan
  BY DEF NoOrphanInv
<1> QED
  BY <1>1, <1>2, <1>3, TypeCorrect, PTL DEF Spec

-----------------------------------------------------------------------------
(* What a step does to the names of objects, to the journal and to the      *)
(* clock.  The proofs below judge a step by its effect, not by its label.    *)

names == <<src, dst, away, born, took>>

\* A receipt is opened; the journal records a move; the state of a row changes.
Prepares(p) ==
    /\ pc[p] = "prepare" /\ jstate[cur[p]] = "none" /\ ~Claimed(PathOfReceipt(cur[p]))
    /\ jstate' = [jstate EXCEPT ![cur[p]] = "prepared"] /\ UNCHANGED <<movedAt, qver>>
Records(p) ==
    /\ pc[p] \in {"journalMove", "journalRecovered"} /\ jstate[cur[p]] = "prepared"
    /\ jstate' = [jstate EXCEPT ![cur[p]] = "quarantined"]
    /\ movedAt' = [movedAt EXCEPT ![cur[p]] = now]
Writes(p, l, e, s) ==
    /\ pc[p] = l /\ jstate[cur[p]] = e /\ CanTransitionTo(e, s)
    /\ jstate' = [jstate EXCEPT ![cur[p]] = s] /\ UNCHANGED <<movedAt, qver>>
Journals(p) ==
    /\ \/ Prepares(p) \/ Records(p)
       \/ Writes(p, "requarantine", "investigate", "quarantined")
       \/ Writes(p, "journalDeleted", "quarantined", "deleted")
       \/ Writes(p, "journalRestored", mem[p], "restored")
       \/ Writes(p, "investigate", mem[p], "investigate")
    /\ UNCHANGED <<names, now, checked, marker>>

\* A directory of a receipt is filled; its object goes back, is deleted, or is given by git
\* another name.
Fills(p) ==
    /\ pc[p] \in {"rename", "gitRun"}
    /\ src[PathOfReceipt(cur[p])] # NoObj /\ DestinationAbsent(cur[p])
    /\ MovedIn(cur[p]) /\ UNCHANGED away
Returns(p) ==
    /\ \/ pc[p] = "renameBack" /\ SourceAbsent(cur[p])
       \/ pc[p] = "gitRunBack" /\ src[PathOfReceipt(cur[p])] \notin Linked
    /\ ~DestinationAbsent(cur[p])
    /\ MovedBack(cur[p]) /\ UNCHANGED away
Empties(p) ==
    /\ ~DestinationAbsent(cur[p])
    /\ dst' = [dst EXCEPT ![cur[p]] = NoObj] /\ took' = [took EXCEPT ![cur[p]] = -1]
    /\ UNCHANGED src
Deletes(p) == pc[p] = "remove" /\ Empties(p) /\ UNCHANGED away
Renames(p) == pc[p] = "gitRunBack" /\ Empties(p) /\ away' = away \cup {dst[cur[p]]}
Moves(p) ==
    /\ Fills(p) \/ Returns(p) \/ Deletes(p) \/ Renames(p)
    /\ UNCHANGED <<born, store, now, checked, marker>>

\* A source passes revalidation.
Checks(p) ==
    /\ pc[p] = "revalidate" /\ Revalidated(p, cur[p])
    /\ checked' = [checked EXCEPT ![cur[p]] = src[PathOfReceipt(cur[p])]]
    /\ UNCHANGED <<names, store, now, marker>>

\* A deletion marker becomes durable.
Marks(p) ==
    /\ pc[p] = "mark" /\ marker' = marker \cup {cur[p]}
    /\ UNCHANGED <<names, store, now, checked>>

Quiet == UNCHANGED <<names, store, now, checked, marker>>

OwnerRenames ==
    \/ \E s \in Source : \/ Remove(s) \/ MoveAway(s)
                         \/ \E o \in Obj : Create(s, o) \/ PutBack(s, o)
    \/ \E r \in Receipt : ReplaceDir(r)

\* Every step of a process has one of these effects.
LEMMA ProcessEffects ==
    ASSUME TypeOK, NEW p \in Proc, Start(p) \/ Work(p) \/ Fault(p)
    PROVE  /\ Quiet \/ Journals(p) \/ Moves(p) \/ Checks(p) \/ Marks(p)
           /\ UNCHANGED plans
<1> USE DEF Quiet, names
<1>3. CASE Start(p) \/ Finish(p) \/ Crash(p)
  BY <1>3 DEF Start, StartQuarantine, StartRestore, StartExpire, Begin, Finish, Crash, machine,
     world, history
<1>4. CASE \/ Pick(p) \/ Reconcile(p) \/ Unreadable(p) \/ EligibleRetry(p)
           \/ InvestigateUnwritten(p) \/ FinishRecovered(p) \/ FinishQuarantine(p)
           \/ FinishRefused(p) \/ FinishRecoveredFails(p) \/ StatSource(p) \/ GitMove(p)
           \/ Cancel(p) \/ Restore(p) \/ GitMoveBack(p) \/ SettleAbsent(p) \/ CheckEligible(p)
           \/ Fail(p)
  BY <1>4 DEF Pick, Reconcile, Unreadable, EligibleRetry, InvestigateUnwritten, FinishRecovered,
     FinishQuarantine, FinishMove, FinishRefused, FinishRecoveredFails, StatSource, GitMove,
     Cancel, Restore, GitMoveBack, SettleAbsent, CheckEligible, Fail, machine, world, history
<1>5. CASE Prepare(p)
  BY <1>5 DEF Prepare, Journals, Prepares, At, machine, world, history, store
<1>6. CASE Requarantine(p) \/ Investigate(p) \/ JournalRestored(p) \/ JournalDeleted(p)
  BY <1>6 DEF Requarantine, Investigate, JournalRestored, JournalDeleted, UpdateCleanup, Accepts,
     Journals, Writes, At, machine, world, history, store
<1>7. CASE JournalMove(p)
  BY <1>7 DEF JournalMove, UpdateCleanup, Accepts, CanTransitionTo, Journals, Records, machine,
     world, history, store
<1>8. CASE \/ ensureManifest(p) \/ Open(p) \/ GitRegister(p) \/ GitRegisterBack(p)
           \/ PartialDelete(p)
  BY <1>8 DEF ensureManifest, Open, GitRegister, GitRegisterBack, PartialDelete, world, history
<1>9. CASE Revalidate(p)
  BY <1>9 DEF Revalidate, Checks, At, machine, world
<1>10. CASE writeDeletionMarker(p)
  BY <1>10 DEF writeDeletionMarker, Marks, At, world, history
<1>11. CASE RenameSource(p) \/ GitRun(p)
  BY <1>11 DEF RenameSource, GitRun, At, Moves, Fills, world
<1>12. CASE RenameBack(p) \/ GitRunBack(p) \/ GitEnters(p) \/ deleteAnchored(p)
  <2>1. DestinationMatches(cur[p]) => ~DestinationAbsent(cur[p])
    BY DEF DestinationMatches, identityMatches, DestinationAbsent
  <2>2. CASE RenameBack(p) \/ GitRunBack(p)
    BY <2>1, <2>2 DEF RenameBack, GitRunBack, At, Moves, Returns, world
  <2>3. CASE GitEnters(p) \/ deleteAnchored(p)
    BY <2>1, <2>3 DEF GitEnters, deleteAnchored, At, Moves, Deletes, Renames, Empties,
       DestinationAbsent, world
  <2> QED
    BY <1>12, <2>2, <2>3
<1> QED
  BY <1>3, <1>4, <1>5, <1>6, <1>7, <1>8, <1>9, <1>10, <1>11, <1>12 DEF Work, Fault

\* The owner never touches the journal or the locals of a process.
LEMMA OwnerEffects ==
    ASSUME Environment
    PROVE  /\ UNCHANGED <<store, locals, lock, checked>>
           /\ \/ OwnerRenames /\ UNCHANGED <<plans, now>>
              \/ Tick /\ UNCHANGED <<names, marker, plans>>
              \/ UNCHANGED <<names, marker, now>>
<1>1. \/ OwnerRenames \/ (\E o \in Obj : Touch(o) \/ Repair(o))
      \/ (\E pl \in Plan : ScanPlan(pl)) \/ Tick \/ Calm
  BY DEF Environment, OwnerRenames
<1>2. CASE OwnerRenames
  BY <1>2 DEF OwnerRenames, Remove, MoveAway, Create, PutBack, ReplaceDir, outsideRest, world
<1>3. CASE \/ (\E o \in Obj : Touch(o) \/ Repair(o))
           \/ (\E pl \in Plan : ScanPlan(pl)) \/ Tick \/ Calm
  BY <1>3 DEF Touch, Repair, ScanPlan, Tick, Calm, outsideRest, world, names, machine
<1> QED
  BY <1>1, <1>2, <1>3
(* Names. *)

\* An object has one name, and existed only if it was created.
OneName ==
    /\ \A s, t \in Source : src[s] # NoObj /\ src[s] = src[t] => s = t
    /\ \A q, r \in Receipt : dst[q] # NoObj /\ dst[q] = dst[r] => q = r
    /\ \A s \in Source, r \in Receipt : src[s] # NoObj => src[s] # dst[r]
    /\ \A s \in Source : src[s] \notin away
    /\ \A r \in Receipt : dst[r] \notin away
    /\ \A o \in Obj : Alive(o) => o \in born

\* No rename, creation or removal gives an object a second name.
LEMMA OneNameStep ==
    ASSUME TypeOK, OneName, [Next]_vars
    PROVE  OneName'
<1> USE DEF OneName
<1>0. /\ src \in [Source -> Obj \cup {NoObj}] /\ dst \in [Receipt -> Obj \cup {NoObj}]
      /\ away \subseteq Obj /\ NoObj \notin Obj /\ \A p \in Proc : cur[p] \in Receipt /\ PathOfReceipt(cur[p]) \in Source
  BY LocalsOfProcess, ConstantsAssumption DEF TypeOK, MachineTypeOK
<1>1. CASE UNCHANGED names
  BY <1>1 DEF names, Alive
<1>2. ASSUME NEW p \in Proc, Fills(p), Moves(p)
      PROVE  OneName'
  <2> DEFINE s == PathOfReceipt(cur[p])
             r == cur[p]
  <2>1. /\ src[s] \in Obj /\ dst[r] = NoObj /\ s \in Source /\ r \in Receipt
        /\ src' = [src EXCEPT ![s] = NoObj] /\ dst' = [dst EXCEPT ![r] = src[s]]
        /\ UNCHANGED <<away, born>>
    BY <1>0, <1>2 DEF Moves, Fills, MovedIn, DestinationAbsent
  <2> HIDE DEF s, r
  <2> QED
    BY <1>0, <2>1 DEF Alive
<1>3. ASSUME NEW p \in Proc, Returns(p), Moves(p)
      PROVE  OneName'
  <2> DEFINE s == PathOfReceipt(cur[p])
             r == cur[p]
  <2>1. /\ dst[r] \in Obj /\ s \in Source /\ r \in Receipt
        /\ src' = [src EXCEPT ![s] = dst[r]] /\ dst' = [dst EXCEPT ![r] = NoObj]
        /\ UNCHANGED <<away, born>>
    BY <1>0, <1>3 DEF Moves, Returns, MovedBack, DestinationAbsent
  <2> HIDE DEF s, r
  <2> QED
    BY <1>0, <2>1 DEF Alive
<1>4. ASSUME NEW p \in Proc, Deletes(p) \/ Renames(p), Moves(p)
      PROVE  OneName'
  <2> DEFINE r == cur[p]
  <2>1. /\ dst[r] \in Obj /\ r \in Receipt /\ dst' = [dst EXCEPT ![r] = NoObj]
        /\ away' = away \/ away' = away \cup {dst[r]}
        /\ UNCHANGED <<src, born>>
    BY <1>0, <1>4 DEF Moves, Deletes, Renames, Empties, DestinationAbsent
  <2> HIDE DEF r
  <2> QED
    BY <1>0, <2>1 DEF Alive
<1>5. ASSUME NEW s \in Source, NEW o \in Obj, Create(s, o)
      PROVE  OneName'
  <2>1. /\ src' = [src EXCEPT ![s] = o] /\ src[s] = NoObj /\ ~Alive(o) /\ born' = born \cup {o}
        /\ UNCHANGED <<dst, away>>
    BY <1>5 DEF Create
  <2> QED
    BY <1>0, <2>1 DEF Alive
<1>6. ASSUME NEW s \in Source, Remove(s) \/ MoveAway(s)
      PROVE  OneName'
  <2>1. /\ src' = [src EXCEPT ![s] = NoObj] /\ src[s] \in Obj /\ UNCHANGED <<dst, born>>
        /\ away' = away \/ away' = away \cup {src[s]}
    BY <1>0, <1>6 DEF Remove, MoveAway
  <2> QED
    BY <1>0, <2>1 DEF Alive
<1>7. ASSUME NEW s \in Source, NEW o \in Obj, PutBack(s, o)
      PROVE  OneName'
  <2>1. /\ src' = [src EXCEPT ![s] = o] /\ src[s] = NoObj /\ o \in away /\ away' = away \ {o}
        /\ UNCHANGED <<dst, born>>
    BY <1>7 DEF PutBack
  <2> QED
    BY <1>0, <2>1 DEF Alive
<1>8. ASSUME NEW r \in Receipt, ReplaceDir(r)
      PROVE  OneName'
  <2>1. /\ dst' = [dst EXCEPT ![r] = NoObj] /\ away' = away \cup ({dst[r]} \ {NoObj})
        /\ UNCHANGED <<src, born>>
    BY <1>8 DEF ReplaceDir
  <2> QED
    BY <1>0, <2>1 DEF Alive
<1>9. CASE OwnerRenames
  BY <1>5, <1>6, <1>7, <1>8, <1>9 DEF OwnerRenames
<1>10. CASE Environment
  BY <1>1, <1>9, <1>10, OwnerEffects
<1>11. ASSUME NEW p \in Proc, Start(p) \/ Work(p) \/ Fault(p)
       PROVE  OneName'
  <2>1. CASE Moves(p)
    BY <1>2, <1>3, <1>4, <2>1 DEF Moves
  <2>2. CASE Quiet \/ Journals(p) \/ Checks(p) \/ Marks(p)
    BY <1>1, <2>2 DEF Quiet, Journals, Checks, Marks
  <2> QED
    BY <1>11, <2>1, <2>2, ProcessEffects
<1>12. CASE UNCHANGED vars
  BY <1>1, <1>12 DEF vars, machine, history, names
<1> QED
  BY <1>10, <1>11, <1>12 DEF Next

\* The other processes wait for the lock.
LEMMA OnlyOneActs ==
    ASSUME TypeOK, NoOrphanInv, NEW p \in Proc, Start(p) \/ Work(p) \/ Fault(p)
    PROVE  \A q \in Proc \ {p} : pc[q] = "idle" /\ pc'[q] = "idle"
<1>0. LocalsTypeOK
  BY DEF TypeOK
<1>1. CASE Start(p)
  <2>1. lock = NoProc /\ pc' = [pc EXCEPT ![p] = "loop"]
    BY <1>1 DEF Start, StartQuarantine, StartRestore, StartExpire, Begin, lockApply
  <2> QED
    BY <1>0, <2>1, ConstantsAssumption DEF NoOrphanInv, LockHeld, LocalsTypeOK
<1>2. CASE Crash(p)
  BY <1>0, <1>2 DEF Crash, NoOrphanInv, LockHeld, LocalsTypeOK
<1>3. CASE (Work(p) \/ Fault(p)) /\ ~Crash(p)
  <2>1. pc[p] # "idle"
    BY <1>3 DEF Work, Fault, At, Finish, Pick, Prepare, ensureManifest, Reconcile, EligibleRetry,
       Requarantine, Investigate, FinishRecovered, FinishQuarantine, FinishMove, FinishRefused,
       JournalMove, Open, Revalidate, StatSource, RenameSource, GitMove, GitRun, GitRegister,
       Cancel, Restore, RenameBack, GitMoveBack, GitRunBack, GitEnters, GitRegisterBack,
       JournalRestored, SettleAbsent, CheckEligible, writeDeletionMarker, deleteAnchored, JournalDeleted, Unreadable,
       InvestigateUnwritten, FinishRecoveredFails, PartialDelete, Fail, Abandons
  <2>2. \E l : pc' = [pc EXCEPT ![p] = l]
    BY <1>3 DEF Work, Fault, Goto, EndItem, Continue, Finish, Pick, Prepare, ensureManifest,
       Reconcile, EligibleRetry,
       Requarantine, Investigate, FinishRecovered, FinishQuarantine, FinishMove, FinishRefused,
       JournalMove, Open, Revalidate, StatSource, RenameSource, GitMove, GitRun, GitRegister,
       Cancel, Restore, RenameBack, GitMoveBack, GitRunBack, GitEnters, GitRegisterBack,
       JournalRestored, SettleAbsent, CheckEligible, writeDeletionMarker, deleteAnchored, JournalDeleted, Unreadable,
       InvestigateUnwritten, FinishRecoveredFails, PartialDelete, Fail
  <2> QED
    BY <1>0, <2>1, <2>2 DEF NoOrphanInv, LockHeld, LocalsTypeOK
<1> QED
  BY <1>1, <1>2, <1>3

\* What is at the path a process gives a worktree back to came after it had looked.
LateInv ==
    \A p \in Proc : At(p, "gitRunBack") => src[PathOfReceipt(cur[p])] \in late \cup {NoObj}

\* A process gives a worktree back only after it has found the path free.
LEMMA GitRunBackArrival ==
    ASSUME TypeOK, NEW p \in Proc, Start(p) \/ Work(p) \/ Fault(p)
    PROVE  \/ Goto(p, "gitRunBack") /\ SourceAbsent(cur[p]) /\ UNCHANGED src
           \/ pc'[p] # "gitRunBack"
<1>0. LocalsTypeOK
  BY DEF TypeOK
<1>1. EndItem(p) => pc'[p] # "gitRunBack"
  BY <1>0 DEF EndItem, LocalsTypeOK
<1>2. \A l : l # "gitRunBack" /\ pc' = [pc EXCEPT ![p] = l] => pc'[p] # "gitRunBack"
  BY <1>0 DEF LocalsTypeOK
<1>3. \A l, s : l # "gitRunBack" /\ Continue(p, l, s) => pc'[p] # "gitRunBack"
  BY <1>1, <1>2 DEF Continue
<1>4. \A c, r, s : /\ AfterReconcile(c, r, s) # "gitRunBack"
                   /\ FirstStep(c, r) # "gitRunBack"
                   /\ RestoreVerdict(r, s) # "gitRunBack"
  BY DEF AfterReconcile, FirstStep, RestoreVerdict
<1>5. \A c, r, s : Verdict(c, r, s) # "gitRunBack"
  BY <1>4 DEF Verdict
<1>6. CASE GitMoveBack(p)
  BY <1>1, <1>6 DEF GitMoveBack, machine
<1>7. CASE Start(p) \/ Finish(p) \/ Crash(p)
  <2>1. pc' = [pc EXCEPT ![p] = "loop"] \/ pc' = [pc EXCEPT ![p] = "idle"]
    BY <1>7 DEF Start, StartQuarantine, StartRestore, StartExpire, Begin, Finish, Crash
  <2> QED
    BY <1>2, <2>1
<1>8. CASE Pick(p)
  <2>1. PICK r \in todo[p] : pc' = [pc EXCEPT ![p] = FirstStep(cmd[p], r)]
    BY <1>8 DEF Pick
  <2> QED
    BY <1>2, <1>4, <2>1
<1>9. CASE Reconcile(p) \/ Restore(p)
  BY <1>3, <1>4, <1>5, <1>9 DEF Reconcile, Restore
<1>10. CASE Requarantine(p)
  <2>1. PICK l : l # "gitRunBack" /\ Continue(p, l, "quarantined")
    BY <1>4, <1>10 DEF Requarantine
  <2> QED
    BY <1>3, <2>1
<1>11. CASE JournalMove(p)
  <2>1. EndItem(p) \/ \E l : l # "gitRunBack" /\ pc' = [pc EXCEPT ![p] = l]
    BY <1>4, <1>11 DEF JournalMove
  <2> QED
    BY <1>1, <1>2, <2>1
<1>12. CASE SettleAbsent(p)
  <2> DEFINE l == CASE settleAbsent(cur[p]) = "deleted"  -> "journalDeleted"
                    [] settleAbsent(cur[p]) = "restored" -> "reconcile"
                    [] OTHER -> "eligible"
  <2>1. Goto(p, l) /\ l # "gitRunBack"
    BY <1>12 DEF SettleAbsent
  <2> HIDE DEF l
  <2> QED
    BY <1>2, <2>1 DEF Goto
<1>13. CASE \/ EligibleRetry(p) \/ Prepare(p) \/ Investigate(p) \/ InvestigateUnwritten(p)
  <2>1. EndItem(p) \/ (\E l : l # "gitRunBack" /\ pc' = [pc EXCEPT ![p] = l])
        \/ \E l, s : l # "gitRunBack" /\ Continue(p, l, s)
    BY <1>13 DEF EligibleRetry, Prepare, Investigate, InvestigateUnwritten, Goto
  <2> QED
    BY <1>1, <1>2, <1>3, <2>1
<1>14. CASE \/ ensureManifest(p) \/ FinishRefused(p) \/ Open(p) \/ Revalidate(p)
            \/ StatSource(p) \/ RenameSource(p) \/ GitMove(p) \/ GitRun(p) \/ GitRegister(p)
            \/ Cancel(p) \/ RenameBack(p) \/ GitRunBack(p) \/ GitEnters(p) \/ GitRegisterBack(p)
            \/ JournalRestored(p) \/ CheckEligible(p) \/ writeDeletionMarker(p)
            \/ deleteAnchored(p) \/ JournalDeleted(p) \/ Unreadable(p) \/ PartialDelete(p)
            \/ Fail(p) \/ FinishRecovered(p) \/ FinishQuarantine(p) \/ FinishRecoveredFails(p)
  <2>1. EndItem(p) \/ \E l : l # "gitRunBack" /\ pc' = [pc EXCEPT ![p] = l]
    BY <1>14 DEF ensureManifest, FinishRefused, Open, Revalidate, StatSource, RenameSource,
       GitMove, GitRun, GitRegister, Cancel, RenameBack, GitRunBack, GitEnters, GitRegisterBack,
       JournalRestored, CheckEligible, writeDeletionMarker, deleteAnchored, JournalDeleted,
       Unreadable, PartialDelete, Fail, FinishRecovered, FinishQuarantine, FinishMove,
       FinishRecoveredFails, Goto
  <2> QED
    BY <1>1, <1>2, <2>1
<1> QED
  BY <1>6, <1>7, <1>8, <1>9, <1>10, <1>11, <1>12, <1>13, <1>14 DEF Work, Fault

\* A process starts git only where it saw nothing, and what comes then is recorded.
LEMMA LateStep == TypeOK /\ NoOrphanInv /\ LateInv /\ [Next]_vars => LateInv'
<1> SUFFICES ASSUME TypeOK, NoOrphanInv, LateInv, [Next]_vars, NEW p \in Proc, At(p, "gitRunBack")'
             PROVE  src'[PathOfReceipt(cur'[p])] \in late' \cup {NoObj}
  BY DEF LateInv
<1> USE DEF At
<1>0. /\ LocalsTypeOK /\ src \in [Source -> Obj \cup {NoObj}]
      /\ \A q \in Proc : cur[q] \in Receipt /\ PathOfReceipt(cur[q]) \in Source
  BY LocalsOfProcess DEF TypeOK, MachineTypeOK
<1>1. CASE UNCHANGED vars
  BY <1>1 DEF vars, machine, locals, history, LateInv
<1>2. CASE Environment
  <2>1. UNCHANGED <<pc, cur>> /\ pc[p] = "gitRunBack"
    BY <1>2, OwnerEffects DEF locals
  <2>2. ASSUME NEW s \in Source, NEW o \in Obj, Create(s, o) \/ PutBack(s, o)
        PROVE  src' = [src EXCEPT ![s] = o] /\ late' = late \cup {o}
    BY <2>1, <2>2 DEF Create, PutBack, Arrives
  <2>3. \/ \E s \in Source, o \in Obj : Create(s, o) \/ PutBack(s, o)
        \/ /\ late' = late
           /\ src' = src \/ \E s \in Source : src' = [src EXCEPT ![s] = NoObj]
    BY <1>2 DEF Environment, Remove, MoveAway, Touch, Repair, ReplaceDir, ScanPlan, Tick, Calm,
       machine
  <2> DEFINE s == PathOfReceipt(cur[p])
  <2>4. src[s] \in late \cup {NoObj} /\ s \in Source
    BY <1>0, <2>1 DEF LateInv
  <2>5. PathOfReceipt(cur'[p]) = s
    BY <2>1
  <2> HIDE DEF s
  <2>6. src'[s] \in late' \cup {NoObj}
    BY <1>0, <2>2, <2>3, <2>4
  <2> QED
    BY <2>5, <2>6
<1>3. ASSUME NEW q \in Proc, Start(q) \/ Work(q) \/ Fault(q)
      PROVE  src'[PathOfReceipt(cur'[p])] \in late' \cup {NoObj}
  <2>1. q = p
    BY <1>3, OnlyOneActs
  <2>2. \/ Goto(p, "gitRunBack") /\ SourceAbsent(cur[p]) /\ UNCHANGED src
        \/ pc'[p] # "gitRunBack"
    BY <1>3, <2>1, GitRunBackArrival
  <2> QED
    BY <2>1, <2>2 DEF Goto, SourceAbsent
<1> QED
  BY <1>1, <1>2, <1>3 DEF Next

\* An object dies only where its own name becomes empty, except that `git worktree move` may
\* put the worktree it gives back in the place of what came there after the path was found
\* free, and is no worktree: no rename of the janitor's own replaces what it meets.
THEOREM NothingIsOverwritten == Spec => NeverOverwrites
<1> DEFINE Kept == \A o \in Obj : Alive(o) /\ ~Alive(o)' =>
                      \/ \E s \in Source : src[s] = o /\ src'[s] = NoObj
                      \/ \E r \in Receipt : dst[r] = o /\ dst'[r] = NoObj
                      \/ o \in late \ Linked /\ \E p \in Proc : At(p, "gitRunBack")
<1>1. TypeOK /\ LateInv /\ [Next]_vars => [Kept]_vars
  <2> SUFFICES ASSUME TypeOK, LateInv, [Next]_vars, NEW o \in Obj, Alive(o), ~Alive(o)'
               PROVE  \/ \E s \in Source : src[s] = o /\ src'[s] = NoObj
                      \/ \E r \in Receipt : dst[r] = o /\ dst'[r] = NoObj
                      \/ o \in late \ Linked /\ \E p \in Proc : At(p, "gitRunBack")
    OBVIOUS
  <2>0. /\ src \in [Source -> Obj \cup {NoObj}] /\ dst \in [Receipt -> Obj \cup {NoObj}]
        /\ \A p \in Proc : cur[p] \in Receipt /\ PathOfReceipt(cur[p]) \in Source
        /\ NoObj \notin Obj
    BY LocalsOfProcess, ConstantsAssumption DEF TypeOK, MachineTypeOK
  <2>1. ~UNCHANGED names
    BY DEF names, Alive
  <2>2. ASSUME NEW p \in Proc, Moves(p)
        PROVE  \/ \E s \in Source : src[s] = o /\ src'[s] = NoObj
               \/ \E r \in Receipt : dst[r] = o /\ dst'[r] = NoObj
               \/ o \in late \ Linked /\ At(p, "gitRunBack")
    <3>1. CASE Fills(p)
      BY <2>0, <2>2, <3>1 DEF Moves, Fills, MovedIn, DestinationAbsent, Alive
    <3>2. CASE Returns(p)
      <4> DEFINE s == PathOfReceipt(cur[p])
                 r == cur[p]
      <4>1. /\ src' = [src EXCEPT ![s] = dst[r]] /\ dst' = [dst EXCEPT ![r] = NoObj]
            /\ UNCHANGED away /\ s \in Source /\ r \in Receipt
        BY <2>0, <3>2 DEF Returns, MovedBack
      <4>2. src[s] = o
        <5> HIDE DEF s, r
        <5> QED
          BY <2>0, <4>1 DEF Alive
      <4>3. At(p, "gitRunBack") /\ o \notin Linked
        BY <2>0, <3>2, <4>2 DEF Returns, SourceAbsent, At
      <4>4. o \in late
        BY <2>0, <4>2, <4>3 DEF LateInv
      <4> QED
        BY <4>3, <4>4
    <3>3. CASE Deletes(p) \/ Renames(p)
      BY <2>0, <2>2, <3>3 DEF Moves, Deletes, Renames, Empties, Alive
    <3> QED
      BY <2>2, <3>1, <3>2, <3>3 DEF Moves
  <2>3. CASE OwnerRenames
    <3>1. ASSUME NEW s \in Source, NEW q \in Obj, Create(s, q) \/ PutBack(s, q)
          PROVE  FALSE
      BY <2>0, <3>1 DEF Create, PutBack, Alive
    <3>2. ASSUME NEW s \in Source, Remove(s) \/ MoveAway(s)
          PROVE  \E t \in Source : src[t] = o /\ src'[t] = NoObj
      BY <2>0, <3>2 DEF Remove, MoveAway, Alive
    <3>3. ASSUME NEW r \in Receipt, ReplaceDir(r)
          PROVE  FALSE
      BY <2>0, <3>3 DEF ReplaceDir, Alive
    <3> QED
      BY <2>3, <3>1, <3>2, <3>3 DEF OwnerRenames
  <2>4. CASE Environment
    BY <2>1, <2>3, <2>4, OwnerEffects
  <2>5. ASSUME NEW p \in Proc, Start(p) \/ Work(p) \/ Fault(p)
        PROVE  Moves(p)
    BY <2>1, <2>5, ProcessEffects DEF Quiet, Journals, Checks, Marks
  <2>6. ~UNCHANGED vars
    BY <2>1 DEF vars, machine, history, names
  <2> QED
    BY <2>2, <2>4, <2>5, <2>6 DEF Next
<1>2. Init => NoOrphanInv /\ LateInv
  BY DEF Init, NoOrphanInv, LockHeld, Knows, NoOrphan, MemLabels, MoveLabels, EmptyLabels,
     LateInv, At
<1>3. Spec => [][Kept]_vars
  BY <1>1, <1>2, LateStep, StepNoOrphan, TypeCorrect, PTL DEF Spec
<1> QED
  BY <1>3 DEF NeverOverwrites

-----------------------------------------------------------------------------
(* Retention.  Between the check of the window and the removal there are     *)
(* four labels: what the process knows at each, and what a row tells about   *)
(* the object in its directory, is the invariant.                            *)

\* How a process comes to a label at which it may delete.
LEMMA ExpiryArrivals ==
    ASSUME TypeOK, NoOrphanInv, NEW p \in Proc, Start(p) \/ Work(p) \/ Fault(p)
    PROVE  /\ pc'[p] = "settle" => jstate'[cur'[p]] = "quarantined"
           /\ pc'[p] = "eligible" => pc[p] = "settle" /\ Quiet /\ UNCHANGED cur
           /\ pc'[p] = "mark" => pc[p] = "eligible" /\ Eligible(cur[p]) /\ Quiet /\ UNCHANGED cur
           /\ pc'[p] = "remove" => pc[p] = "mark" /\ Marks(p) /\ UNCHANGED cur
           /\ pc'[p] = "journalDeleted" =>
                /\ UNCHANGED cur
                /\ \/ pc[p] = "settle" /\ cur[p] \in marker /\ Quiet
                   \/ pc[p] = "remove" /\ Moves(p)
<1> DEFINE P == {"settle", "eligible", "mark", "remove", "journalDeleted"}
<1>0. LocalsTypeOK /\ Knows(p) /\ StoreTypeOK /\ cur[p] \in Receipt
  BY DEF TypeOK, NoOrphanInv, LocalsTypeOK
<1> USE <1>0 DEF At
<1>1. EndItem(p) => pc'[p] \notin P
  BY DEF EndItem, LocalsTypeOK
<1>2. \A l : Goto(p, l) => pc'[p] = l
  BY DEF Goto, LocalsTypeOK
<1>3. \A l, s : Continue(p, l, s) => pc'[p] = l /\ (l # "loop" => UNCHANGED cur)
  BY DEF Continue, EndItem, LocalsTypeOK
<1>4. CASE Start(p) \/ Finish(p) \/ Crash(p)
  <2>1. pc' = [pc EXCEPT ![p] = "loop"] \/ pc' = [pc EXCEPT ![p] = "idle"]
    BY <1>4 DEF Start, StartQuarantine, StartRestore, StartExpire, Begin, Finish, Crash
  <2> QED
    BY <2>1 DEF LocalsTypeOK
<1>5. CASE Pick(p)
  <2>1. PICK r \in todo[p] :
          /\ pc' = [pc EXCEPT ![p] = FirstStep(cmd[p], r)]
          /\ cur' = [cur EXCEPT ![p] = IF FirstStep(cmd[p], r) = "loop" THEN NilReceipt ELSE r]
    BY <1>5 DEF Pick
  <2>2. /\ FirstStep(cmd[p], r) \in {"loop", "prepare", "reconcile", "settle"}
        /\ FirstStep(cmd[p], r) = "settle" => jstate[r] = "quarantined"
    BY DEF FirstStep
  <2> QED
    BY <1>5, <2>1, <2>2 DEF Pick, store, LocalsTypeOK
<1>6. CASE Reconcile(p)
  <2>1. mem[p] = jstate[cur[p]] /\ UNCHANGED jstate
    BY <1>6 DEF Reconcile, Knows, MemLabels, store
  <2>2. /\ Verdict(cmd[p], cur[p], mem[p]) \notin P \ {"settle"}
        /\ Verdict(cmd[p], cur[p], mem[p]) = "settle" => mem[p] = "quarantined"
    <3>1. \A s : /\ AfterReconcile(cmd[p], cur[p], s) \notin P \ {"settle"}
                 /\ AfterReconcile(cmd[p], cur[p], s) = "settle" => s = "quarantined"
      BY DEF AfterReconcile
    <3> QED
      BY <3>1 DEF Verdict
  <2>3. Continue(p, Verdict(cmd[p], cur[p], mem[p]), mem[p])
    BY <1>6 DEF Reconcile
  <2>4. pc'[p] = Verdict(cmd[p], cur[p], mem[p]) /\ (pc'[p] # "loop" => UNCHANGED cur)
    BY <1>3, <2>3
  <2> HIDE DEF P
  <2>5. "loop" # "settle"
    OBVIOUS
  <2>6. pc'[p] \notin P \ {"settle"} /\ (pc'[p] = "settle" => jstate'[cur'[p]] = "quarantined")
    BY <2>1, <2>2, <2>4, <2>5
  <2> QED
    BY <2>6 DEF P
<1>7. CASE Requarantine(p) \/ JournalMove(p)
  <2>1. \A s : /\ AfterReconcile(cmd[p], cur[p], s) \notin P \ {"settle"}
               /\ AfterReconcile(cmd[p], cur[p], s) = "settle" => s = "quarantined"
    BY DEF AfterReconcile
  <2>2. CASE Requarantine(p)
    <3> DEFINE l == IF Accepts(cur[p], "investigate", "quarantined")
                    THEN AfterReconcile(cmd[p], cur[p], "quarantined") ELSE "loop"
    <3>1. Continue(p, l, "quarantined")
      BY <2>2 DEF Requarantine
    <3>2. l \notin P \ {"settle"} /\ (l = "settle" => Accepts(cur[p], "investigate", "quarantined"))
      BY <2>1
    <3>3. Accepts(cur[p], "investigate", "quarantined") => jstate'[cur[p]] = "quarantined"
      BY <2>2 DEF Requarantine, UpdateCleanup, StoreTypeOK
    <3>4. pc'[p] = l /\ (l # "loop" => UNCHANGED cur)
      BY <1>3, <3>1
    <3> HIDE DEF l
    <3> QED
      BY <3>2, <3>3, <3>4
  <2>3. CASE JournalMove(p)
    <3> DEFINE ok == Accepts(cur[p], "prepared", "quarantined")
               l  == IF pc[p] = "journalMove" THEN "loop"
                     ELSE IF ok THEN AfterReconcile(cmd[p], cur[p], "quarantined") ELSE "investigate"
    <3>1. l \notin P \ {"settle"} /\ (l = "settle" => ok)
      BY <2>1
    <3>2. pc'[p] = l /\ (l # "loop" => UNCHANGED cur)
      BY <2>3 DEF JournalMove, EndItem, LocalsTypeOK
    <3>3. ok => jstate'[cur[p]] = "quarantined"
      BY <2>3 DEF JournalMove, UpdateCleanup, StoreTypeOK
    <3> HIDE DEF l, ok
    <3> QED
      BY <3>1, <3>2, <3>3
  <2> QED
    BY <1>7, <2>2, <2>3
<1>8. CASE \/ EligibleRetry(p) \/ Prepare(p) \/ ensureManifest(p) \/ Investigate(p)
           \/ InvestigateUnwritten(p) \/ FinishRefused(p) \/ Open(p) \/ Revalidate(p)
           \/ StatSource(p) \/ RenameSource(p) \/ GitMove(p) \/ GitRun(p) \/ GitRegister(p)
           \/ Cancel(p) \/ RenameBack(p) \/ GitMoveBack(p) \/ GitRunBack(p) \/ GitEnters(p)
           \/ GitRegisterBack(p) \/ JournalRestored(p) \/ JournalDeleted(p) \/ PartialDelete(p)
           \/ Fail(p)
  <2>1. EndItem(p) \/ (\E l : l \notin P /\ Goto(p, l)) \/ (\E l, s : l \notin P /\ Continue(p, l, s))
        \/ (\E l : l \notin P /\ pc' = [pc EXCEPT ![p] = l])
    BY <1>8 DEF EligibleRetry, Prepare, ensureManifest, Investigate,
       InvestigateUnwritten, FinishRefused, Open, Revalidate,
       StatSource, RenameSource, GitMove, GitRun, GitRegister, Cancel, RenameBack, GitMoveBack,
       GitRunBack, GitEnters, GitRegisterBack, JournalRestored, JournalDeleted, PartialDelete,
       Fail
  <2>2. pc'[p] \notin P
    BY <1>1, <1>2, <1>3, <2>1 DEF LocalsTypeOK
  <2> QED
    BY <2>2
<1>9. CASE FinishRecovered(p) \/ FinishQuarantine(p) \/ FinishRecoveredFails(p)
  <2>1. \E l \in {"journalRecovered", "journalMove", "investigate"} : pc' = [pc EXCEPT ![p] = l]
    BY <1>9 DEF FinishRecovered, FinishQuarantine, FinishMove, FinishRecoveredFails
  <2> QED
    BY <2>1 DEF LocalsTypeOK
<1>10. CASE Restore(p)
  <2>1. RestoreVerdict(cur[p], mem[p]) \notin P
    BY DEF RestoreVerdict
  <2> QED
    BY <1>3, <1>10, <2>1 DEF Restore
<1>11. CASE Unreadable(p)
  <2>1. \/ Goto(p, "investigate") \/ Goto(p, "eligRetry")
        \/ pc[p] = "settle" /\ Goto(p, "eligible") /\ Quiet
    BY <1>11 DEF Unreadable, Quiet, names, machine, world, history
  <2> QED
    BY <1>2, <2>1 DEF Goto
<1>12. CASE SettleAbsent(p)
  <2> DEFINE l == CASE settleAbsent(cur[p]) = "deleted"  -> "journalDeleted"
                    [] settleAbsent(cur[p]) = "restored" -> "reconcile"
                    [] OTHER -> "eligible"
  <2>1. pc[p] = "settle" /\ Goto(p, l) /\ Quiet
    BY <1>12 DEF SettleAbsent, Quiet, names, machine, world, history
  <2>2. l \in {"journalDeleted", "reconcile", "eligible"}
        /\ (l = "journalDeleted" => cur[p] \in marker)
    BY DEF settleAbsent
  <2> HIDE DEF l
  <2> QED
    BY <1>2, <2>1, <2>2 DEF Goto
<1>13. CASE CheckEligible(p)
  <2>1. \/ Goto(p, "investigate")
        \/ pc[p] = "eligible" /\ Eligible(cur[p]) /\ Goto(p, "mark") /\ Quiet
    BY <1>13 DEF CheckEligible, Quiet, names, machine, world, history
  <2> QED
    BY <1>2, <2>1 DEF Goto
<1>14. CASE writeDeletionMarker(p)
  <2>1. \/ EndItem(p)
        \/ Goto(p, "remove") /\ Marks(p)
    BY <1>14 DEF writeDeletionMarker, Marks, names, world, history
  <2> QED
    BY <1>1, <1>2, <1>14, <2>1 DEF Goto, writeDeletionMarker
<1>15. CASE deleteAnchored(p)
  <2>1. DestinationMatches(cur[p]) => ~DestinationAbsent(cur[p])
    BY DEF DestinationMatches, identityMatches, DestinationAbsent
  <2>2. EndItem(p) \/ (pc[p] = "remove" /\ Moves(p) /\ Goto(p, "journalDeleted"))
    BY <1>15, <2>1 DEF deleteAnchored, Moves, Deletes, Empties, world
  <2> QED
    BY <1>1, <1>2, <2>2 DEF Goto
<1> QED
  BY <1>4, <1>5, <1>6, <1>7, <1>8, <1>9, <1>10, <1>11, <1>12, <1>13, <1>14, <1>15
     DEF Work, Fault

\* When the object of a receipt came, against the clock and the journal.
TookInv ==
    \A r \in Receipt :
        /\ dst[r] = NoObj => took[r] = -1
        /\ dst[r] # NoObj => took[r] <= now
        /\ dst[r] # NoObj /\ movedAt[r] # -1 => took[r] <= movedAt[r]
        /\ jstate[r] \in {"none", "prepared"} => movedAt[r] = -1

\* What a process about to delete knows.
ExpiryKnows(p) ==
    /\ pc[p] \in {"settle", "eligible", "mark", "remove"} => jstate[cur[p]] = "quarantined"
    /\ pc[p] \in {"mark", "remove"} => Expired(cur[p])
    /\ pc[p] = "remove" /\ ~DestinationAbsent(cur[p]) => cur[p] \in marker

RetentionInv == TookInv /\ \A p \in Proc : ExpiryKnows(p)

\* A receipt is journaled as moved no earlier than its object came.
LEMMA TookStep ==
    ASSUME TypeOK, NoOrphanInv, TookInv, [Next]_vars
    PROVE  TookInv'
<1> USE DEF TookInv
<1>0. /\ src \in [Source -> Obj \cup {NoObj}] /\ dst \in [Receipt -> Obj \cup {NoObj}]
      /\ took \in [Receipt -> -1..MaxTime] /\ movedAt \in [Receipt -> -1..MaxTime]
      /\ jstate \in [Receipt -> CleanupState \cup {"none"}]
      /\ now \in Int /\ \A p \in Proc : cur[p] \in Receipt /\ mem[p] \in CleanupState \cup {"none"}
      /\ \A r \in Receipt : took[r] \in Int /\ movedAt[r] \in Int
  BY LocalsOfProcess, ConstantsAssumption
     DEF TypeOK, MachineTypeOK, StoreTypeOK, HistoryTypeOK, WorldTypeOK
<1>1. CASE UNCHANGED <<names, store, now>>
  BY <1>1 DEF names, store
<1>2. CASE Tick /\ UNCHANGED <<names, store>>
  <2>1. now' = now + 1 /\ UNCHANGED <<dst, took, movedAt, jstate>>
    BY <1>2 DEF Tick, names, store
  <2> QED
    BY <1>0, <2>1
<1>3. ASSUME NEW p \in Proc, Journals(p)
      PROVE  TookInv'
  <2> DEFINE r == cur[p]
  <2>0. UNCHANGED <<dst, took, now>> /\ r \in Receipt
    BY <1>0, <1>3 DEF Journals, names
  <2>1. CASE Prepares(p)
    <3>1. jstate' = [jstate EXCEPT ![r] = "prepared"] /\ UNCHANGED movedAt /\ jstate[r] = "none"
      BY <2>1 DEF Prepares
    <3> HIDE DEF r
    <3> QED
      BY <1>0, <2>0, <3>1
  <2>2. CASE Records(p)
    <3>1. jstate' = [jstate EXCEPT ![r] = "quarantined"] /\ movedAt' = [movedAt EXCEPT ![r] = now]
      BY <2>2 DEF Records
    <3> HIDE DEF r
    <3>2. \A q \in Receipt : /\ q # r => jstate'[q] = jstate[q] /\ movedAt'[q] = movedAt[q]
                             /\ jstate'[r] = "quarantined" /\ movedAt'[r] = now
      BY <1>0, <2>0, <3>1
    <3> QED
      BY <1>0, <2>0, <3>2
  <2>3. ASSUME NEW l, NEW e, NEW s \in {"quarantined", "deleted", "restored", "investigate"},
               Writes(p, l, e, s)
        PROVE  TookInv'
    <3>1. jstate' = [jstate EXCEPT ![r] = s] /\ UNCHANGED movedAt
      BY <2>3 DEF Writes
    <3>2. s \notin {"none", "prepared"}
      BY <2>3
    <3> HIDE DEF r
    <3> QED
      BY <1>0, <2>0, <3>1, <3>2
  <2> QED
    BY <1>3, <2>1, <2>2, <2>3 DEF Journals
<1>4. ASSUME NEW p \in Proc, Moves(p)
      PROVE  TookInv'
  <2> DEFINE r == cur[p]
  <2>0. UNCHANGED <<movedAt, jstate, now>> /\ r \in Receipt
    BY <1>0, <1>4 DEF Moves, store
  <2>1. CASE Fills(p)
    <3>1. /\ dst' = [dst EXCEPT ![r] = src[PathOfReceipt(r)]] /\ src[PathOfReceipt(r)] # NoObj
          /\ took' = [took EXCEPT ![r] = now]
      BY <2>1 DEF Fills, MovedIn
    <3>2. jstate[r] = "prepared"
      BY <2>1 DEF Fills, NoOrphanInv, Knows, MemLabels, MoveLabels
    <3> HIDE DEF r
    <3>3. dst'[r] # NoObj /\ took'[r] = now /\ movedAt[r] = -1
          /\ \A q \in Receipt : q # r => dst'[q] = dst[q] /\ took'[q] = took[q]
      BY <1>0, <2>0, <3>1, <3>2
    <3> QED
      BY <1>0, <2>0, <3>3
  <2>2. CASE Returns(p) \/ Deletes(p) \/ Renames(p)
    <3>1. dst' = [dst EXCEPT ![r] = NoObj] /\ took' = [took EXCEPT ![r] = -1]
      BY <2>2 DEF Returns, Deletes, Renames, Empties, MovedBack
    <3> HIDE DEF r
    <3> QED
      BY <1>0, <2>0, <3>1
  <2> QED
    BY <1>4, <2>1, <2>2 DEF Moves
<1>5. CASE OwnerRenames /\ UNCHANGED <<store, now>>
  <2>1. ASSUME NEW r \in Receipt, ReplaceDir(r)
        PROVE  TookInv'
    <3>1. dst' = [dst EXCEPT ![r] = NoObj] /\ took' = [took EXCEPT ![r] = -1]
      BY <2>1 DEF ReplaceDir
    <3> QED
      BY <1>0, <1>5, <3>1 DEF store
  <2>2. CASE UNCHANGED <<dst, took>>
    BY <1>5, <2>2 DEF store
  <2> QED
    BY <1>5, <2>1, <2>2 DEF OwnerRenames, Create, PutBack, Remove, MoveAway
<1>6. CASE Environment
  BY <1>1, <1>2, <1>5, <1>6, OwnerEffects
<1>7. ASSUME NEW p \in Proc, Start(p) \/ Work(p) \/ Fault(p)
      PROVE  TookInv'
  <2>1. CASE Quiet \/ Checks(p) \/ Marks(p)
    BY <1>1, <2>1 DEF Quiet, Checks, Marks
  <2> QED
    BY <1>3, <1>4, <1>7, <2>1, ProcessEffects
<1>8. CASE UNCHANGED vars
  BY <1>1, <1>8 DEF vars, machine, history, names, world
<1> QED
  BY <1>6, <1>7, <1>8 DEF Next

\* What a process about to delete knows stays true while others act.
LEMMA ExpiryStep ==
    ASSUME TypeOK, NoOrphanInv, RetentionInv, [Next]_vars
    PROVE  \A p \in Proc : ExpiryKnows(p)'
<1>0. /\ \A p \in Proc : ExpiryKnows(p) /\ cur[p] \in Receipt
      /\ now \in Int /\ \A r \in Receipt : movedAt[r] \in Int
      /\ Retention \in Nat /\ dst \in [Receipt -> Obj \cup {NoObj}]
  BY LocalsOfProcess, ConstantsAssumption
     DEF RetentionInv, TypeOK, WorldTypeOK, StoreTypeOK, MachineTypeOK
<1>1. CASE UNCHANGED <<names, store, now, marker, locals>>
  BY <1>0, <1>1 DEF ExpiryKnows, names, store, locals, Expired, DestinationAbsent
<1>2. CASE Environment
  <2>1. UNCHANGED <<jstate, movedAt, pc, cur>>
    BY <1>2, OwnerEffects DEF store, locals
  <2>2. now' \in Int /\ now' >= now
    BY <1>0, <1>2, OwnerEffects DEF OwnerRenames, Tick
  <2>3. \A r \in Receipt : dst'[r] # NoObj => dst[r] # NoObj /\ (r \in marker => r \in marker')
    <3>1. ASSUME NEW q \in Receipt, ReplaceDir(q)
          PROVE  \A r \in Receipt : dst'[r] # NoObj => dst[r] # NoObj /\ (r \in marker => r \in marker')
      BY <1>0, <3>1 DEF ReplaceDir
    <3>2. CASE UNCHANGED <<dst, marker>>
      BY <3>2
    <3> QED
      BY <1>2, <3>1, <3>2, OwnerEffects DEF OwnerRenames, Create, PutBack, Remove, MoveAway, names
  <2> QED
    BY <1>0, <2>1, <2>2, <2>3 DEF ExpiryKnows, Expired, DestinationAbsent
<1>3. ASSUME NEW p \in Proc, Start(p) \/ Work(p) \/ Fault(p)
      PROVE  \A q \in Proc : ExpiryKnows(q)'
  <2>1. \A q \in Proc \ {p} : ExpiryKnows(q)'
    BY <1>3, OnlyOneActs DEF ExpiryKnows
  <2>2. pc'[p] = "settle" => ExpiryKnows(p)'
    BY <1>3, ExpiryArrivals DEF ExpiryKnows
  <2>3. pc'[p] = "eligible" => ExpiryKnows(p)'
    BY <1>0, <1>3, ExpiryArrivals DEF ExpiryKnows, Quiet, store
  <2>4. pc'[p] = "mark" => ExpiryKnows(p)'
    BY <1>0, <1>3, ExpiryArrivals DEF ExpiryKnows, Quiet, store, Eligible, Expired
  <2>5. pc'[p] = "remove" => ExpiryKnows(p)'
    BY <1>0, <1>3, ExpiryArrivals DEF ExpiryKnows, Marks, store, Expired
  <2>6. pc'[p] \notin {"settle", "eligible", "mark", "remove"} => ExpiryKnows(p)'
    BY DEF ExpiryKnows
  <2> QED
    BY <2>1, <2>2, <2>3, <2>4, <2>5, <2>6
<1>4. CASE UNCHANGED vars
  BY <1>1, <1>4 DEF vars, machine, history, names, world
<1> QED
  BY <1>2, <1>3, <1>4 DEF Next

\* The facts about time hold in every reachable state.
LEMMA RetentionKept == Spec => []RetentionInv
<1>1. Init => RetentionInv
  BY DEF Init, RetentionInv, TookInv, ExpiryKnows
<1>2. TypeOK /\ NoOrphanInv /\ RetentionInv /\ [Next]_vars => RetentionInv'
  BY TookStep, ExpiryStep DEF RetentionInv
<1>3. Init => NoOrphanInv
  BY DEF Init, NoOrphanInv, LockHeld, Knows, NoOrphan, MemLabels, MoveLabels, EmptyLabels
<1> QED
  BY <1>1, <1>2, <1>3, StepNoOrphan, TypeCorrect, PTL DEF Spec

\* The window was over when the marker was written, and nobody but the process
\* that checked it could touch the receipt since.
LEMMA DeletionFacts ==
    ASSUME TypeOK, NoOrphanInv, RetentionInv, NEW p \in Proc, Moves(p), Deletes(p)
    PROVE  /\ now >= took[cur[p]] + Retention
           /\ jstate[cur[p]] = "quarantined" /\ cur[p] \in marker
<1>1. /\ pc[p] = "remove" /\ dst[cur[p]] # NoObj /\ cur[p] \in Receipt
      /\ ExpiryKnows(p) /\ TookInv
  BY LocalsOfProcess DEF Deletes, Empties, DestinationAbsent, RetentionInv
<1>2. /\ jstate[cur[p]] = "quarantined" /\ cur[p] \in marker
      /\ movedAt[cur[p]] # -1 /\ now >= movedAt[cur[p]] + Retention
  BY <1>1 DEF ExpiryKnows, Expired, DestinationAbsent
<1>3. took[cur[p]] <= movedAt[cur[p]]
  BY <1>1, <1>2 DEF TookInv
<1>4. took[cur[p]] \in Int /\ movedAt[cur[p]] \in Int /\ now \in Int /\ Retention \in Int
  BY <1>1, ConstantsAssumption DEF TypeOK, HistoryTypeOK, StoreTypeOK, WorldTypeOK
<1> QED
  BY <1>2, <1>3, <1>4

\* No object dies in quarantine before its window is over: not by a stale
\* check, not by a receipt moved in later, not by a crash between two labels.
THEOREM WindowIsKept == Spec => RetentionHonoured
<1> DEFINE Waited == \A r \in Receipt, o \in Obj : dst[r] = o /\ ~Alive(o)' =>
                        /\ now >= took[r] + Retention
                        /\ jstate[r] = "quarantined" /\ r \in marker
<1>1. TypeOK /\ NoOrphanInv /\ RetentionInv /\ [Next]_vars => [Waited]_vars
  <2> SUFFICES ASSUME TypeOK, NoOrphanInv, RetentionInv, [Next]_vars,
                      NEW r \in Receipt, NEW o \in Obj, dst[r] = o, ~Alive(o)'
               PROVE  /\ now >= took[r] + Retention
                      /\ jstate[r] = "quarantined" /\ r \in marker
    OBVIOUS
  <2>0. /\ src \in [Source -> Obj \cup {NoObj}] /\ dst \in [Receipt -> Obj \cup {NoObj}]
        /\ \A p \in Proc : cur[p] \in Receipt /\ PathOfReceipt(cur[p]) \in Source
        /\ NoObj \notin Obj
    BY LocalsOfProcess, ConstantsAssumption DEF TypeOK, MachineTypeOK
  <2>1. dst'[r] # o
    BY DEF Alive
  <2>2. ASSUME NEW p \in Proc, Moves(p)
        PROVE  Deletes(p) /\ r = cur[p]
    <3>1. ~Fills(p)
      BY <2>0, <2>1 DEF Fills, MovedIn, DestinationAbsent
    <3>2. ~Returns(p)
      <4> SUFFICES ASSUME Returns(p) PROVE FALSE
        OBVIOUS
      <4>1. r = cur[p] /\ src'[PathOfReceipt(r)] = o
        BY <2>0, <2>1 DEF Returns, MovedBack
      <4> QED
        BY <2>0, <4>1 DEF Alive
    <3>3. ~Renames(p)
      <4> SUFFICES ASSUME Renames(p) PROVE FALSE
        OBVIOUS
      <4>1. r = cur[p] /\ o \in away'
        BY <2>0, <2>1 DEF Renames, Empties
      <4> QED
        BY <4>1 DEF Alive
    <3>4. Deletes(p) => r = cur[p]
      BY <2>0, <2>1 DEF Deletes, Empties
    <3> QED
      BY <2>2, <3>1, <3>2, <3>3, <3>4 DEF Moves
  <2>3. ~Environment
    <3>1. ~\E q \in Receipt : ReplaceDir(q)
      BY <2>0, <2>1 DEF ReplaceDir, Alive
    <3>2. UNCHANGED dst => FALSE
      BY <2>1
    <3> QED
      BY <3>1, <3>2, OwnerEffects DEF OwnerRenames, Create, PutBack, Remove, MoveAway, names
  <2>4. ASSUME NEW p \in Proc, Start(p) \/ Work(p) \/ Fault(p)
        PROVE  Moves(p)
    BY <2>1, <2>4, ProcessEffects DEF Quiet, Journals, Checks, Marks, names
  <2>5. ~UNCHANGED vars
    BY <2>1 DEF vars, machine
  <2>6. PICK p \in Proc : Moves(p)
    BY <2>3, <2>4, <2>5 DEF Next
  <2> QED
    BY <2>2, <2>6, DeletionFacts
<1>2. Spec => [][Waited]_vars
  <2>1. Init => NoOrphanInv
    BY DEF Init, NoOrphanInv, LockHeld, Knows, NoOrphan, MemLabels, MoveLabels, EmptyLabels
  <2> QED
    BY <1>1, <2>1, StepNoOrphan, RetentionKept, TypeCorrect, PTL DEF Spec
<1> QED
  BY <1>2 DEF RetentionHonoured

-----------------------------------------------------------------------------
(* The journal says deleted only of what expiry had marked.  A directory     *)
(* that is moved away takes its marker with it, so this is a statement about *)
(* machines on which nobody exchanges a receipt directory.                   *)

MarkedInv ==
    /\ DeletedWasMarked
    /\ \A p \in Proc : pc[p] \in {"remove", "journalDeleted"} => cur[p] \in marker

\* For any instance in which no receipt directory is exchanged for another:
\* absence alone is never journaled as a deletion.
THEOREM AbsenceIsNoDeletion ==
    ASSUME "replace" \notin Outside
    PROVE  Spec => []DeletedWasMarked
<1>1. Init => MarkedInv
  BY DEF Init, MarkedInv, DeletedWasMarked
<1>2. TypeOK /\ NoOrphanInv /\ MarkedInv /\ [Next]_vars => MarkedInv'
  <2> SUFFICES ASSUME TypeOK, NoOrphanInv, MarkedInv, [Next]_vars
               PROVE  MarkedInv'
    OBVIOUS
  <2>0. /\ jstate \in [Receipt -> CleanupState \cup {"none"}]
        /\ \A p \in Proc : cur[p] \in Receipt
        /\ DeletedWasMarked
        /\ \A p \in Proc : pc[p] \in {"remove", "journalDeleted"} => cur[p] \in marker
    BY LocalsOfProcess DEF TypeOK, StoreTypeOK, MarkedInv
  <2>1. CASE Environment
    <3>1. UNCHANGED <<jstate, pc, cur>>
      BY <2>1, OwnerEffects DEF store, locals
    <3>2. ~\E r \in Receipt : ReplaceDir(r)
      BY DEF ReplaceDir, Happens
    <3>3. UNCHANGED marker
      BY <2>1, <3>2, OwnerEffects DEF OwnerRenames, Create, PutBack, Remove, MoveAway
    <3> QED
      BY <2>0, <3>1, <3>3 DEF MarkedInv, DeletedWasMarked
  <2>2. ASSUME NEW p \in Proc, Start(p) \/ Work(p) \/ Fault(p)
        PROVE  MarkedInv'
    <3>1. marker \subseteq marker'
      BY <2>2, ProcessEffects DEF Quiet, Journals, Moves, Checks, Marks
    <3>2. DeletedWasMarked'
      <4>1. ASSUME NEW r \in Receipt, jstate'[r] = "deleted", jstate[r] # "deleted"
            PROVE  r \in marker
        <5>1. Journals(p)
          BY <2>2, <4>1, ProcessEffects DEF Quiet, Moves, Checks, Marks, store
        <5>2. r = cur[p] /\ pc[p] = "journalDeleted"
          BY <2>0, <4>1, <5>1 DEF Journals, Prepares, Records, Writes
        <5> QED
          BY <2>0, <5>2
      <4> QED
        BY <2>0, <3>1, <4>1 DEF DeletedWasMarked
    <3>3. pc'[p] = "remove" => cur'[p] \in marker'
      BY <2>0, <2>2, ExpiryArrivals DEF Marks
    <3>4. pc'[p] = "journalDeleted" => cur'[p] \in marker'
      BY <2>0, <2>2, <3>1, ExpiryArrivals
    <3>5. \A q \in Proc \ {p} : pc'[q] = "idle"
      BY <2>2, OnlyOneActs
    <3> QED
      BY <3>2, <3>3, <3>4, <3>5 DEF MarkedInv
  <2>3. CASE UNCHANGED vars
    BY <2>0, <2>3 DEF vars, machine, store, locals, MarkedInv, DeletedWasMarked
  <2> QED
    BY <2>1, <2>2, <2>3 DEF Next
<1>3. MarkedInv => DeletedWasMarked
  BY DEF MarkedInv
<1>4. Init => NoOrphanInv
  BY DEF Init, NoOrphanInv, LockHeld, Knows, NoOrphan, MemLabels, MoveLabels, EmptyLabels
<1> QED
  BY <1>1, <1>2, <1>3, <1>4, StepNoOrphan, TypeCorrect, PTL DEF Spec

-----------------------------------------------------------------------------
(* The engine implements the custody promise of Custody.tla: each effect is  *)
(* one operation of a custodian, or a step its client cannot see.            *)

living == {o \in Obj : Alive(o)}

CustodyInv == TypeOK /\ NoOrphanInv /\ OneName /\ RetentionInv

\* A journal write opens a receipt, closes an empty one, or changes nothing
\* the owner of the object can tell.
LEMMA JournalIsCustody ==
    ASSUME CustodyInv, NEW p \in Proc, Journals(p)
    PROVE  C!Next \/ UNCHANGED C!custody
<1> DEFINE r == cur[p]
<1>0. /\ r \in Receipt /\ Knows(p) /\ NoOrphan
      /\ jstate \in [Receipt -> CleanupState \cup {"none"}]
      /\ dst \in [Receipt -> Obj \cup {NoObj}]
      /\ UNCHANGED <<src, dst, away, took, now>>
  BY LocalsOfProcess DEF CustodyInv, TypeOK, StoreTypeOK, MachineTypeOK, NoOrphanInv, Journals, names
<1>1. UNCHANGED <<dst, took, living, now>>
  BY <1>0 DEF living, Alive
<1> HIDE DEF r
<1> USE DEF Active
<1>2. CASE Prepares(p)
  <2>1. /\ jstate[r] = "none" /\ jstate' = [jstate EXCEPT ![r] = "prepared"]
        /\ \A q \in Receipt : jstate[q] \in Active => PathOfReceipt(q) # PathOfReceipt(r)
    BY <1>2 DEF Prepares, Claimed, ActiveRows, r
  <2>2. dst[r] = NoObj
    BY <1>0, <2>1 DEF NoOrphan
  <2>3. custodyStatus' = [custodyStatus EXCEPT ![r] = "open"] /\ custodyStatus[r] = "new"
    BY <1>0, <2>1 DEF custodyStatus
  <2>4. \A q \in Receipt : custodyStatus[q] = "open" => PathOfReceipt(q) # PathOfReceipt(r)
    BY <1>0, <2>1 DEF custodyStatus
  <2>5. C!Open(r)
    BY <1>0, <1>1, <2>2, <2>3, <2>4 DEF C!Open, living
  <2> QED
    BY <1>0, <2>5 DEF C!Next
<1>3. ASSUME NEW e \in Active, NEW s \in {"restored", "deleted"}, DestinationAbsent(r),
             jstate[r] = e, jstate' = [jstate EXCEPT ![r] = s]
      PROVE  C!Next
  <2>1. custodyStatus' = [custodyStatus EXCEPT ![r] = "closed"] /\ custodyStatus[r] = "open"
    BY <1>0, <1>3 DEF custodyStatus
  <2>2. C!Close(r)
    BY <1>0, <1>1, <1>3, <2>1 DEF C!Close, DestinationAbsent, living
  <2> QED
    BY <1>0, <2>2 DEF C!Next
<1>4. ASSUME NEW e \in Active, NEW s \in Active,
             jstate[r] = e, jstate' = [jstate EXCEPT ![r] = s]
      PROVE  UNCHANGED C!custody
  <2>1. UNCHANGED custodyStatus
    BY <1>0, <1>4 DEF custodyStatus
  <2> QED
    BY <1>1, <2>1 DEF C!custody, living
<1>5. CASE Records(p)
  BY <1>4, <1>5 DEF Records, r
<1>6. ASSUME NEW l, NEW e, NEW s \in {"quarantined", "investigate"}, Writes(p, l, e, s)
      PROVE  UNCHANGED C!custody
  BY <1>4, <1>6 DEF Writes, CanTransitionTo, r
<1>7. ASSUME NEW l \in EmptyLabels, NEW e, NEW s \in {"restored", "deleted"}, Writes(p, l, e, s)
      PROVE  C!Next
  <2>1. DestinationAbsent(r) /\ e \in Active
    BY <1>0, <1>7 DEF Writes, CanTransitionTo, Knows, r
  <2> QED
    BY <1>3, <1>7, <2>1 DEF Writes, r
<1> QED
  BY <1>2, <1>5, <1>6, <1>7 DEF Journals, EmptyLabels

\* A rename takes an object into custody or releases it; a deletion destroys it.
LEMMA MoveIsCustody ==
    ASSUME CustodyInv, NEW p \in Proc, Moves(p)
    PROVE  C!Next
<1> DEFINE r == cur[p]
           s == PathOfReceipt(cur[p])
<1>0. /\ src \in [Source -> Obj \cup {NoObj}] /\ dst \in [Receipt -> Obj \cup {NoObj}]
      /\ NoObj \notin Obj /\ r \in Receipt /\ s \in Source
      /\ took \in [Receipt -> -1..MaxTime] /\ OneName /\ TypeOK /\ NoOrphanInv
      /\ RetentionInv
  BY LocalsOfProcess, ConstantsAssumption
     DEF CustodyInv, TypeOK, MachineTypeOK, HistoryTypeOK
<1>1. UNCHANGED <<custodyStatus, now>>
  BY DEF Moves, custodyStatus, store
<1>2. CASE Fills(p)
  <2>1. /\ src[s] \in Obj /\ dst[r] = NoObj
        /\ dst' = [dst EXCEPT ![r] = src[s]] /\ src' = [src EXCEPT ![s] = NoObj]
        /\ took' = [took EXCEPT ![r] = now] /\ UNCHANGED away
    BY <1>0, <1>2 DEF Fills, DestinationAbsent, MovedIn
  <2>2. custodyStatus[r] = "open"
    BY <1>0, <1>2 DEF Fills, NoOrphanInv, Knows, MemLabels, MoveLabels, custodyStatus, Active
  <2> HIDE DEF r, s
  <2>3. UNCHANGED living
    BY <1>0, <1>1, <2>1 DEF living, Alive
  <2>4. src[s] \in living \ C!Held
    BY <1>0, <2>1 DEF living, Alive, C!Held, OneName
  <2>5. C!Take(r, src[s])
    BY <1>0, <1>1, <2>1, <2>2, <2>3, <2>4 DEF C!Take, C!Held, living
  <2> QED
    BY <1>0, <2>1, <2>5 DEF C!Next
<1>3. CASE Returns(p)
  <2>1. /\ dst[r] \in Obj
        /\ dst' = [dst EXCEPT ![r] = NoObj] /\ src' = [src EXCEPT ![s] = dst[r]]
        /\ took' = [took EXCEPT ![r] = -1] /\ UNCHANGED away
    BY <1>0, <1>3 DEF Returns, DestinationAbsent, MovedBack
  <2> HIDE DEF r, s
  <2>2. living' = living \ ({src[s]} \ {NoObj})
    BY <1>0, <1>1, <2>1 DEF living, Alive, OneName
  <2>3. src[s] \in Obj => src[s] \notin C!Held
    BY <1>0 DEF OneName, C!Held
  <2>4. living' = living \/ \E o \in Obj \ C!Held : living' = living \ {o}
    BY <1>0, <2>2, <2>3
  <2>5. C!Release(r)
    BY <1>0, <1>1, <2>1, <2>4 DEF C!Release, living
  <2> QED
    BY <1>0, <2>5 DEF C!Next
<1>5. CASE Renames(p)
  <2>1. /\ dst[r] \in Obj /\ dst' = [dst EXCEPT ![r] = NoObj] /\ UNCHANGED src
        /\ took' = [took EXCEPT ![r] = -1] /\ away' = away \cup {dst[r]}
    BY <1>0, <1>5 DEF Renames, Empties, DestinationAbsent
  <2> HIDE DEF r, s
  <2>2. UNCHANGED living
    BY <1>0, <2>1 DEF living, Alive
  <2>3. C!Release(r)
    BY <1>0, <1>1, <2>1, <2>2 DEF C!Release, living
  <2> QED
    BY <1>0, <2>3 DEF C!Next
<1>4. CASE Deletes(p)
  <2>1. /\ dst[r] \in Obj /\ dst' = [dst EXCEPT ![r] = NoObj] /\ UNCHANGED <<src, away>>
        /\ took' = [took EXCEPT ![r] = -1]
    BY <1>0, <1>4 DEF Deletes, Empties, DestinationAbsent
  <2>2. now >= took[r] + Retention /\ custodyStatus[r] = "open"
    BY <1>0, <1>4, DeletionFacts DEF custodyStatus, Active
  <2> HIDE DEF r, s
  <2>3. living' = living \ {dst[r]}
    BY <1>0, <1>1, <2>1 DEF living, Alive, OneName
  <2>4. C!Destroy(r)
    BY <1>0, <1>1, <2>1, <2>2, <2>3 DEF C!Destroy, living
  <2> QED
    BY <1>0, <2>4 DEF C!Next
<1> QED
  BY <1>2, <1>3, <1>4, <1>5 DEF Moves

\* What the owner does outside the quarantine is the owner's, and a directory
\* taken out of it is a release.
LEMMA OwnerIsCustody ==
    ASSUME CustodyInv, OwnerRenames, UNCHANGED <<store, now>>
    PROVE  C!Next \/ UNCHANGED C!custody
<1>0. /\ src \in [Source -> Obj \cup {NoObj}] /\ dst \in [Receipt -> Obj \cup {NoObj}]
      /\ NoObj \notin Obj /\ OneName /\ TookInv /\ took \in [Receipt -> -1..MaxTime]
  BY ConstantsAssumption DEF CustodyInv, TypeOK, MachineTypeOK, HistoryTypeOK, RetentionInv
<1>1. UNCHANGED custodyStatus
  BY DEF custodyStatus, store
<1>2. ASSUME NEW s \in Source, NEW o \in Obj, Create(s, o)
      PROVE  C!Next
  <2>1. src[s] = NoObj /\ src' = [src EXCEPT ![s] = o] /\ UNCHANGED <<dst, away, took>>
    BY <1>2 DEF Create
  <2>2. living' = living \cup {o}
    BY <1>0, <1>2, <2>1 DEF living, Alive
  <2> QED
    BY <1>1, <2>1, <2>2 DEF C!Next, C!Own, living
<1>3. ASSUME NEW s \in Source, Remove(s)
      PROVE  C!Next
  <2>1. src[s] \in Obj /\ src' = [src EXCEPT ![s] = NoObj] /\ UNCHANGED <<dst, away, took>>
    BY <1>0, <1>3 DEF Remove
  <2>2. living' = living \ {src[s]} /\ src[s] \notin C!Held
    BY <1>0, <2>1 DEF living, Alive, OneName, C!Held
  <2> QED
    BY <1>1, <2>1, <2>2 DEF C!Next, C!Own, C!Held, living
<1>4. ASSUME NEW s \in Source, MoveAway(s)
      PROVE  UNCHANGED C!custody
  <2>1. src[s] # NoObj /\ src' = [src EXCEPT ![s] = NoObj] /\ away' = away \cup {src[s]}
        /\ UNCHANGED <<dst, took>>
    BY <1>4 DEF MoveAway
  <2>2. UNCHANGED living
    BY <1>0, <2>1 DEF living, Alive
  <2> QED
    BY <1>1, <2>1, <2>2 DEF C!custody, living
<1>5. ASSUME NEW s \in Source, NEW o \in Obj, PutBack(s, o)
      PROVE  UNCHANGED C!custody
  <2>1. src[s] = NoObj /\ src' = [src EXCEPT ![s] = o] /\ o \in away /\ away' = away \ {o}
        /\ UNCHANGED <<dst, took>>
    BY <1>5 DEF PutBack
  <2>2. UNCHANGED living
    BY <1>0, <2>1 DEF living, Alive
  <2> QED
    BY <1>1, <2>1, <2>2 DEF C!custody, living
<1>6. ASSUME NEW r \in Receipt, ReplaceDir(r)
      PROVE  C!Next \/ UNCHANGED C!custody
  <2>1. /\ dst' = [dst EXCEPT ![r] = NoObj] /\ took' = [took EXCEPT ![r] = -1]
        /\ away' = away \cup ({dst[r]} \ {NoObj}) /\ UNCHANGED src
    BY <1>6 DEF ReplaceDir
  <2>2. UNCHANGED living
    BY <1>0, <2>1 DEF living, Alive
  <2>3. CASE dst[r] # NoObj
    BY <1>1, <2>1, <2>2, <2>3 DEF C!Next, C!Release, living
  <2>4. CASE dst[r] = NoObj
    <3>1. took[r] = -1
      BY <1>0, <2>4 DEF TookInv
    <3>2. UNCHANGED <<dst, took>>
      BY <1>0, <2>1, <2>4, <3>1
    <3> QED
      BY <1>1, <2>2, <3>2 DEF C!custody, living
  <2> QED
    BY <2>3, <2>4
<1> QED
  BY <1>2, <1>3, <1>4, <1>5, <1>6 DEF OwnerRenames

\* The whole engine, with its crashes, failed writes and outside events, keeps
\* the promise of a custodian: it opens no two receipts for one path, closes
\* none that holds something, and destroys nothing before its time.
THEOREM EngineImplementsCustody == Spec => ImplementsCustody
<1>1. Init => C!Init
  <2> SUFFICES ASSUME Init PROVE C!Init
    OBVIOUS
  <2>1. living = {}
    BY ConstantsAssumption DEF Init, living, Alive
  <2>2. custodyStatus = [r \in Receipt |-> "new"]
    BY DEF Init, custodyStatus
  <2> QED
    BY <2>1, <2>2 DEF Init, C!Init, living
<1>2. CustodyInv /\ [Next]_vars => [C!Next]_(C!custody)
  <2> SUFFICES ASSUME CustodyInv, [Next]_vars
               PROVE  C!Next \/ UNCHANGED C!custody
    OBVIOUS
  <2>1. CASE UNCHANGED <<names, store, now>>
    BY <2>1 DEF names, store, C!custody, custodyStatus, Alive
  <2>2. CASE Tick /\ UNCHANGED <<names, store>>
    BY <2>2 DEF names, store, C!Next, C!Pass, custodyStatus, Alive, Tick
  <2>3. CASE OwnerRenames /\ UNCHANGED <<store, now>>
    BY <2>3, OwnerIsCustody
  <2>4. CASE Environment
    BY <2>1, <2>2, <2>3, <2>4, OwnerEffects
  <2>5. ASSUME NEW p \in Proc, Start(p) \/ Work(p) \/ Fault(p)
        PROVE  C!Next \/ UNCHANGED C!custody
    <3>1. CASE Quiet \/ Checks(p) \/ Marks(p)
      BY <2>1, <3>1 DEF Quiet, Checks, Marks
    <3>2. TypeOK
      BY DEF CustodyInv
    <3> QED
      BY <2>5, <3>1, <3>2, ProcessEffects, JournalIsCustody, MoveIsCustody
  <2>6. CASE UNCHANGED vars
    BY <2>1, <2>6 DEF vars, machine, world, history, names
  <2> QED
    BY <2>4, <2>5, <2>6 DEF Next
<1>3. Spec => []CustodyInv
  <2>1. Init => OneName /\ NoOrphanInv
    BY ConstantsAssumption DEF Init, OneName, Alive, NoOrphanInv, LockHeld, Knows, NoOrphan,
       MemLabels, MoveLabels, EmptyLabels
  <2>2. TypeOK /\ OneName /\ [Next]_vars => OneName'
    BY OneNameStep
  <2>3. CustodyInv <=> TypeOK /\ NoOrphanInv /\ OneName /\ RetentionInv
    BY DEF CustodyInv
  <2> QED
    BY <2>1, <2>2, <2>3, StepNoOrphan, RetentionKept, TypeCorrect, PTL DEF Spec
<1> QED
  BY <1>1, <1>2, <1>3, PTL DEF Spec, ImplementsCustody, C!Spec

\* The contract keeps what an owner may expect of it, whoever implements it.
LEMMA ContractStep ==
    ASSUME C!Custodian, C!CustodyTypeOK, [C!Next]_(C!custody)
    PROVE  C!Custodian' /\ C!CustodyTypeOK'
<1> USE DEF C!CustodyTypeOK, C!Custodian, C!OneClaim, C!OneCustodian, C!HeldExists, C!ClosedIsEmpty
<1>1. ASSUME NEW r \in Receipt, C!Open(r) PROVE C!Custodian' /\ C!CustodyTypeOK'
  BY <1>1 DEF C!Open
<1>2. ASSUME NEW r \in Receipt, C!Close(r) PROVE C!Custodian' /\ C!CustodyTypeOK'
  BY <1>2 DEF C!Close
<1>3. ASSUME NEW r \in Receipt, C!Release(r) PROVE C!Custodian' /\ C!CustodyTypeOK'
  BY <1>3 DEF C!Release, C!Held
<1>4. ASSUME NEW r \in Receipt, C!Destroy(r) PROVE C!Custodian' /\ C!CustodyTypeOK'
  BY <1>4 DEF C!Destroy
<1>5. ASSUME NEW r \in Receipt, NEW o \in Obj, C!Take(r, o) PROVE C!Custodian' /\ C!CustodyTypeOK'
  BY <1>5 DEF C!Take, C!Held
<1>6. ASSUME C!Own PROVE C!Custodian' /\ C!CustodyTypeOK'
  BY <1>6 DEF C!Own, C!Held
<1>7. ASSUME C!Pass PROVE C!Custodian' /\ C!CustodyTypeOK'
  BY <1>7 DEF C!Pass
<1>8. ASSUME UNCHANGED C!custody PROVE C!Custodian' /\ C!CustodyTypeOK'
  BY <1>8 DEF C!custody
<1> QED
  BY <1>1, <1>2, <1>3, <1>4, <1>5, <1>6, <1>7, <1>8 DEF C!Next

\* What a step of the contract may never do to an object in custody.
Outlives ==
    /\ \A r \in Receipt : dst[r] # NoObj /\ dst[r] \notin living'
         => custodyStatus[r] = "open" /\ now >= took[r] + Retention
    /\ \A r \in Receipt : dst[r] # NoObj /\ dst'[r] = dst[r] => took'[r] = took[r]
    /\ \A r \in Receipt : custodyStatus[r] = "closed" => custodyStatus'[r] = "closed"

\* No step of the contract does.
LEMMA ContractOutlives ==
    ASSUME C!Custodian, C!CustodyTypeOK, [C!Next]_(C!custody)
    PROVE  Outlives
<1> USE DEF C!CustodyTypeOK, C!Custodian, C!OneCustodian, C!HeldExists
<1>1. ASSUME NEW r \in Receipt, C!Open(r) PROVE Outlives
  BY <1>1 DEF C!Open, Outlives, living
<1>2. ASSUME NEW r \in Receipt, C!Close(r) PROVE Outlives
  BY <1>2 DEF C!Close, Outlives, living
<1>3. ASSUME NEW r \in Receipt, C!Release(r) PROVE Outlives
  BY <1>3 DEF C!Release, C!Held, Outlives, living
<1>4. ASSUME NEW r \in Receipt, C!Destroy(r) PROVE Outlives
  BY <1>4 DEF C!Destroy, Outlives, living
<1>5. ASSUME NEW r \in Receipt, NEW o \in Obj, C!Take(r, o) PROVE Outlives
  BY <1>5 DEF C!Take, Outlives, living
<1>6. ASSUME C!Own PROVE Outlives
  BY <1>6 DEF C!Own, C!Held, Outlives, living
<1>7. ASSUME C!Pass PROVE Outlives
  BY <1>7 DEF C!Pass, Outlives, living
<1>8. ASSUME UNCHANGED C!custody PROVE Outlives
  BY <1>8 DEF C!custody, Outlives, living
<1> QED
  BY <1>1, <1>2, <1>3, <1>4, <1>5, <1>6, <1>7, <1>8 DEF C!Next

\* Through every crash, failed write and outside event: no two open receipts
\* claim one path, no object is in two of them, what a receipt holds exists,
\* and a receipt that is finished has forgotten nothing in quarantine.
THEOREM EngineIsCustodian == Spec => []C!Custodian
<1>1. C!Init => C!Custodian /\ C!CustodyTypeOK
  BY ConstantsAssumption DEF C!Init, C!CustodyTypeOK, C!Custodian, C!OneClaim, C!OneCustodian,
     C!HeldExists, C!ClosedIsEmpty
<1>2. C!Custodian /\ C!CustodyTypeOK /\ [C!Next]_(C!custody) => C!Custodian' /\ C!CustodyTypeOK'
  BY ContractStep
<1> QED
  BY <1>1, <1>2, EngineImplementsCustody, PTL DEF ImplementsCustody, C!Spec

\* An object in quarantine ceases to exist only when its receipt, still open,
\* has had it for the retention window, and no step begins that window anew:
\* neither a second collection nor a recovery of the receipt after a crash.
THEOREM EngineOutlivesWindow == Spec => C!OutlivesWindow
<1>1. C!Init => C!Custodian /\ C!CustodyTypeOK
  BY ConstantsAssumption DEF C!Init, C!CustodyTypeOK, C!Custodian, C!OneClaim, C!OneCustodian,
     C!HeldExists, C!ClosedIsEmpty
<1>2. C!Custodian /\ C!CustodyTypeOK /\ [C!Next]_(C!custody) => C!Custodian' /\ C!CustodyTypeOK'
  BY ContractStep
<1>3. C!Custodian /\ C!CustodyTypeOK /\ [C!Next]_(C!custody) => [Outlives]_(C!custody)
  BY ContractOutlives
<1> QED
  BY <1>1, <1>2, <1>3, EngineImplementsCustody, PTL
  DEF ImplementsCustody, C!Spec, C!OutlivesWindow, Outlives, living

-----------------------------------------------------------------------------
(* What is quarantined is what was checked.  The rename moves whatever the   *)
(* path holds by then; only the handle, which keeps an inode number from     *)
(* being given to another object, makes the comparison after it conclusive.  *)

InUse(o) == Alive(o) \/ \E p \in Proc : handle[p] = o

HandleKnows(p) ==
    /\ pc[p] = "prepare" => PlannedObj(cur[p]) # NoObj
    /\ pc[p] = "revalidate" => handle[p] \in Obj
    /\ pc[p] \in {"stat", "rename", "gitMove", "gitRun"} =>
         /\ handle[p] \in Obj /\ handle[p] = checked[cur[p]]
         /\ PlannedObj(cur[p]) # NoObj /\ Ino[handle[p]] = Ino[PlannedObj(cur[p])]
    /\ pc[p] \in {"journalMove", "journalRecovered", "requarantine"} =>
         DestinationAbsent(cur[p]) \/ DestinationMatches(cur[p])

CheckedInv ==
    /\ \A o, q \in Obj : InUse(o) /\ InUse(q) /\ Ino[o] = Ino[q] => o = q
    /\ \A r \in Receipt : jstate[r] # "none" => PlannedObj(r) # NoObj
    /\ \A p \in Proc : cmd[p] = "quarantine" => \A r \in todo[p] : PlannedObj(r) # NoObj
    /\ \A r \in Receipt : DestinationMatches(r) => dst[r] = checked[r]
    /\ \A r \in Receipt : jstate[r] = "quarantined" => DestinationAbsent(r) \/ DestinationMatches(r)
    /\ \A p \in Proc : HandleKnows(p)

\* A process step brings no object to life.
LEMMA NoneIsBorn ==
    ASSUME TypeOK, NEW p \in Proc, Start(p) \/ Work(p) \/ Fault(p), NEW o \in Obj, Alive(o)'
    PROVE  Alive(o)
<1>0. /\ src \in [Source -> Obj \cup {NoObj}] /\ dst \in [Receipt -> Obj \cup {NoObj}]
      /\ NoObj \notin Obj /\ cur[p] \in Receipt /\ PathOfReceipt(cur[p]) \in Source
  BY LocalsOfProcess, ConstantsAssumption DEF TypeOK, MachineTypeOK
<1>1. CASE UNCHANGED names
  BY <1>1 DEF names, Alive
<1>2. CASE Moves(p)
  <2>1. CASE Fills(p)
    BY <1>0, <1>2, <2>1 DEF Moves, Fills, MovedIn, Alive
  <2>2. CASE Returns(p)
    BY <1>0, <1>2, <2>2 DEF Moves, Returns, MovedBack, Alive
  <2>3. CASE Deletes(p) \/ Renames(p)
    BY <1>0, <1>2, <2>3 DEF Moves, Deletes, Renames, Empties, Alive
  <2> QED
    BY <1>2, <2>1, <2>2, <2>3 DEF Moves
<1> QED
  BY <1>1, <1>2, ProcessEffects DEF Quiet, Journals, Checks, Marks

\* How a process comes to a label from which it may quarantine, what it then
\* holds open, and what a command still has to visit.
LEMMA QuarantineArrivals ==
    ASSUME TypeOK, NEW p \in Proc, Start(p) \/ Work(p) \/ Fault(p)
    PROVE  /\ pc'[p] = "prepare" => cmd[p] = "quarantine" /\ cur'[p] \in todo[p]
           /\ pc'[p] = "revalidate" => handle'[p] \in Obj
           /\ pc'[p] \in {"stat", "gitMove"} => Checks(p) /\ UNCHANGED <<cur, handle>>
           /\ pc'[p] \in {"rename", "gitRun"} =>
                pc[p] \in {"stat", "gitMove"} /\ Quiet /\ UNCHANGED <<cur, handle>>
           /\ pc'[p] \in {"journalMove", "journalRecovered", "requarantine"} =>
                /\ Quiet /\ UNCHANGED cur
                /\ DestinationAbsent(cur[p]) \/ DestinationMatches(cur[p])
           /\ handle'[p] \in {handle[p], NoObj} \/ Alive(handle'[p])
           /\ cmd'[p] = "quarantine" =>
                todo'[p] \subseteq Batch \X Planned \/ (cmd[p] = "quarantine" /\ todo'[p] \subseteq todo[p])
           /\ \A q \in Proc \ {p} : handle'[q] = handle[q] /\ cmd'[q] = cmd[q] /\ todo'[q] = todo[q]
<1> DEFINE P == {"prepare", "revalidate", "stat", "gitMove", "rename", "gitRun", "journalMove",
                 "journalRecovered", "requarantine"}
           G == /\ handle'[p] \in {handle[p], NoObj}
                /\ cmd'[p] = "quarantine" => cmd[p] = "quarantine" /\ todo'[p] \subseteq todo[p]
                /\ \A q \in Proc \ {p} : handle'[q] = handle[q] /\ cmd'[q] = cmd[q] /\ todo'[q] = todo[q]
<1>0. LocalsTypeOK /\ MachineTypeOK
  BY DEF TypeOK
<1> USE <1>0 DEF At
<1>1. EndItem(p) => pc'[p] \notin P /\ G
  BY DEF EndItem, LocalsTypeOK
<1>2. \A l : Goto(p, l) => pc'[p] = l /\ UNCHANGED <<cur, handle>> /\ G
  BY DEF Goto, LocalsTypeOK
<1>3. \A l, s : Continue(p, l, s) => pc'[p] = l /\ G /\ (l # "loop" => UNCHANGED <<cur, handle>>)
  <2> SUFFICES ASSUME NEW l, NEW s, Continue(p, l, s)
               PROVE  pc'[p] = l /\ G /\ (l # "loop" => UNCHANGED <<cur, handle>>)
    OBVIOUS
  <2>1. CASE l = "loop"
    BY <1>1, <2>1 DEF Continue, EndItem, LocalsTypeOK
  <2>2. CASE l # "loop"
    BY <2>2 DEF Continue, LocalsTypeOK
  <2> QED
    BY <2>1, <2>2
<1>4. CASE Start(p)
  <2>1. PICK c, rs : Begin(p, c, rs) /\ (c = "quarantine" => rs \subseteq Batch \X Planned)
    <3>1. CASE StartQuarantine(p)
      <4>1. PICK b \in Batch, selected \in SUBSET Planned :
                 Begin(p, "quarantine", {<<b, a>> : a \in selected})
        BY <3>1 DEF StartQuarantine
      <4>2. {<<b, a>> : a \in selected} \subseteq Batch \X Planned
        OBVIOUS
      <4> QED
        BY <4>1, <4>2
    <3>2. CASE StartExpire(p)
      BY <3>2 DEF StartExpire
    <3>3. ASSUME NEW b \in Batch, StartRestore(p, b)
          PROVE  \E rs : Begin(p, "restore", rs)
      BY <3>3 DEF StartRestore
    <3> QED
      BY <1>4, <3>1, <3>2, <3>3 DEF Start
  <2> QED
    BY <2>1 DEF Begin, LocalsTypeOK
<1>5. CASE Finish(p) \/ Crash(p)
  BY <1>5 DEF Finish, Crash, LocalsTypeOK
<1>6. CASE Pick(p)
  <2>1. PICK r \in todo[p] :
          /\ pc' = [pc EXCEPT ![p] = FirstStep(cmd[p], r)]
          /\ todo' = [todo EXCEPT ![p] = @ \ {r}]
          /\ cur' = [cur EXCEPT ![p] = IF FirstStep(cmd[p], r) = "loop" THEN NilReceipt ELSE r]
    BY <1>6 DEF Pick
  <2>2. /\ FirstStep(cmd[p], r) \in {"loop", "prepare", "reconcile", "settle"}
        /\ FirstStep(cmd[p], r) = "prepare" => cmd[p] = "quarantine"
    BY DEF FirstStep
  <2>3. UNCHANGED <<cmd, handle>>
    BY <1>6 DEF Pick
  <2> QED
    BY <2>1, <2>2, <2>3 DEF LocalsTypeOK
<1>7. CASE Reconcile(p)
  <2> DEFINE l == Verdict(cmd[p], cur[p], mem[p])
  <2>1. Continue(p, l, mem[p]) /\ Quiet
    BY <1>7 DEF Reconcile, Quiet, names, machine, world, history
  <2>2. l \notin P \ {"requarantine"} /\ (l = "requarantine" => DestinationAbsent(cur[p]))
    <3>1. \A s : AfterReconcile(cmd[p], cur[p], s) \notin P
      BY DEF AfterReconcile
    <3> QED
      BY <3>1 DEF Verdict, settleAbsent
  <2> HIDE DEF l
  <2> QED
    BY <1>3, <2>1, <2>2
<1>8. CASE EligibleRetry(p)
  <2>1. \/ Goto(p, "requarantine") /\ Quiet /\ DestinationMatches(cur[p])
        \/ Continue(p, "restore", "investigate") \/ Continue(p, "loop", "investigate")
    BY <1>8 DEF EligibleRetry, Eligible, Quiet, names, machine, world, history
  <2> QED
    BY <1>2, <1>3, <2>1
<1>9. CASE Requarantine(p)
  <2>1. \A s : AfterReconcile(cmd[p], cur[p], s) \notin P
    BY DEF AfterReconcile
  <2>2. PICK l : Continue(p, l, "quarantined") /\ l \notin P
    BY <1>9, <2>1 DEF Requarantine
  <2> QED
    BY <1>3, <2>2
<1>10. CASE JournalMove(p)
  <2>1. \A s : AfterReconcile(cmd[p], cur[p], s) \notin P
    BY DEF AfterReconcile
  <2>2. \/ EndItem(p)
        \/ /\ \E l : l \notin P /\ pc' = [pc EXCEPT ![p] = l]
           /\ UNCHANGED <<cmd, todo, cur, handle>>
    BY <1>10, <2>1 DEF JournalMove
  <2> QED
    BY <1>1, <2>2 DEF LocalsTypeOK
<1>11. CASE \/ Prepare(p) \/ ensureManifest(p) \/ Investigate(p)
            \/ InvestigateUnwritten(p) \/ FinishRefused(p) \/ GitRegister(p) \/ Cancel(p)
            \/ RenameBack(p) \/ GitMoveBack(p) \/ GitRunBack(p) \/ GitEnters(p)
            \/ GitRegisterBack(p) \/ JournalRestored(p) \/ JournalDeleted(p) \/ PartialDelete(p)
            \/ Fail(p) \/ RenameSource(p) \/ GitRun(p)
            \/ Unreadable(p) \/ CheckEligible(p) \/ writeDeletionMarker(p) \/ deleteAnchored(p)
  <2>1. EndItem(p) \/ (\E l : l \notin P /\ Goto(p, l)) \/ (\E l, s : l \notin P /\ Continue(p, l, s))
    BY <1>11 DEF Prepare, ensureManifest, Investigate,
       InvestigateUnwritten, FinishRefused, GitRegister, Cancel, RenameBack, GitMoveBack,
       GitRunBack, GitEnters, GitRegisterBack, JournalRestored, JournalDeleted, PartialDelete,
       Fail, RenameSource, GitRun, Unreadable, CheckEligible, writeDeletionMarker, deleteAnchored
  <2> QED
    BY <1>1, <1>2, <1>3, <2>1
<1>12. CASE SettleAbsent(p)
  <2> DEFINE l == CASE settleAbsent(cur[p]) = "deleted"  -> "journalDeleted"
                    [] settleAbsent(cur[p]) = "restored" -> "reconcile"
                    [] OTHER -> "eligible"
  <2>1. Goto(p, l) /\ l \notin P
    BY <1>12 DEF SettleAbsent
  <2> HIDE DEF l
  <2> QED
    BY <1>2, <2>1
<1>13. CASE FinishRecovered(p) \/ FinishQuarantine(p)
  <2>1. /\ DestinationMatches(cur[p]) /\ Quiet /\ UNCHANGED <<cmd, todo, cur, handle>>
        /\ \E l \in {"journalRecovered", "journalMove"} : pc' = [pc EXCEPT ![p] = l]
    BY <1>13 DEF FinishRecovered, FinishQuarantine, FinishMove, Observed, Quiet, names, machine,
       world, history
  <2> QED
    BY <2>1 DEF LocalsTypeOK
<1>14. CASE FinishRecoveredFails(p)
  BY <1>14 DEF FinishRecoveredFails, LocalsTypeOK
<1>15. CASE Open(p)
  <2>1. CASE SourceAbsent(cur[p])
    BY <1>1, <1>15, <2>1 DEF Open
  <2>2. CASE ~SourceAbsent(cur[p])
    <3>1. /\ handle' = [handle EXCEPT ![p] = src[PathOfReceipt(cur[p])]]
          /\ pc' = [pc EXCEPT ![p] = "revalidate"] /\ UNCHANGED <<cmd, todo, cur>>
          /\ src[PathOfReceipt(cur[p])] \in Obj /\ PathOfReceipt(cur[p]) \in Source
      BY <1>15, <2>2, LocalsOfProcess DEF Open, SourceAbsent, MachineTypeOK
    <3> QED
      BY <3>1 DEF LocalsTypeOK, Alive
  <2> QED
    BY <2>1, <2>2
<1>16. CASE Revalidate(p)
  <2>1. \/ EndItem(p)
        \/ \E l \in {"stat", "gitMove"} : Goto(p, l) /\ Checks(p)
    BY <1>16 DEF Revalidate, Checks, names, machine, world
  <2> QED
    BY <1>1, <1>2, <2>1
<1>17. CASE StatSource(p) \/ GitMove(p)
  <2>1. \/ EndItem(p)
        \/ \E l \in {"rename", "gitRun"} : Goto(p, l) /\ pc[p] \in {"stat", "gitMove"} /\ Quiet
    BY <1>17 DEF StatSource, GitMove, Quiet, names, machine, world, history
  <2> QED
    BY <1>1, <1>2, <2>1
<1>18. CASE Restore(p)
  <2>1. RestoreVerdict(cur[p], mem[p]) \notin P
    BY DEF RestoreVerdict
  <2> QED
    BY <1>3, <1>18, <2>1 DEF Restore
<1> QED
  BY <1>4, <1>5, <1>6, <1>7, <1>8, <1>9, <1>10, <1>11, <1>12, <1>13, <1>14, <1>15, <1>16,
     <1>17, <1>18 DEF Work, Fault

\* The owner gives no number in use to a new object, and a plan stands once built.
LEMMA OwnerKeepsIdentity ==
    ASSUME TypeOK, Environment
    PROVE  /\ \A o \in Obj : Alive(o)' =>
                  Alive(o) \/ \A q \in Obj : InUse(q) => Ino[q] # Ino[o]
           /\ \A o, q \in Obj : Alive(o)' /\ ~Alive(o) /\ Alive(q)' /\ ~Alive(q) => o = q
           /\ \A a \in Action : planObj[a] # NoObj => planObj'[a] = planObj[a]
           /\ \A r \in Receipt : dst'[r] = dst[r] \/ dst'[r] = NoObj
<1>0. /\ src \in [Source -> Obj \cup {NoObj}] /\ dst \in [Receipt -> Obj \cup {NoObj}]
      /\ NoObj \notin Obj
  BY ConstantsAssumption DEF TypeOK, MachineTypeOK
<1>1. ASSUME NEW s \in Source, NEW o \in Obj, Create(s, o)
      PROVE  /\ UNCHANGED <<dst, planObj>> /\ \A q \in Obj : InUse(q) => Ino[q] # Ino[o]
             /\ \A q \in Obj : Alive(q)' => Alive(q) \/ q = o
  BY <1>0, <1>1 DEF Create, Alive, InUse, plans
<1>2. ASSUME NEW s \in Source, Remove(s) \/ MoveAway(s) \/ \E o \in Obj : PutBack(s, o)
      PROVE  UNCHANGED <<dst, planObj>> /\ \A q \in Obj : Alive(q)' => Alive(q)
  BY <1>0, <1>2 DEF Remove, MoveAway, PutBack, Alive, plans
<1>3. ASSUME NEW r \in Receipt, ReplaceDir(r)
      PROVE  /\ UNCHANGED planObj /\ \A q \in Obj : Alive(q)' => Alive(q)
             /\ \A q \in Receipt : dst'[q] = dst[q] \/ dst'[q] = NoObj
  BY <1>0, <1>3 DEF ReplaceDir, Alive, plans
<1>4. CASE Tick \/ Calm \/ \E o \in Obj : Touch(o) \/ Repair(o)
  BY <1>4 DEF Tick, Calm, Touch, Repair, Alive, plans, machine
<1>5. ASSUME NEW pl \in Plan, ScanPlan(pl)
      PROVE  /\ UNCHANGED machine
             /\ \A a \in Action : planObj[a] # NoObj => planObj'[a] = planObj[a]
  BY <1>5 DEF ScanPlan
<1>6. CASE \E pl \in Plan : ScanPlan(pl)
  BY <1>5, <1>6 DEF machine, Alive
<1> QED
  BY <1>1, <1>2, <1>3, <1>4, <1>6 DEF Environment

\* Nothing the owner does makes a checked object another one.
LEMMA CheckedOwnerStep ==
    ASSUME TypeOK, NoOrphanInv, CheckedInv, Environment
    PROVE  CheckedInv'
<1>0. /\ UNCHANGED <<jstate, pc, cmd, todo, cur, handle, checked>>
      /\ \A p \in Proc : cur[p] \in Receipt /\ todo[p] \subseteq Receipt
      /\ \A r \in Receipt : r[2] \in Action /\ PlannedObj(r) \in Obj \cup {NoObj}
      /\ NoOrphan
  BY OwnerEffects DEF store, locals, TypeOK, LocalsTypeOK, PlansTypeOK, Receipt, PlannedObj,
     NoOrphanInv
<1>1. \A r \in Receipt : PlannedObj(r) # NoObj => PlannedObj(r)' = PlannedObj(r)
  BY <1>0, OwnerKeepsIdentity DEF PlannedObj
<1>2. \A o \in Obj : InUse(o)' => InUse(o) \/ Alive(o)'
  BY <1>0 DEF InUse
<1>3. \A o, q \in Obj : InUse(o)' /\ InUse(q)' /\ Ino[o] = Ino[q] => o = q
  BY <1>2, OwnerKeepsIdentity DEF CheckedInv, InUse
<1>4. \A r \in Receipt : ~DestinationAbsent(r)' => ~DestinationAbsent(r) /\ dst'[r] = dst[r]
  BY OwnerKeepsIdentity DEF DestinationAbsent
<1>5. \A r \in Receipt : jstate[r] # "none" => PlannedObj(r)' = PlannedObj(r) /\ PlannedObj(r) # NoObj
  BY <1>1 DEF CheckedInv
<1>6. \A r \in Receipt : ~DestinationAbsent(r)' =>
          PlannedObj(r)' = PlannedObj(r) /\ dst'[r] = dst[r]
  BY <1>0, <1>4, <1>5 DEF NoOrphan, DestinationAbsent, Active
<1>7. \A r \in Receipt : ~DestinationAbsent(r)' => DestinationMatches(r)' = DestinationMatches(r)
  BY <1>6 DEF DestinationMatches, identityMatches
<1>8. \A r \in Receipt : DestinationMatches(r)' => ~DestinationAbsent(r)'
  BY DEF DestinationMatches, identityMatches, DestinationAbsent
<1>9. ASSUME NEW p \in Proc
      PROVE  HandleKnows(p)'
  <2>1. HandleKnows(p)
    BY DEF CheckedInv
  <2> QED
    BY <1>0, <1>1, <1>4, <1>7, <2>1 DEF HandleKnows
<1>10. \A r \in Receipt : DestinationMatches(r)' => dst'[r] = checked'[r]
  BY <1>0, <1>6, <1>7, <1>8 DEF CheckedInv
<1>11. \A r \in Receipt : jstate'[r] = "quarantined" => DestinationAbsent(r)' \/ DestinationMatches(r)'
  BY <1>0, <1>4, <1>7 DEF CheckedInv
<1>12. /\ \A r \in Receipt : jstate'[r] # "none" => PlannedObj(r)' # NoObj
       /\ \A p \in Proc : cmd'[p] = "quarantine" => \A r \in todo'[p] : PlannedObj(r)' # NoObj
  BY <1>0, <1>1 DEF CheckedInv
<1> QED
  BY <1>3, <1>9, <1>10, <1>11, <1>12 DEF CheckedInv

\* What a rename brings into the directory of r is the checked object, or one
\* that no later comparison takes for it.
LEMMA CheckedFill ==
    ASSUME TypeOK, CheckedInv, NEW p \in Proc, Moves(p), Fills(p), UNCHANGED plans,
           NEW r \in Receipt, r = cur[p], DestinationMatches(r)'
    PROVE  dst'[r] = checked'[r]
<1> DEFINE o == src[PathOfReceipt(cur[p])]
<1>1. /\ dst' = [dst EXCEPT ![r] = o] /\ o \in Obj /\ UNCHANGED <<checked, planObj>>
      /\ PathOfReceipt(cur[p]) \in Source /\ pc[p] \in {"rename", "gitRun"}
      /\ dst \in [Receipt -> Obj \cup {NoObj}]
  BY LocalsOfProcess DEF Fills, Moves, MovedIn, plans, TypeOK, MachineTypeOK
<1>2. InUse(o) /\ InUse(handle[p])
  BY <1>1 DEF InUse, Alive
<1>3. Ino[o] = Ino[PlannedObj(r)]
  BY <1>1 DEF DestinationMatches, identityMatches, PlannedObj
<1>4. handle[p] = checked[r] /\ Ino[handle[p]] = Ino[PlannedObj(r)] /\ handle[p] \in Obj
  BY <1>1 DEF CheckedInv, HandleKnows
<1>5. o = handle[p]
  BY <1>1, <1>2, <1>3, <1>4 DEF CheckedInv
<1> QED
  BY <1>1, <1>4, <1>5

\* Nor does a step of a process.
LEMMA CheckedProcessStep ==
    ASSUME TypeOK, NoOrphanInv, CheckedInv, NEW p \in Proc, Start(p) \/ Work(p) \/ Fault(p)
    PROVE  CheckedInv'
<1>0. /\ dst \in [Receipt -> Obj \cup {NoObj}] /\ jstate \in [Receipt -> CleanupState \cup {"none"}]
      /\ checked \in [Receipt -> Obj \cup {NoObj}] /\ NoObj \notin Obj
      /\ cur[p] \in Receipt /\ todo[p] \subseteq Receipt /\ PathOfReceipt(cur[p]) \in Source
      /\ HandleKnows(p) /\ src \in [Source -> Obj \cup {NoObj}]
  BY LocalsOfProcess, ConstantsAssumption
     DEF TypeOK, MachineTypeOK, StoreTypeOK, HistoryTypeOK, LocalsTypeOK, CheckedInv
<1>1. UNCHANGED planObj /\ (Quiet \/ Journals(p) \/ Moves(p) \/ Checks(p) \/ Marks(p))
  BY ProcessEffects DEF plans
<1>2. \A r \in Receipt : PlannedObj(r)' = PlannedObj(r)
  BY <1>1 DEF PlannedObj
<1>3. \A o, q \in Obj : InUse(o)' /\ InUse(q)' /\ Ino[o] = Ino[q] => o = q
  <2>1. ASSUME NEW o \in Obj, InUse(o)' PROVE InUse(o)
    <3>1. CASE Alive(o)'
      BY <3>1, NoneIsBorn DEF InUse
    <3>2. ASSUME NEW q \in Proc, handle'[q] = o
          PROVE  InUse(o)
      <4>1. handle'[q] \in {handle[q], NoObj} \/ Alive(handle'[q])
        BY QuarantineArrivals
      <4> QED
        BY <1>0, <3>2, <4>1 DEF InUse
    <3> QED
      BY <2>1, <3>1, <3>2 DEF InUse
  <2> QED
    BY <2>1 DEF CheckedInv
<1>4. \A r \in Receipt : jstate'[r] # "none" => PlannedObj(r)' # NoObj
  <2>1. ASSUME NEW r \in Receipt, jstate'[r] # "none", jstate[r] = "none"
        PROVE  PlannedObj(r) # NoObj
    <3>1. Journals(p)
      BY <1>1, <2>1 DEF Quiet, Moves, Checks, Marks, store
    <3>2. r = cur[p] /\ pc[p] = "prepare"
      BY <1>0, <2>1, <3>1 DEF Journals, Prepares, Records, Writes, CanTransitionTo
    <3> QED
      BY <1>0, <3>2 DEF HandleKnows
  <2> QED
    BY <1>2, <2>1 DEF CheckedInv
<1>5. \A q \in Proc : cmd'[q] = "quarantine" => \A r \in todo'[q] : PlannedObj(r)' # NoObj
  <2>1. ASSUME NEW q \in Proc \ {p}, cmd'[q] = "quarantine", NEW r \in todo'[q]
        PROVE  PlannedObj(r)' # NoObj
    <3>1. cmd[q] = "quarantine" /\ r \in todo[q]
      BY <2>1, QuarantineArrivals
    <3>2. r \in Receipt
      BY <3>1 DEF TypeOK, LocalsTypeOK
    <3> QED
      BY <1>2, <3>1, <3>2 DEF CheckedInv
  <2>2. ASSUME cmd'[p] = "quarantine", NEW r \in todo'[p]
        PROVE  PlannedObj(r)' # NoObj
    <3>1. CASE todo'[p] \subseteq Batch \X Planned
      <4>1. r[2] \in Planned /\ r \in Receipt
        BY <2>2, <3>1 DEF Planned, Receipt
      <4> QED
        BY <1>2, <4>1 DEF Planned, PlannedObj
    <3>2. CASE cmd[p] = "quarantine" /\ todo'[p] \subseteq todo[p]
      BY <1>0, <1>2, <2>2, <3>2 DEF CheckedInv
    <3> QED
      BY <2>2, <3>1, <3>2, QuarantineArrivals
  <2> QED
    BY <2>1, <2>2
<1>6. UNCHANGED <<dst, checked>> => \A r \in Receipt : DestinationMatches(r)' => dst'[r] = checked'[r]
  BY <1>2 DEF CheckedInv, DestinationMatches, identityMatches
<1>7. \A r \in Receipt : DestinationMatches(r)' => dst'[r] = checked'[r]
  <2>1. CASE Quiet \/ Journals(p) \/ Marks(p)
    BY <1>6, <2>1 DEF Quiet, Journals, Marks, names
  <2>2. CASE Checks(p)
    <3>1. UNCHANGED dst /\ dst[cur[p]] = NoObj
          /\ \A r \in Receipt : r # cur[p] => checked'[r] = checked[r]
      BY <1>0, <2>2 DEF Checks, names, Revalidated, DestinationAbsent
    <3> QED
      BY <1>2, <3>1 DEF CheckedInv, DestinationMatches, identityMatches
  <2>3. CASE Moves(p)
    <3>1. UNCHANGED checked /\ \A r \in Receipt : r # cur[p] => dst'[r] = dst[r]
      BY <1>0, <2>3 DEF Moves, Fills, MovedIn, Returns, MovedBack, Deletes, Renames, Empties
    <3>2. Fills(p) \/ dst'[cur[p]] = NoObj
      BY <1>0, <2>3 DEF Moves, Returns, MovedBack, Deletes, Renames, Empties
    <3>3. \A r \in Receipt : r = cur[p] => (DestinationMatches(r)' => dst'[r] = checked'[r])
      BY <2>3, <3>2, CheckedFill, ProcessEffects DEF DestinationMatches, identityMatches
    <3>4. \A r \in Receipt : r # cur[p] => (DestinationMatches(r)' => dst'[r] = checked'[r])
      BY <1>2, <3>1 DEF CheckedInv, DestinationMatches, identityMatches
    <3> QED
      BY <3>3, <3>4
  <2> QED
    BY <1>1, <2>1, <2>2, <2>3
<1>8. \A r \in Receipt : jstate'[r] = "quarantined" => DestinationAbsent(r)' \/ DestinationMatches(r)'
  <2>1. CASE UNCHANGED dst
    <3>1. \A r \in Receipt : /\ DestinationMatches(r)' = DestinationMatches(r)
                             /\ DestinationAbsent(r)' = DestinationAbsent(r)
      BY <1>2, <2>1 DEF DestinationMatches, identityMatches, DestinationAbsent
    <3>2. ASSUME NEW r \in Receipt, jstate'[r] = "quarantined", jstate[r] # "quarantined"
          PROVE  DestinationAbsent(r) \/ DestinationMatches(r)
      <4>1. Journals(p)
        BY <1>1, <3>2 DEF Quiet, Moves, Checks, Marks, store
      <4>2. r = cur[p] /\ pc[p] \in {"journalMove", "journalRecovered", "requarantine"}
        BY <1>0, <3>2, <4>1 DEF Journals, Prepares, Records, Writes
      <4> QED
        BY <1>0, <4>2 DEF HandleKnows
    <3> QED
      BY <3>1, <3>2 DEF CheckedInv
  <2>2. CASE Moves(p)
    <3>1. UNCHANGED jstate /\ \A r \in Receipt : r # cur[p] => dst'[r] = dst[r]
      BY <1>0, <2>2 DEF Moves, Fills, MovedIn, Returns, MovedBack, Deletes, Renames, Empties, store
    <3>2. jstate[cur[p]] = "quarantined" => dst'[cur[p]] = NoObj
      <4>1. Fills(p) => jstate[cur[p]] = "prepared"
        BY DEF Fills, NoOrphanInv, Knows, MemLabels, MoveLabels
      <4>2. Fills(p) \/ dst'[cur[p]] = NoObj
        BY <1>0, <2>2 DEF Moves, Returns, MovedBack, Deletes, Renames, Empties
      <4> QED
        BY <4>1, <4>2
    <3> QED
      BY <1>2, <3>1, <3>2 DEF CheckedInv, DestinationMatches, identityMatches, DestinationAbsent
  <2> QED
    BY <1>1, <2>1, <2>2 DEF Quiet, Journals, Checks, Marks, names
<1>9. \A q \in Proc : HandleKnows(q)'
  <2>1. \A q \in Proc \ {p} : HandleKnows(q)'
    BY OnlyOneActs DEF HandleKnows
  <2>2. pc'[p] = "prepare" => HandleKnows(p)'
    <3> SUFFICES ASSUME pc'[p] = "prepare" PROVE PlannedObj(cur[p])' # NoObj
      BY DEF HandleKnows
    <3>1. cmd[p] = "quarantine" /\ cur'[p] \in todo[p]
      BY QuarantineArrivals
    <3>2. PlannedObj(cur'[p]) # NoObj
      BY <3>1 DEF CheckedInv
    <3> QED
      BY <1>1, <3>2 DEF PlannedObj
  <2>3. pc'[p] = "revalidate" => HandleKnows(p)'
    BY QuarantineArrivals DEF HandleKnows
  <2>4. pc'[p] \in {"stat", "gitMove"} => HandleKnows(p)'
    <3> SUFFICES ASSUME Checks(p), UNCHANGED <<cur, handle>>
                 PROVE  /\ handle[p] \in Obj /\ handle[p] = checked'[cur[p]]
                        /\ PlannedObj(cur[p]) # NoObj /\ Ino[handle[p]] = Ino[PlannedObj(cur[p])]
      BY <1>0, <1>2, QuarantineArrivals DEF HandleKnows
    <3> DEFINE o == src[PathOfReceipt(cur[p])]
    <3>1. /\ o # NoObj /\ PlannedObj(cur[p]) # NoObj /\ Ino[o] = Ino[PlannedObj(cur[p])]
          /\ Ino[handle[p]] = Ino[o] /\ handle[p] \in Obj /\ checked'[cur[p]] = o
      BY <1>0 DEF Checks, Revalidated, identityMatches, HandleKnows
    <3>2. InUse(o) /\ InUse(handle[p]) /\ o \in Obj
      BY <1>0, <3>1 DEF InUse, Alive
    <3>3. handle[p] = o
      BY <3>1, <3>2 DEF CheckedInv
    <3> QED
      BY <3>1, <3>3
  <2>5. pc'[p] \in {"rename", "gitRun"} => HandleKnows(p)'
    <3> SUFFICES ASSUME pc'[p] \in {"rename", "gitRun"} PROVE HandleKnows(p)'
      OBVIOUS
    <3>1. pc[p] \in {"stat", "gitMove"} /\ UNCHANGED <<cur, handle, checked>>
      BY QuarantineArrivals DEF Quiet
    <3> QED
      BY <1>0, <1>2, <3>1 DEF HandleKnows
  <2>6. pc'[p] \in {"journalMove", "journalRecovered", "requarantine"} => HandleKnows(p)'
    <3> SUFFICES ASSUME Quiet, UNCHANGED cur, DestinationAbsent(cur[p]) \/ DestinationMatches(cur[p])
                 PROVE  (DestinationAbsent(cur[p]) \/ DestinationMatches(cur[p]))'
      BY QuarantineArrivals DEF HandleKnows
    <3> QED
      BY <1>0, <1>2 DEF Quiet, names, DestinationAbsent, DestinationMatches, identityMatches
  <2>7. pc'[p] \notin {"prepare", "revalidate", "stat", "gitMove", "rename", "gitRun",
                       "journalMove", "journalRecovered", "requarantine"} => HandleKnows(p)'
    BY DEF HandleKnows
  <2> QED
    BY <2>1, <2>2, <2>3, <2>4, <2>5, <2>6, <2>7
<1> QED
  BY <1>3, <1>4, <1>5, <1>7, <1>8, <1>9 DEF CheckedInv

\* A receipt journaled as quarantined holds the object that passed every check,
\* whatever was swapped, removed or created beside it on the way.
THEOREM QuarantinedWasChecked == Spec => []MovedWasChecked
<1>1. Init => CheckedInv
  BY ConstantsAssumption DEF Init, CheckedInv, InUse, Alive, HandleKnows, DestinationMatches,
     identityMatches
<1>2. TypeOK /\ NoOrphanInv /\ CheckedInv /\ [Next]_vars => CheckedInv'
  <2> SUFFICES ASSUME TypeOK, NoOrphanInv, CheckedInv, [Next]_vars
               PROVE  CheckedInv'
    OBVIOUS
  <2>1. CASE UNCHANGED vars
    <3>1. UNCHANGED <<src, dst, away, handle, planObj, jstate, cmd, todo, cur, pc, checked>>
      BY <2>1 DEF vars, machine, store, plans, locals, history
    <3>2. \A o \in Obj : InUse(o)' = InUse(o)
      BY <3>1 DEF InUse, Alive
    <3>3. \A r \in Receipt : /\ PlannedObj(r)' = PlannedObj(r)
                             /\ DestinationMatches(r)' = DestinationMatches(r)
                             /\ DestinationAbsent(r)' = DestinationAbsent(r)
      BY <3>1 DEF DestinationMatches, DestinationAbsent, identityMatches, PlannedObj
    <3>4. \A p \in Proc : cur[p] \in Receipt /\ todo[p] \subseteq Receipt
      BY DEF TypeOK, LocalsTypeOK
    <3>5. \A p \in Proc : HandleKnows(p)'
      BY <3>1, <3>3, <3>4 DEF HandleKnows, CheckedInv
    <3> QED
      BY <3>1, <3>2, <3>3, <3>4, <3>5 DEF CheckedInv
  <2>2. CASE Environment
    BY <2>2, CheckedOwnerStep
  <2>3. ASSUME NEW p \in Proc, Start(p) \/ Work(p) \/ Fault(p)
        PROVE  CheckedInv'
    BY <2>3, CheckedProcessStep
  <2> QED
    BY <2>1, <2>2, <2>3 DEF Next
<1>3. CheckedInv => MovedWasChecked
  BY DEF CheckedInv, MovedWasChecked, DestinationAbsent
<1>4. Init => NoOrphanInv
  BY DEF Init, NoOrphanInv, LockHeld, Knows, NoOrphan, MemLabels, MoveLabels, EmptyLabels
<1> QED
  BY <1>1, <1>2, <1>3, <1>4, StepNoOrphan, TypeCorrect, PTL DEF Spec

=============================================================================
