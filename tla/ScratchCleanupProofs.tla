------------------------ MODULE ScratchCleanupProofs ------------------------
(***************************************************************************)
(* Theorems about scratch cleanup, for any number of entries, cycles,      *)
(* watchers, commands and restorers, and for every policy and cadence.     *)
(***************************************************************************)
EXTENDS ScratchCleanup, TLAPS

-----------------------------------------------------------------------------
(* Types. *)

LocalTypes ==
    /\ pol \in [Proc -> Policies] /\ latest \in [Proc -> Policies]
    /\ start \in [Proc -> Times] /\ used \in [Proc -> SUBSET Name]
    /\ todo \in [Proc -> SUBSET Name] /\ sel \in [Proc -> [Name -> Entries]]
    /\ unsaved \in [Proc -> SUBSET Name] /\ cur \in [Proc -> Name] /\ checked \in [Proc -> Times]

MachineTypes ==
    /\ clock \in 0..MaxClock /\ events \in 0..MaxEvents
    /\ entry \in [Name -> Entries] /\ inUse \subseteq Name /\ policy \in Policies

StoreTypes ==
    /\ saved \subseteq Name \X Times /\ runs \subseteq Run /\ receipts \subseteq Name \X Times
    /\ gone \subseteq [name : Name, made : Times, archived : BOOLEAN]

OneSweeper ==
    /\ pc \in [Proc -> Working \cup {"idle", "due", "begin", "lock"}]
    /\ lock \in Proc \cup {NoProc}
    /\ \A p \in Proc : lock = p <=> pc[p] \in Working

\* The parts of the type invariant.
LEMMA TypeParts == TypeOK <=> MachineTypes /\ StoreTypes /\ OneSweeper /\ LocalTypes
BY DEF TypeOK, MachineTypes, StoreTypes, OneSweeper, LocalTypes

\* What is written into the machine, or copied from it, is well typed.
LEMMA EntryTypes ==
    /\ NoEntry \in Entries /\ AnyName \in Name /\ -1 \in Times
    /\ \A t \in Times : [made |-> t, top |-> -1, newest |-> -1] \in Entries
    /\ \A t, u \in Times : [made |-> t, top |-> u, newest |-> u] \in Entries
    /\ \A e \in Entries, t \in Times : [e EXCEPT !.made = t, !.newest = t] \in Entries
<1>1. -1 \in Times
  BY ConstantsAssumption DEF Times
<1>2. AnyName \in Name
  BY ConstantsAssumption DEF AnyName
<1> QED
  BY <1>1, <1>2 DEF NoEntry, Entries

\* A process that forgets its run has empty locals.
LEMMA ForgetTypes ==
    ASSUME LocalTypes, NEW p \in Proc, Forget(p), pol' = pol
    PROVE  LocalTypes'
BY EntryTypes DEF LocalTypes, Forget

\* Every step of a process keeps the types of its locals.
LEMMA LocalStep ==
    ASSUME LocalTypes, MachineTypes, StoreTypes, NEW p \in Proc, Step(p)
    PROVE  LocalTypes'
<1>1. clock \in Times /\ -1 \in Times
  BY ConstantsAssumption DEF MachineTypes, Times
<1>2. CASE Load(p)
  BY <1>2 DEF Load, LocalTypes, MachineTypes
<1>3. CASE Begin(p)
  BY <1>1, <1>3 DEF Begin, LocalTypes
<1>4. CASE Lock(p)
  BY <1>4, ForgetTypes DEF Lock, LocalTypes, locals
<1>5. CASE References(p)
  BY <1>5 DEF References, LocalTypes, MachineTypes
<1>6. CASE Select(p)
  <2>1. PICK n \in todo[p] :
            /\ todo' = [todo EXCEPT ![p] = @ \ {n}]
            /\ \/ /\ sel' = [sel EXCEPT ![p][n] = entry[n]]
                  /\ unsaved' = [unsaved EXCEPT ![p] =
                        IF pol[p].class[n] = "regenerable" THEN @ \cup {n} ELSE @]
               \/ UNCHANGED <<sel, unsaved>>
    BY <1>6 DEF Select
  <2>2. n \in Name /\ entry[n] \in Entries
    <3>1. todo[p] \in SUBSET Name
      BY DEF LocalTypes
    <3> QED
      BY <2>1, <3>1 DEF MachineTypes
  <2>3. todo' \in [Proc -> SUBSET Name]
    BY <2>1, <2>2 DEF LocalTypes
  <2>4. unsaved' \in [Proc -> SUBSET Name]
    BY <2>1, <2>2 DEF LocalTypes
  <2>5. sel' \in [Proc -> [Name -> Entries]]
    <3>1. CASE sel' = sel
      BY <3>1 DEF LocalTypes
    <3>2. CASE sel' = [sel EXCEPT ![p][n] = entry[n]]
      BY <2>2, <3>2 DEF LocalTypes
    <3> QED
      BY <2>1, <3>1, <3>2
  <2>6. UNCHANGED <<pol, latest, start, used, cur, checked>>
    BY <1>6 DEF Select
  <2> QED
    BY <2>3, <2>4, <2>5, <2>6 DEF LocalTypes
<1>7. CASE Reload(p)
  <2>1. Selected(p) \in SUBSET Name /\ policy \in Policies
    BY DEF Selected, MachineTypes
  <2>2. latest' = [latest EXCEPT ![p] = policy] /\ todo' = [todo EXCEPT ![p] = Selected(p)]
    BY <1>7 DEF Reload
  <2> QED
    BY <1>7, <2>1, <2>2 DEF Reload, LocalTypes
<1>8. CASE Check(p)
  <2>1. PICK n \in todo[p] :
            /\ todo' = [todo EXCEPT ![p] = @ \ {n}]
            /\ \/ cur' = [cur EXCEPT ![p] = n] /\ checked' = [checked EXCEPT ![p] = clock]
               \/ UNCHANGED <<cur, checked>>
    BY <1>8 DEF Check
  <2>2. todo[p] \in SUBSET Name
    BY DEF LocalTypes
  <2>3. n \in Name /\ clock \in Times
    BY <1>1, <2>1, <2>2
  <2>4. UNCHANGED <<pol, latest, start, used, sel, unsaved>>
    BY <1>8 DEF Check
  <2>5. todo' \in [Proc -> SUBSET Name]
    <3>1. todo \in [Proc -> SUBSET Name]
      BY DEF LocalTypes
    <3>2. todo[p] \ {n} \in SUBSET Name
      BY <2>2
    <3> QED
      BY <2>1, <3>1, <3>2
  <2>6. cur' \in [Proc -> Name] /\ checked' \in [Proc -> Times]
    <3>1. cur \in [Proc -> Name] /\ checked \in [Proc -> Times]
      BY DEF LocalTypes
    <3>2. CASE cur' = [cur EXCEPT ![p] = n] /\ checked' = [checked EXCEPT ![p] = clock]
      BY <2>3, <3>1, <3>2
    <3>3. CASE UNCHANGED <<cur, checked>>
      BY <3>1, <3>3
    <3> QED
      BY <2>1, <3>2, <3>3
  <2> QED
    BY <2>4, <2>5, <2>6 DEF LocalTypes
<1>9. CASE Finish(p) \/ Stops(p) \/ EndRestore(p)
  BY <1>9, ForgetTypes DEF Finish, Stops, EndRestore
<1>10. CASE StartRestore(p)
  <2>1. PICK c \in Name \X Times :
            /\ cur' = [cur EXCEPT ![p] = c[1]]
            /\ sel' = [sel EXCEPT ![p][c[1]] = [made |-> c[2], top |-> -1, newest |-> -1]]
    BY <1>10 DEF StartRestore, StoreTypes, Run
  <2>2. c[1] \in Name /\ [made |-> c[2], top |-> -1, newest |-> -1] \in Entries
    BY EntryTypes
  <2>3. cur' \in [Proc -> Name] /\ sel' \in [Proc -> [Name -> Entries]]
    <3>1. cur \in [Proc -> Name] /\ sel \in [Proc -> [Name -> Entries]]
      BY DEF LocalTypes
    <3>2. cur' \in [Proc -> Name]
      BY <2>1, <2>2, <3>1
    <3>3. [sel[p] EXCEPT ![c[1]] = [made |-> c[2], top |-> -1, newest |-> -1]] \in [Name -> Entries]
      BY <2>2, <3>1
    <3> QED
      BY <2>1, <3>1, <3>2, <3>3
  <2>4. UNCHANGED <<pol, latest, start, used, todo, unsaved, checked>>
    BY <1>10 DEF StartRestore
  <2> QED
    BY <2>3, <2>4 DEF LocalTypes
<1>11. CASE UNCHANGED locals
  BY <1>11 DEF locals, LocalTypes
<1> QED
  BY <1>2, <1>3, <1>4, <1>5, <1>6, <1>7, <1>8, <1>9, <1>10, <1>11
     DEF Step, Due, Listed, Copy, Publish, RecordScratchRun, Stat, Unlink, UnlinkFails,
         RecordScratchDeletion, ReceiptFails

\* Every step of a process keeps the types of the store and of the history.
LEMMA StoreStep ==
    ASSUME LocalTypes, MachineTypes, StoreTypes, NEW p \in Proc, Step(p)
    PROVE  StoreTypes'
<1>1. Contents(p) \subseteq Name \X Times
  BY DEF Contents, ToArchive, Selected, LocalTypes, Entries
<1>2. CASE Publish(p)
  BY <1>1, <1>2 DEF Publish, StoreTypes
<1>3. CASE RecordScratchRun(p)
  <2>1. start[p] \in Times /\ Kind(p) \in {"full", "regenerable"}
    BY DEF LocalTypes, Kind
  <2>2. [kind |-> Kind(p), start |-> start[p], entries |-> Contents(p)] \in Run
    BY <1>1, <2>1 DEF Run
  <2> QED
    BY <1>3, <2>2 DEF RecordScratchRun, StoreTypes
<1>4. CASE RecordScratchDeletion(p)
  BY <1>4 DEF RecordScratchDeletion, StoreTypes, LocalTypes, Entries
<1>5. CASE Unlink(p) \/ UnlinkFails(p)
  <2>1. [name |-> cur[p], made |-> sel[p][cur[p]].made, archived |-> cur[p] \notin unsaved[p]]
            \in [name : Name, made : Times, archived : BOOLEAN]
    BY DEF LocalTypes, Entries
  <2> QED
    BY <1>5, <2>1 DEF Unlink, UnlinkFails, Deleted, StoreTypes, store
<1>6. CASE UNCHANGED <<store, gone>>
  BY <1>6 DEF store, StoreTypes
<1> QED
  BY <1>2, <1>3, <1>4, <1>5, <1>6
     DEF Step, Load, Due, Begin, Lock, References, Select, Listed, Copy, Reload, Check, Stat,
         ReceiptFails, Finish, StartRestore, EndRestore, Stops

\* A policy and an event of the owner keep the types of the machine.
LEMMA MachineStep ==
    ASSUME LocalTypes, MachineTypes, [Next]_vars
    PROVE  MachineTypes'
<1>1. clock \in Times /\ clock \in Int /\ MaxClock \in Nat
  BY ConstantsAssumption DEF MachineTypes, Times
<1>2. CASE Tick
  BY <1>1, <1>2 DEF Tick, MachineTypes
<1>3. ASSUME Owner
      PROVE  clock' = clock /\ events' \in 0..MaxEvents
  BY <1>3, ConstantsAssumption DEF Owner, MachineTypes
<1>4. ASSUME NEW n \in Name, Write(n)
      PROVE  MachineTypes'
  BY <1>1, <1>3, <1>4, EntryTypes DEF Write, MachineTypes
<1>5. ASSUME NEW n \in Name, WriteBelow(n)
      PROVE  MachineTypes'
  <2>1. [entry[n] EXCEPT !.made = clock, !.newest = clock] \in Entries
    BY <1>1, EntryTypes DEF MachineTypes
  <2> QED
    BY <1>3, <1>5, <2>1 DEF WriteBelow, MachineTypes
<1>6. ASSUME NEW n \in Name, Remove(n)
      PROVE  MachineTypes'
  BY <1>3, <1>6, EntryTypes DEF Remove, MachineTypes
<1>7. ASSUME NEW n \in Name, Use(n)
      PROVE  MachineTypes'
  BY <1>3, <1>7 DEF Use, MachineTypes
<1>8. CASE EditPolicy
  BY <1>3, <1>8 DEF EditPolicy, MachineTypes
<1>9. ASSUME NEW p \in Proc, Unlink(p) \/ UnlinkFails(p) \/ EndRestore(p)
      PROVE  MachineTypes'
  <2>1. cur[p] \in Name /\ entry[cur[p]] \in Entries /\ sel[p][cur[p]].made \in Times
    BY DEF LocalTypes, MachineTypes, Entries
  <2>2. /\ [entry[cur[p]] EXCEPT !.made = clock, !.newest = clock] \in Entries
        /\ Restored(p) \in Entries /\ NoEntry \in Entries
    BY <1>1, <2>1, EntryTypes DEF Restored
  <2>3. \E e \in Entries : entry' = [entry EXCEPT ![cur[p]] = e] \/ entry' = entry
    BY <1>9, <2>1, <2>2 DEF Unlink, UnlinkFails, EndRestore
  <2>4. entry' \in [Name -> Entries]
    BY <2>1, <2>3 DEF MachineTypes
  <2> QED
    BY <1>9, <2>4 DEF Unlink, UnlinkFails, EndRestore, MachineTypes
<1>10. CASE UNCHANGED machine
  BY <1>10 DEF machine, MachineTypes
<1>11. ASSUME NEW p \in Proc, Step(p)
       PROVE  UNCHANGED machine \/ Unlink(p) \/ UnlinkFails(p) \/ EndRestore(p)
  BY <1>11 DEF Step, Load, Due, Begin, Lock, References, Select, Listed, Copy, Publish,
        RecordScratchRun, Reload, Check, Stat, RecordScratchDeletion, ReceiptFails, Finish,
        StartRestore, Stops
<1> QED
  BY <1>2, <1>4, <1>5, <1>6, <1>7, <1>8, <1>9, <1>10, <1>11 DEF Next, Environment, vars

\* Only the holder of the lock works: a process begins to with a free lock and ends with it.
LEMMA LockStep ==
    ASSUME OneSweeper, NEW p \in Proc, Step(p)
    PROVE  OneSweeper'
<1>1. NoProc \notin Proc /\ Rest(p) \in {"idle", "due"}
  BY ConstantsAssumption DEF Rest
<1>2. PICK l \in Working \cup {"idle", "due", "begin", "lock"} : pc' = [pc EXCEPT ![p] = l]
  BY <1>1
     DEF Step, Load, Due, Begin, Lock, References, Select, Listed, Copy, Publish, RecordScratchRun,
         Reload, Check, Stat, Unlink, UnlinkFails, RecordScratchDeletion, ReceiptFails, Finish,
         StartRestore, EndRestore, Stops, Goto, Working, OneSweeper
<1>3. \/ lock = NoProc /\ lock' = p /\ l \in Working
      \/ lock = p /\ lock' = NoProc /\ l \notin Working
      \/ lock' = lock /\ (l \in Working <=> pc[p] \in Working)
  BY <1>1, <1>2
     DEF Step, Load, Due, Begin, Lock, References, Select, Listed, Copy, Publish, RecordScratchRun,
         Reload, Check, Stat, Unlink, UnlinkFails, RecordScratchDeletion, ReceiptFails, Finish,
         StartRestore, EndRestore, Stops, Goto, At, Working, OneSweeper, machine, store, locals
<1> QED
  BY <1>1, <1>2, <1>3 DEF OneSweeper

\* Whatever the owner, the machine and the processes do, everything keeps its type and only
\* the holder of the lock works.
LEMMA TypeStep == ASSUME TypeOK, [Next]_vars PROVE TypeOK'
<1>1. MachineTypes /\ StoreTypes /\ OneSweeper /\ LocalTypes
  BY TypeParts
<1>2. MachineTypes'
  BY <1>1, MachineStep
<1>3. ASSUME NEW p \in Proc, Step(p)
      PROVE  StoreTypes' /\ OneSweeper' /\ LocalTypes'
  BY <1>1, <1>3, StoreStep, LockStep, LocalStep
<1>4. ASSUME UNCHANGED <<store, lock, pc, locals, gone>>
      PROVE  StoreTypes' /\ OneSweeper' /\ LocalTypes'
  <2>1. UNCHANGED <<saved, runs, receipts, gone>> /\ UNCHANGED <<lock, pc>> /\ UNCHANGED locals
    BY <1>4 DEF store
  <2>2. StoreTypes'
    BY <1>1, <2>1 DEF StoreTypes
  <2>3. OneSweeper'
    BY <1>1, <2>1 DEF OneSweeper
  <2>4. LocalTypes'
    BY <1>1, <2>1 DEF LocalTypes, locals
  <2> QED
    BY <2>2, <2>3, <2>4
<1>5. (\E p \in Proc : Step(p)) \/ UNCHANGED <<store, lock, pc, locals, gone>>
  BY DEF Next, Environment, Tick, Write, WriteBelow, Remove, Use, EditPolicy, Owner, vars
<1>6. StoreTypes' /\ OneSweeper' /\ LocalTypes'
  BY <1>1, <1>3, <1>4, <1>5
<1> QED
  BY <1>2, <1>6 DEF TypeOK, MachineTypes, StoreTypes, OneSweeper, LocalTypes

\* The first state is well typed.
LEMMA TypeStarts == ASSUME Init PROVE TypeOK
<1>1. MachineTypes
  <2>1. [made |-> 0, top |-> 0, newest |-> 0] \in Entries /\ 0 \in 0..MaxClock /\ 0 \in 0..MaxEvents
    <3>1. 0 \in Times /\ MaxClock \in Nat /\ MaxEvents \in Nat
      BY ConstantsAssumption DEF Times
    <3> QED
      BY <3>1 DEF Entries
  <2>2. policy \in Policies
    <3>1. PICK c \in [Name -> Class], i \in Idles :
              policy = [class |-> c, idle |-> i, active |-> TRUE, edits |-> 0]
      BY DEF Init
    <3> QED
      BY <2>1, <3>1 DEF Policies
  <2> QED
    BY <2>1, <2>2 DEF Init, MachineTypes
<1>2. StoreTypes /\ OneSweeper
  BY ConstantsAssumption DEF Init, StoreTypes, OneSweeper, Working
<1>3. LocalTypes
  BY <1>1, EntryTypes DEF Init, LocalTypes, MachineTypes
<1> QED
  BY <1>1, <1>2, <1>3, TypeParts

-----------------------------------------------------------------------------
(* What a run knows at each of its steps. *)

Published == {"record", "recheck", "reload", "check", "stat", "unlink", "receipt"}
Recorded  == Published \ {"record"}
Deleting  == {"check", "stat", "unlink", "receipt"}
Chosen    == {"stat", "unlink"}

\* What it will delete is archived and listed in a recorded run; the entry it has chosen was,
\* when it looked last, the one it selected, which the latest policy lets it delete.
RunSound(p) ==
    /\ pc[p] \in Published => Contents(p) \subseteq saved
    /\ pc[p] \in Recorded => \E r \in runs : Contents(p) \subseteq r.entries
    /\ pc[p] \in Deleting => latest[p].active /\ todo[p] \subseteq Selected(p)
    /\ pc[p] \in Deleting \ {"check"} => cur[p] \in Selected(p)
    /\ pc[p] \in Chosen =>
          /\ ~Refused(p, cur[p])
          /\ clock - sel[p][cur[p]].newest >= IdleFor(latest[p], cur[p])

\* The entry it has chosen is the one it selected, or is gone, or was written after it looked
\* at it last: nobody else deletes or restores while it holds the lock.
Looked(p) ==
    pc[p] \in Chosen =>
        /\ checked[p] <= clock
        /\ \/ entry[cur[p]] \in {sel[p][cur[p]], NoEntry}
           \/ entry[cur[p]].made >= checked[p] /\ entry[cur[p]].newest >= checked[p]

\* Every edit of the policy has a number of its own.
Numbered(pl) == pl.edits <= policy.edits /\ (pl.edits = policy.edits => pl = policy)

ScratchInv ==
    /\ TypeOK
    /\ \A p \in Proc : RunSound(p) /\ Looked(p) /\ Numbered(pol[p]) /\ Numbered(latest[p])
    /\ RestorableByReceipt

\* Nobody deletes before something is selected.
LEMMA ScratchStarts == ASSUME Init PROVE ScratchInv
BY TypeStarts
   DEF Init, ScratchInv, RunSound, Looked, Numbered, RestorableByReceipt, Published, Recorded, Deleting,
       Chosen, TypeOK, Policies

\* What a run knows stays true while its own variables stand, the store grows and time passes.
LEMMA RunStands ==
    ASSUME TypeOK, TypeOK', NEW p \in Proc, RunSound(p), pc'[p] = pc[p], latest'[p] = latest[p],
           todo'[p] = todo[p], sel'[p] = sel[p], unsaved'[p] = unsaved[p], cur'[p] = cur[p],
           checked'[p] = checked[p], saved \subseteq saved', runs \subseteq runs', clock <= clock'
    PROVE  RunSound(p)'
<1>1. Selected(p)' = Selected(p) /\ Contents(p)' = Contents(p)
  BY DEF Selected, Contents, ToArchive
<1>2. Refused(p, cur[p])' <=> Refused(p, cur[p])
  BY DEF Refused
<1>3. clock \in Int /\ clock' \in Int /\ sel[p][cur[p]].newest \in Int /\ sel[p][cur[p]].newest' = sel[p][cur[p]].newest
  BY DEF TypeOK, Entries, Times
<1>4. IdleFor(latest[p], cur[p])' = IdleFor(latest[p], cur[p]) /\ IdleFor(latest[p], cur[p]) \in Nat
  BY ConstantsAssumption DEF IdleFor, TypeOK, Policies
<1>5. clock - sel[p][cur[p]].newest >= IdleFor(latest[p], cur[p])
          => (clock - sel[p][cur[p]].newest >= IdleFor(latest[p], cur[p]))'
  BY <1>3, <1>4
<1> QED
  BY <1>1, <1>2, <1>5 DEF RunSound

\* A step of one process leaves another where it is, with what it knows, and takes nothing
\* from the store.
LEMMA Elsewhere ==
    ASSUME TypeOK, NEW p \in Proc, NEW q \in Proc, p # q, Step(p)
    PROVE  /\ pc'[q] = pc[q] /\ pol'[q] = pol[q] /\ latest'[q] = latest[q] /\ todo'[q] = todo[q]
           /\ sel'[q] = sel[q] /\ unsaved'[q] = unsaved[q] /\ cur'[q] = cur[q]
           /\ checked'[q] = checked[q]
<1>1. OneSweeper /\ LocalTypes
  BY TypeParts
<1>2. ASSUME Forget(p)
      PROVE  /\ latest'[q] = latest[q] /\ todo'[q] = todo[q] /\ sel'[q] = sel[q]
             /\ unsaved'[q] = unsaved[q] /\ cur'[q] = cur[q] /\ checked'[q] = checked[q]
  BY <1>1, <1>2 DEF Forget, LocalTypes
<1>3. pc'[q] = pc[q]
  BY <1>1
     DEF Step, Load, Due, Begin, Lock, References, Select, Listed, Copy, Publish, RecordScratchRun,
         Reload, Check, Stat, Unlink, UnlinkFails, RecordScratchDeletion, ReceiptFails, Finish,
         StartRestore, EndRestore, Stops, Goto, OneSweeper
<1>4. CASE Finish(p) \/ Stops(p) \/ EndRestore(p) \/ Lock(p)
  BY <1>2, <1>3, <1>4 DEF Finish, Stops, EndRestore, Lock, locals
<1>5. CASE Load(p) \/ Begin(p) \/ References(p) \/ Reload(p)
  BY <1>1, <1>3, <1>5 DEF Load, Begin, References, Reload, LocalTypes
<1>6. CASE Select(p) \/ Check(p) \/ StartRestore(p)
  BY <1>1, <1>3, <1>6 DEF Select, Check, StartRestore, LocalTypes
<1>7. CASE UNCHANGED locals
  BY <1>3, <1>7 DEF locals
<1> QED
  BY <1>4, <1>5, <1>6, <1>7
     DEF Step, Due, Listed, Copy, Publish, RecordScratchRun, Stat, Unlink, UnlinkFails,
         RecordScratchDeletion, ReceiptFails

\* No step takes anything out of the store or turns the clock back.
LEMMA StoreGrows ==
    ASSUME TypeOK, [Next]_vars
    PROVE  saved \subseteq saved' /\ runs \subseteq runs' /\ clock <= clock'
<1>1. clock \in Nat
  BY ConstantsAssumption DEF TypeOK
<1>2. clock' = clock \/ Tick
  <2>1. ASSUME NEW p \in Proc, Step(p)
        PROVE  clock' = clock
    BY <2>1
       DEF Step, Load, Due, Begin, Lock, References, Select, Listed, Copy, Publish, RecordScratchRun,
           Reload, Check, Stat, Unlink, UnlinkFails, RecordScratchDeletion, ReceiptFails, Finish,
           StartRestore, EndRestore, Stops, machine
  <2>2. CASE UNCHANGED vars
    BY <2>2 DEF vars, machine
  <2> QED
    BY <2>1, <2>2 DEF Next, Environment, Write, WriteBelow, Remove, Use, EditPolicy, Owner
<1>3. saved \subseteq saved' /\ runs \subseteq runs'
  BY DEF Next, Environment, Tick, Write, WriteBelow, Remove, Use, EditPolicy, Owner, vars, store,
         Step, Load, Due, Begin, Lock, References, Select, Listed, Copy, Publish, RecordScratchRun,
         Reload, Check, Stat, Unlink, UnlinkFails, RecordScratchDeletion, ReceiptFails, Finish,
         StartRestore, EndRestore, Stops
<1> QED
  BY <1>1, <1>2, <1>3 DEF Tick

\* A process that is not deleting, or preparing to, has nothing to know.
LEMMA NothingToKnow ==
    ASSUME TypeOK', NEW p \in Proc, pc'[p] \notin Published
    PROVE  RunSound(p)'
BY DEF RunSound, Published, Recorded, Deleting, Chosen

\* A run knows what it has to at its next step.
LEMMA OwnStep ==
    ASSUME TypeOK, TypeOK', NEW p \in Proc, RunSound(p), Step(p)
    PROVE  RunSound(p)'
<1>1. OneSweeper /\ LocalTypes
  BY TypeParts
<1>2. ASSUME NEW l, Goto(p, l)
      PROVE  pc'[p] = l
  BY <1>1, <1>2 DEF Goto, OneSweeper
<1>3. CASE Load(p) \/ Due(p) \/ Begin(p) \/ Lock(p) \/ Copy(p) \/ Finish(p) \/ Stops(p)
            \/ StartRestore(p) \/ EndRestore(p) \/ Select(p)
  <2>1. pc'[p] \in {"idle", "due", "begin", "lock", "refs", "publish", "extract", "select"} \/ pc'[p] = pc[p]
    BY <1>2, <1>3 DEF Load, Due, Begin, Lock, Copy, Finish, Stops, StartRestore, EndRestore, Select, Rest
  <2>2. pc'[p] \notin Published
    BY <1>2, <1>3, <2>1
       DEF Load, Due, Begin, Lock, Copy, Finish, Stops, StartRestore, EndRestore, Select, Rest,
           Published, At
  <2> QED
    BY <2>2, NothingToKnow
<1>4. ASSUME UNCHANGED <<sel, unsaved>>
      PROVE  Selected(p)' = Selected(p) /\ Contents(p)' = Contents(p)
  BY <1>4 DEF Selected, Contents, ToArchive
<1>5. CASE References(p)
  <2>1. CASE At(p, "refs")
    <3>1. pc'[p] = "select"
      BY <1>2, <1>5, <2>1 DEF References, At
    <3> QED
      BY <3>1, NothingToKnow DEF Published
  <2>2. CASE At(p, "recheck")
    <3>1. pc'[p] = "reload"
      BY <1>2, <1>5, <2>2 DEF References, At
    <3> QED
      BY <1>4, <1>5, <2>2, <3>1
         DEF References, At, RunSound, Published, Recorded, Deleting, Chosen, store
  <2> QED
    BY <1>5, <2>1, <2>2 DEF References
<1>6. CASE Listed(p)
  <2>1. CASE ToArchive(p) = {}
    <3>1. pc'[p] = "record" /\ Contents(p) = {}
      BY <1>2, <1>6, <2>1 DEF Listed, Contents
    <3> QED
      BY <1>4, <1>6, <3>1 DEF Listed, RunSound, Published, Recorded, Deleting, Chosen, locals
  <2>2. CASE ToArchive(p) # {}
    <3>1. pc'[p] = "copy"
      BY <1>2, <1>6, <2>2 DEF Listed
    <3> QED
      BY <3>1, NothingToKnow DEF Published
  <2> QED
    BY <2>1, <2>2
<1>7. CASE Publish(p)
  <2>1. pc'[p] = "record" /\ Contents(p) \subseteq saved'
    BY <1>2, <1>7 DEF Publish
  <2>2. Contents(p)' = Contents(p)
    BY <1>4, <1>7 DEF Publish, locals
  <2> QED
    BY <2>1, <2>2 DEF RunSound, Published, Recorded, Deleting, Chosen
<1>8. CASE RecordScratchRun(p)
  <2>1. pc'[p] = "recheck" /\ \E r \in runs' : Contents(p) \subseteq r.entries
    <3>1. [kind |-> Kind(p), start |-> start[p], entries |-> Contents(p)] \in runs'
      BY <1>8 DEF RecordScratchRun
    <3>2. [kind |-> Kind(p), start |-> start[p], entries |-> Contents(p)].entries = Contents(p)
      OBVIOUS
    <3>3. pc'[p] = "recheck"
      BY <1>2, <1>8 DEF RecordScratchRun
    <3> QED
      BY <3>1, <3>2, <3>3
  <2> QED
    BY <1>4, <1>8, <2>1
       DEF RecordScratchRun, At, RunSound, Published, Recorded, Deleting, Chosen, locals
<1>9. CASE Reload(p)
  <2>1. pc'[p] = "check" /\ latest'[p] = policy /\ todo'[p] = Selected(p)
    BY <1>1, <1>2, <1>9 DEF Reload, LocalTypes
  <2> QED
    BY <1>4, <1>9, <2>1 DEF Reload, At, RunSound, Published, Recorded, Deleting, Chosen, store
<1>10. CASE Check(p)
  <2>1. PICK n \in todo[p] :
            /\ todo' = [todo EXCEPT ![p] = @ \ {n}]
            /\ \/ /\ ~Refused(p, n) /\ Unchanged(p, n)
                  /\ clock - Newest(sel[p][n]) >= IdleFor(latest[p], n)
                  /\ cur' = [cur EXCEPT ![p] = n] /\ Goto(p, "stat")
                  /\ checked' = [checked EXCEPT ![p] = clock]
               \/ UNCHANGED <<cur, checked, pc>>
    BY <1>10 DEF Check
  <2>2. todo'[p] \subseteq Selected(p) /\ n \in Selected(p) /\ At(p, "check")
    BY <1>1, <1>10, <2>1 DEF Check, At, RunSound, Deleting, LocalTypes
  <2>3. UNCHANGED <<sel, unsaved, latest, saved, runs, clock>>
    BY <1>10 DEF Check, machine, store
  <2>4. CASE UNCHANGED <<cur, checked, pc>>
    BY <1>4, <2>2, <2>3, <2>4 DEF At, RunSound, Published, Recorded, Deleting, Chosen
  <2>5. CASE /\ ~Refused(p, n) /\ Unchanged(p, n)
             /\ clock - Newest(sel[p][n]) >= IdleFor(latest[p], n)
             /\ cur' = [cur EXCEPT ![p] = n] /\ Goto(p, "stat")
             /\ checked' = [checked EXCEPT ![p] = clock]
    <3>1. pc'[p] = "stat" /\ cur'[p] = n
      BY <1>1, <1>2, <2>5 DEF LocalTypes
    <3>2. ~Refused(p, cur[p])'
      BY <2>3, <2>5, <3>1 DEF Refused
    <3>3. (clock - sel[p][cur[p]].newest >= IdleFor(latest[p], cur[p]))'
      BY <2>3, <2>5, <3>1 DEF Newest, IdleFor
    <3> QED
      BY <1>4, <2>2, <2>3, <3>1, <3>2, <3>3 DEF At, RunSound, Published, Recorded, Deleting, Chosen
  <2> QED
    BY <2>1, <2>4, <2>5
<1>11. CASE Stat(p) \/ Unlink(p) \/ UnlinkFails(p) \/ RecordScratchDeletion(p) \/ ReceiptFails(p)
  <2>1. /\ pc[p] \in Deleting \ {"check"} /\ pc'[p] \in Deleting
        /\ pc'[p] \in Chosen => pc[p] \in Chosen
    BY <1>2, <1>11
       DEF Stat, Unlink, UnlinkFails, RecordScratchDeletion, ReceiptFails, At, Deleting, Chosen
  <2>2. UNCHANGED locals /\ UNCHANGED <<saved, runs, clock>>
    BY <1>11 DEF Stat, Unlink, UnlinkFails, RecordScratchDeletion, ReceiptFails, machine, store
  <2>3. UNCHANGED <<sel, unsaved, latest, todo, cur, checked>>
    BY <2>2 DEF locals
  <2>4. /\ Refused(p, cur[p])' <=> Refused(p, cur[p])
        /\ IdleFor(latest[p], cur[p])' = IdleFor(latest[p], cur[p])
    BY <2>3 DEF Refused, IdleFor
  <2> QED
    BY <1>4, <2>1, <2>2, <2>3, <2>4 DEF RunSound, Published, Recorded, Deleting, Chosen
<1> QED
  BY <1>3, <1>5, <1>6, <1>7, <1>8, <1>9, <1>10, <1>11 DEF Step

\* The policy only gets newer, and a process reads it as it is.
LEMMA PolicyStep ==
    ASSUME TypeOK, NEW p \in Proc, Numbered(pol[p]), Numbered(latest[p]), [Next]_vars
    PROVE  Numbered(pol[p])' /\ Numbered(latest[p])'
<1>1. LocalTypes /\ policy \in Policies
  BY TypeParts DEF TypeOK
<1>2. pol[p] \in Policies /\ latest[p] \in Policies
  BY <1>1 DEF LocalTypes
<1>3. pol[p].edits \in Nat /\ latest[p].edits \in Nat /\ policy.edits \in Nat
  BY <1>1, <1>2, ConstantsAssumption DEF Policies
<1>4. CASE EditPolicy
  <2>1. policy'.edits = policy.edits + 1 /\ UNCHANGED <<pol, latest>>
    BY <1>4 DEF EditPolicy, Owner, locals
  <2> QED
    BY <1>3, <2>1 DEF Numbered
<1>5. ASSUME NEW q \in Proc, Step(q)
      PROVE  Numbered(pol[p])' /\ Numbered(latest[p])'
  <2>1. policy' = policy
    BY <1>5
       DEF Step, Load, Due, Begin, Lock, References, Select, Listed, Copy, Publish, RecordScratchRun,
           Reload, Check, Stat, Unlink, UnlinkFails, RecordScratchDeletion, ReceiptFails, Finish,
           StartRestore, EndRestore, Stops, machine
  <2>2. CASE q # p
    BY <1>5, <2>1, <2>2, Elsewhere DEF Numbered
  <2>3. CASE q = p
    <3>1. Forget(p) => latest'[p] = pol[p]
      BY <1>1 DEF Forget, LocalTypes
    <3>2. /\ pol'[p] \in {pol[p], policy}
          /\ latest'[p] \in {pol[p], latest[p], policy}
      BY <1>1, <1>5, <2>3, <3>1
         DEF Step, Load, Due, Begin, Lock, References, Select, Listed, Copy, Publish,
             RecordScratchRun, Reload, Check, Stat, Unlink, UnlinkFails, RecordScratchDeletion,
             ReceiptFails, Finish, StartRestore, EndRestore, Stops, locals, LocalTypes
    <3>3. Numbered(policy)
      BY <1>3 DEF Numbered
    <3> QED
      BY <2>1, <3>2, <3>3 DEF Numbered
  <2> QED
    BY <2>2, <2>3
<1>6. CASE UNCHANGED <<policy, pol, latest>>
  BY <1>6 DEF Numbered
<1> QED
  BY <1>4, <1>5, <1>6
     DEF Next, Environment, Tick, Write, WriteBelow, Remove, Use, Owner, vars, machine, locals

\* What is deleted from an archived entry was listed before.
LEMMA GoneStep ==
    ASSUME ScratchInv, [Next]_vars
    PROVE  RestorableByReceipt'
<1>1. runs \subseteq runs' /\ RestorableByReceipt
  BY StoreGrows DEF ScratchInv
<1>2. ASSUME NEW p \in Proc, Deleted(p), At(p, "unlink")
      PROVE  RestorableByReceipt'
  <2>1. /\ cur[p] \in Selected(p)
        /\ \E r \in runs : Contents(p) \subseteq r.entries
    BY <1>2 DEF ScratchInv, RunSound, At, Recorded, Published, Deleting
  <2>2. cur[p] \notin unsaved[p] => <<cur[p], sel[p][cur[p]].made>> \in Contents(p)
    BY <2>1 DEF Contents, ToArchive
  <2> SUFFICES ASSUME NEW g \in gone', g.archived
               PROVE  \E r \in runs' : <<g.name, g.made>> \in r.entries
    BY DEF RestorableByReceipt
  <2>3. CASE g \in gone
    BY <1>1, <2>3 DEF RestorableByReceipt
  <2>4. CASE g \notin gone
    <3>1. g.name = cur[p] /\ g.made = sel[p][cur[p]].made /\ cur[p] \notin unsaved[p]
      <4>1. g = [name |-> cur[p], made |-> sel[p][cur[p]].made, archived |-> cur[p] \notin unsaved[p]]
        BY <1>2, <2>4 DEF Deleted
      <4> QED
        BY <4>1
    <3>2. <<g.name, g.made>> \in Contents(p)
      BY <2>2, <3>1
    <3>3. PICK r \in runs : Contents(p) \subseteq r.entries
      BY <2>1
    <3> QED
      BY <1>1, <3>2, <3>3
  <2> QED
    BY <2>3, <2>4
<1>3. CASE gone' = gone
  BY <1>1, <1>3 DEF RestorableByReceipt
<1>4. gone' = gone \/ \E p \in Proc : Deleted(p) /\ At(p, "unlink")
  <2>1. ASSUME NEW p \in Proc, Step(p)
        PROVE  gone' = gone \/ (Deleted(p) /\ At(p, "unlink"))
    BY <2>1
       DEF Step, Load, Due, Begin, Lock, References, Select, Listed, Copy, Publish, RecordScratchRun,
           Reload, Check, Stat, Unlink, UnlinkFails, RecordScratchDeletion, ReceiptFails, Finish,
           StartRestore, EndRestore, Stops
  <2> QED
    BY <2>1 DEF Next, Environment, Tick, Write, WriteBelow, Remove, Use, EditPolicy, Owner, vars
<1> QED
  BY <1>2, <1>3, <1>4

\* A write of the owner is later than every look at the entry, and a look finds it as selected.
LEMMA LookStep ==
    ASSUME TypeOK, TypeOK', NEW p \in Proc, Looked(p), [Next]_vars
    PROVE  Looked(p)'
<1>1. OneSweeper /\ LocalTypes /\ MachineTypes
  BY TypeParts
<1>2. checked[p] \in Int /\ clock \in Int /\ clock' \in Int /\ cur[p] \in Name
  BY <1>1, ConstantsAssumption DEF LocalTypes, MachineTypes, Times, TypeOK
<1>3. clock <= clock'
  BY StoreGrows
<1>4. ASSUME pc'[p] = pc[p], cur'[p] = cur[p], sel'[p] = sel[p], checked'[p] = checked[p],
             \/ entry'[cur[p]] \in {entry[cur[p]], NoEntry}
             \/ entry'[cur[p]].made = clock /\ entry'[cur[p]].newest = clock
      PROVE  Looked(p)'
  BY <1>2, <1>3, <1>4 DEF Looked
<1>5. ASSUME NEW q \in Proc, q # p, Step(q)
      PROVE  Looked(p)'
  <2>1. /\ pc'[p] = pc[p] /\ sel'[p] = sel[p] /\ cur'[p] = cur[p] /\ checked'[p] = checked[p]
    BY <1>5, Elsewhere
  <2>2. CASE pc[p] \notin Chosen
    BY <2>1, <2>2 DEF Looked
  <2>3. CASE pc[p] \in Chosen
    <3>1. pc[q] \notin Working
      BY <1>1, <1>5, <2>3 DEF OneSweeper, Chosen, Working
    <3>2. entry' = entry
      BY <1>5, <3>1
         DEF Step, Load, Due, Begin, Lock, References, Select, Listed, Copy, Publish, RecordScratchRun,
             Reload, Check, Stat, Unlink, UnlinkFails, RecordScratchDeletion, ReceiptFails, Finish,
             StartRestore, EndRestore, Stops, machine, At, Working
    <3> QED
      BY <1>4, <2>1, <3>2
  <2> QED
    BY <2>2, <2>3
<1>6. CASE Step(p)
  <2>1. ASSUME NEW l, Goto(p, l)
        PROVE  pc'[p] = l
    BY <1>1, <2>1 DEF Goto, OneSweeper
  <2>2. CASE Check(p)
    <3>1. PICK n \in todo[p] :
              \/ /\ Unchanged(p, n) /\ cur' = [cur EXCEPT ![p] = n] /\ Goto(p, "stat")
                 /\ checked' = [checked EXCEPT ![p] = clock]
              \/ UNCHANGED <<cur, checked, pc>>
      BY <2>2 DEF Check
    <3>2. pc[p] = "check" /\ UNCHANGED <<clock, entry, sel>>
      BY <2>2 DEF Check, At, machine
    <3>3. CASE UNCHANGED <<cur, checked, pc>>
      BY <3>2, <3>3 DEF Looked, Chosen
    <3>4. CASE /\ Unchanged(p, n) /\ cur' = [cur EXCEPT ![p] = n] /\ Goto(p, "stat")
               /\ checked' = [checked EXCEPT ![p] = clock]
      <4>1. cur'[p] = n /\ checked'[p] = clock /\ entry[n] = sel[p][n]
        BY <1>1, <3>4 DEF Unchanged, LocalTypes
      <4> QED
        BY <1>2, <3>2, <4>1 DEF Looked
    <3> QED
      BY <3>1, <3>3, <3>4
  <2>3. CASE Stat(p)
    <3>1. pc[p] \in Chosen /\ UNCHANGED <<clock, entry, sel, cur, checked>>
      BY <2>3 DEF Stat, At, Chosen, machine, locals
    <3> QED
      BY <3>1 DEF Looked
  <2>4. CASE ~Check(p) /\ ~Stat(p)
    <3>1. pc'[p] \notin Chosen
      BY <1>6, <2>1, <2>4
         DEF Step, Load, Due, Begin, Lock, References, Select, Listed, Copy, Publish, RecordScratchRun,
             Reload, Unlink, UnlinkFails, RecordScratchDeletion, ReceiptFails, Finish, StartRestore,
             EndRestore, Stops, At, Chosen, Rest
    <3> QED
      BY <3>1 DEF Looked
  <2> QED
    BY <2>2, <2>3, <2>4
<1>7. CASE Environment
  <2>1. UNCHANGED <<pc, cur, sel, checked>>
    BY <1>7 DEF Environment, Tick, Write, WriteBelow, Remove, Use, EditPolicy, Owner, locals
  <2>2. \/ entry'[cur[p]] \in {entry[cur[p]], NoEntry}
        \/ entry'[cur[p]].made = clock /\ entry'[cur[p]].newest = clock
    <3>1. CASE entry' = entry
      BY <3>1
    <3>2. ASSUME NEW n \in Name, NEW e, entry' = [entry EXCEPT ![n] = e],
                 e = NoEntry \/ (e.made = clock /\ e.newest = clock)
          PROVE  \/ entry'[cur[p]] \in {entry[cur[p]], NoEntry}
                 \/ entry'[cur[p]].made = clock /\ entry'[cur[p]].newest = clock
      BY <1>1, <1>2, <3>2 DEF MachineTypes
    <3>3. ASSUME NEW n \in Name, Write(n)
          PROVE  \/ entry'[cur[p]] \in {entry[cur[p]], NoEntry}
                 \/ entry'[cur[p]].made = clock /\ entry'[cur[p]].newest = clock
      <4>1. entry' = [entry EXCEPT ![n] = [made |-> clock, top |-> clock, newest |-> clock]]
        BY <3>3 DEF Write
      <4> QED
        BY <3>2, <4>1
    <3>4. ASSUME NEW n \in Name, WriteBelow(n)
          PROVE  \/ entry'[cur[p]] \in {entry[cur[p]], NoEntry}
                 \/ entry'[cur[p]].made = clock /\ entry'[cur[p]].newest = clock
      <4>1. entry' = [entry EXCEPT ![n] = [entry[n] EXCEPT !.made = clock, !.newest = clock]]
        BY <1>1, <3>4 DEF WriteBelow, MachineTypes
      <4>2. entry[n] \in Entries
        BY <1>1 DEF MachineTypes
      <4>3. /\ [entry[n] EXCEPT !.made = clock, !.newest = clock].made = clock
            /\ [entry[n] EXCEPT !.made = clock, !.newest = clock].newest = clock
        BY <4>2 DEF Entries
      <4> QED
        BY <3>2, <4>1, <4>3
    <3>5. ASSUME NEW n \in Name, Remove(n)
          PROVE  \/ entry'[cur[p]] \in {entry[cur[p]], NoEntry}
                 \/ entry'[cur[p]].made = clock /\ entry'[cur[p]].newest = clock
      BY <3>2, <3>5 DEF Remove
    <3> QED
      BY <1>7, <3>1, <3>3, <3>4, <3>5 DEF Environment, Tick, Use, EditPolicy
  <2> QED
    BY <1>4, <2>1, <2>2
<1>8. CASE UNCHANGED vars
  BY <1>4, <1>8 DEF vars, machine, locals
<1> QED
  BY <1>5, <1>6, <1>7, <1>8 DEF Next

\* Every step keeps the invariant.
LEMMA ScratchStep == ASSUME ScratchInv, [Next]_vars PROVE ScratchInv'
<1>1. TypeOK /\ TypeOK'
  BY TypeStep DEF ScratchInv
<1>2. ASSUME NEW p \in Proc
      PROVE  RunSound(p)'
  <2>1. RunSound(p) /\ saved \subseteq saved' /\ runs \subseteq runs' /\ clock <= clock'
    BY <1>1, StoreGrows DEF ScratchInv
  <2>2. CASE Step(p)
    BY <1>1, <2>1, <2>2, OwnStep
  <2>3. ASSUME NEW q \in Proc, q # p, Step(q)
        PROVE  RunSound(p)'
    BY <1>1, <2>1, <2>3, Elsewhere, RunStands
  <2>4. CASE UNCHANGED <<pc, locals>>
    BY <1>1, <2>1, <2>4, RunStands DEF locals
  <2> QED
    BY <2>2, <2>3, <2>4
       DEF Next, Environment, Tick, Write, WriteBelow, Remove, Use, EditPolicy, Owner, vars
<1>3. ASSUME NEW p \in Proc
      PROVE  Numbered(pol[p])' /\ Numbered(latest[p])'
  BY <1>1, <1>3, PolicyStep DEF ScratchInv
<1>4. RestorableByReceipt'
  BY GoneStep
<1>5. ASSUME NEW p \in Proc
      PROVE  Looked(p)'
  BY <1>1, <1>5, LookStep DEF ScratchInv
<1> QED
  BY <1>1, <1>2, <1>3, <1>4, <1>5 DEF ScratchInv

\* The invariant holds throughout.
LEMMA ScratchHolds == Spec => []ScratchInv
BY ScratchStarts, ScratchStep, PTL DEF Spec

-----------------------------------------------------------------------------
(* Theorems. *)

\* Whatever the owner does between the steps of a sweep or a restore, the lock is held by
\* exactly the one process that works, and every variable keeps its type (cli/scratch.go).
THEOREM TypeCorrect == Spec => []TypeOK
BY ScratchHolds, PTL DEF ScratchInv

\* Whenever a run dies, what was archived and then deleted is listed in a recorded run, which
\* `janitor scratch restore` can name: the run is recorded after its archive is published and
\* before anything is deleted (internal/cli/scratch.go).
THEOREM DeletedIsListed == Spec => []RestorableByReceipt
BY ScratchHolds, PTL DEF ScratchInv

\* What a process knows when it deletes.
LEMMA DeleterKnows ==
    ASSUME ScratchInv, [Next]_vars, NEW p \in Proc, Deletes(p)
    PROVE  /\ Contents(p) \subseteq saved /\ cur[p] \in Selected(p)
           /\ ~Refused(p, cur[p]) /\ latest[p].active
           /\ clock - sel[p][cur[p]].newest >= IdleFor(latest[p], cur[p])
BY DEF ScratchInv, RunSound, Deletes, At, Published, Deleting, Chosen

\* What it deletes is what it selected, unless it was written after the last look at it.
LEMMA DeletesWhatItSaw ==
    ASSUME ScratchInv, [Next]_vars, NEW p \in Proc, Deletes(p)
    PROVE  \/ entry[cur[p]] = sel[p][cur[p]]
           \/ entry[cur[p]].made >= checked[p] /\ entry[cur[p]].newest >= checked[p]
<1>1. Looked(p) /\ pc[p] \in Chosen /\ pc[p] = "unlink" /\ pc'[p] # pc[p] /\ entry' # entry
  BY DEF ScratchInv, Deletes, At, Chosen
<1>2. OneSweeper /\ MachineTypes
  BY TypeParts DEF ScratchInv
<1>3. Step(p)
  <2>1. UNCHANGED pc \/ \E q \in Proc : Step(q)
    BY DEF Next, Environment, Tick, Write, WriteBelow, Remove, Use, EditPolicy, Owner, vars
  <2> QED
    BY <1>1, <2>1, Elsewhere DEF ScratchInv
<1>4. Unlink(p) \/ UnlinkFails(p)
  BY <1>1, <1>3
     DEF Step, Load, Due, Begin, Lock, References, Select, Listed, Copy, Publish, RecordScratchRun,
         Reload, Check, Stat, RecordScratchDeletion, ReceiptFails, Finish, StartRestore, EndRestore,
         Stops, machine, At
<1>5. entry[cur[p]] # NoEntry
  BY <1>1, <1>4 DEF Unlink, UnlinkFails
<1> QED
  BY <1>1, <1>5 DEF Looked

\* Whatever the owner does to the tree and to the policy between selection, copy and deletion,
\* what a run deletes was archived as it is, or is regenerable under the policy read immediately
\* before the deletions, or was written between the last look at the entry (scratch.go:404) and
\* its removal (scratch.go:416).
THEOREM DeletionIsSaved == Spec => SavedOrRegenerable
<1>1. ASSUME ScratchInv, [Next]_vars, NEW p \in Proc, Deletes(p)
      PROVE  \/ <<cur[p], entry[cur[p]].made>> \in saved
             \/ latest[p].class[cur[p]] = "regenerable"
             \/ entry[cur[p]].made >= checked[p]
  <2>1. CASE entry[cur[p]] = sel[p][cur[p]]
    BY <1>1, <2>1, DeleterKnows DEF Contents, ToArchive, Refused
  <2> QED
    BY <1>1, <2>1, DeletesWhatItSaw
<1>2. ScratchInv /\ [Next]_vars =>
        [\A p \in Proc : Deletes(p) =>
            \/ <<cur[p], entry[cur[p]].made>> \in saved
            \/ latest[p].class[cur[p]] = "regenerable"
            \/ entry[cur[p]].made >= checked[p]]_vars
  BY <1>1
<1> QED
  BY <1>2, ScratchHolds, PTL DEF Spec, SavedOrRegenerable

\* Nothing in a deleted entry has changed within the idle time of the policy read last, the
\* restore that put it there included, but for what was written between the last look at the
\* entry (scratch.go:404) and its removal (scratch.go:416).
THEOREM DeletionIsIdle == Spec => IdleHonoured
<1>1. ASSUME ScratchInv, [Next]_vars, NEW p \in Proc, Deletes(p)
      PROVE  \/ clock - entry[cur[p]].newest >= IdleFor(latest[p], cur[p])
             \/ entry[cur[p]].newest >= checked[p]
  BY <1>1, DeleterKnows, DeletesWhatItSaw
<1>2. ScratchInv /\ [Next]_vars =>
        [\A p \in Proc : Deletes(p) =>
            \/ clock - entry[cur[p]].newest >= IdleFor(latest[p], cur[p])
            \/ entry[cur[p]].newest >= checked[p]]_vars
  BY <1>1
<1> QED
  BY <1>2, ScratchHolds, PTL DEF Spec, IdleHonoured

\* An entry that the policy file kept when it was read again, and still keeps, is not deleted,
\* although it was selected under another policy.
THEOREM DeletionObeysPolicy == Spec => LatestPolicyObeyed
<1>1. ASSUME ScratchInv, [Next]_vars, NEW p \in Proc, Deletes(p), latest[p].edits = policy.edits
      PROVE  policy.class[cur[p]] \notin Left /\ policy.active
  <2>1. latest[p] = policy
    BY <1>1 DEF ScratchInv, Numbered
  <2> QED
    BY <1>1, <2>1, DeleterKnows DEF Refused
<1>2. ScratchInv /\ [Next]_vars =>
        [\A p \in Proc : Deletes(p) /\ latest[p].edits = policy.edits
            => policy.class[cur[p]] \notin Left /\ policy.active]_vars
  BY <1>1
<1> QED
  BY <1>2, ScratchHolds, PTL DEF Spec, LatestPolicyObeyed

=============================================================================
