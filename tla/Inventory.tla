----------------------------- MODULE Inventory -----------------------------
(***************************************************************************)
(* From the filesystem to a move: the collectors of a scan                 *)
(* (internal/collect) run one after the other while the owner and the      *)
(* programs of the machine go on; `janitor plan` turns the inventory into  *)
(* a plan (Planning); and before `janitor apply --quarantine` moves        *)
(* anything it collects again around the target, refuses on any gap in     *)
(* that evidence, and revalidates (internal/safety/revalidate.go,          *)
(* internal/action/retention.go).                                          *)
(*                                                                         *)
(* What a path is used by is a holder: a process, a registered agent, a    *)
(* systemd unit, a definition file (cron, PM2, configuration), an enabled  *)
(* gitmoot pipeline, a stagehand pipeline, a gitmoot job.  A collector     *)
(* first lists its holders and then reads them one at a time.  The         *)
(* approvals, the journal and the locks are CleanupEngine's, concurrent    *)
(* scans ScanHistory's, the making of archives CategoryArchives'.          *)
(***************************************************************************)
EXTENDS Planning

CONSTANTS
    Layout,         \* what the machine may be like: entities by path, policies, holders,
                    \* and how much its owner and failures may do (events), and the scans
    Holder, Uses,   \* the holders and the kind of each
    Spot, Nowhere,  \* where a holder may be
    AdviceKind,     \* what a model may answer
    MaxDirEntries,  \* limits.max_dir_entries
    MaxAdvised      \* bound on the entries a model answers for

HolderKinds == {"process", "agent", "unit", "definition", "pipeline", "stagehand", "job"}

ASSUME InventoryAssumption ==
    /\ Uses \in [Holder -> HolderKinds] /\ Nowhere \notin Spot
    /\ MaxDirEntries \in Nat \ {0} /\ MaxAdvised \in Nat
    /\ \A l \in Layout :
        /\ l.at \in [Holder -> Spot \cup {Nowhere}] /\ l.spots \in [Holder -> SUBSET (Spot \cup {Nowhere})]
        /\ l.events \in Nat /\ l.scans \in Nat
        /\ l.policies # {} /\ l.policies \subseteq Policy /\ \A pol \in l.policies : Finite(pol)
        /\ DOMAIN l.entity \subseteq Paths \ {<<>>} /\ l.entity \in [DOMAIN l.entity -> Entity]
        /\ \A p \in DOMAIN l.entity : l.entity[p].git # "none" => l.entity[p].kind = "dir"

VARIABLES
    machine,    \* the layout
    version,    \* the object at each path, 0 if there is none
    work,       \* paths of repositories with uncommitted work
    at,         \* where each holder is
    file,       \* the policy file
    events,
    pc,
    obs,        \* the collection under way
    inv,        \* the stored inventory
    plan,       \* the stored plan
    steady      \* what has held since apply began to collect: holders that stayed, dirty paths

world == <<machine, version, work, at, file, events>>
vars  == <<world, pc, obs, inv, plan, steady>>

Path == DOMAIN machine.entity
None == [none |-> TRUE]
Idle == [pol |-> None, target |-> <<>>, todo |-> <<>>, entries |-> {}, reported |-> {}, gap |-> {},
         listed |-> 0, unread |-> {}, refs |-> {}]
Nothing == [held |-> {}, dirty |-> {}]
Scans == IF inv = None THEN 0 ELSE inv.scan

Init ==
    /\ machine \in Layout
    /\ version = [p \in Path |-> IF machine.entity[p].present THEN 1 ELSE 0]
    /\ work = {} /\ at = machine.at /\ file \in machine.policies /\ events = 0
    /\ pc = "idle" /\ obs = Idle /\ inv = None /\ plan = None /\ steady = Nothing

-----------------------------------------------------------------------------
(* What goes on meanwhile *)

Happens == events < machine.events /\ events' = events + 1
Leaves(h) == steady' = [steady EXCEPT !.held = {r \in @ : r.of # h}]

\* A process, unit, pipeline ... comes to refer to a path, or leaves it.
Turn(h, where) ==
    /\ Happens /\ at[h] # where
    /\ at' = [at EXCEPT ![h] = where] /\ Leaves(h)
    /\ UNCHANGED <<machine, version, work, file, pc, obs, inv, plan>>

\* A path is written to or replaced, or appears.
Write(p) ==
    /\ Happens /\ version' = [version EXCEPT ![p] = @ + 1]
    /\ UNCHANGED <<machine, work, at, file, pc, obs, inv, plan, steady>>

Work(p) ==
    /\ Happens /\ machine.entity[p].git # "none" /\ version[p] > 0 /\ p \notin work /\ work' = work \cup {p}
    /\ UNCHANGED <<machine, version, at, file, pc, obs, inv, plan, steady>>

EditPolicy(pol) ==
    /\ Happens /\ pol # file /\ file' = pol
    /\ UNCHANGED <<machine, version, work, at, pc, obs, inv, plan, steady>>

-----------------------------------------------------------------------------
(* The walk (internal/collect/filesystem.go) *)

Children(d) == {p \in Path : version[p] > 0 /\ Len(p) = Len(d) + 1 /\ Parent(p) = d}
Oversize == {Parent(p) : p \in {q \in Path : Cardinality(Children(Parent(q))) > MaxDirEntries}}

\* A listing beyond the bound is cut, in whatever order the directory gave its names.
Cuts == {cut \in [Oversize -> SUBSET Path] :
            \A d \in Oversize : cut[d] \subseteq Children(d) /\ Cardinality(cut[d]) = MaxDirEntries}
Listing(d, cut) == IF d \in Oversize THEN cut[d] ELSE Children(d)

\* What the walk of one root reaches: it enters no unreadable directory, no symlink, and no
\* other filesystem unless the root allows it.
Reached(root, cut, bad) ==
    {p \in Path : /\ PathWithin(p, root.path) /\ Len(p) \in Len(root.path) + 1 .. Len(root.path) + root.depth
                  /\ \A n \in Len(root.path) + 1 .. Len(p) : LET q == SubSeq(p, 1, n) IN
                        /\ q \in Listing(Parent(q), cut)
                        /\ n < Len(p) => /\ q # bad /\ machine.entity[q].kind = "dir"
                                         /\ machine.entity[q].mount => root.cross}

\* Mutant: only the root a walk started from protects.
Mut_InArchiveOnlyRoot(pol, p) == FALSE

\* Protection follows containment, never the root a walk started from.
InArchiveOnlyRoot(pol, p) == \E i \in DOMAIN pol.roots : pol.roots[i].archiveOnly /\ PathWithin(p, pol.roots[i].path)

Linked(p, root) ==
    CASE machine.entity[p].kind # "symlink" -> "no"
      [] ~root.follow -> "unresolved"
      [] OTHER -> IF PathWithin(machine.entity[p].to, root.path) THEN "inside" ELSE "outside"

Unread == {"lstat_failed", "directory_not_listed"}

\* Of a path that cannot be read nothing is known, or only not what it contains.
EntryFor(p, root, bad, how, pol) ==
    [path |-> p, root |-> root.path,
     is |-> IF p = bad /\ how = "lstat_failed" THEN [machine.entity[p] EXCEPT !.kind = "unknown"]
            ELSE machine.entity[p],
     version |-> IF p = bad /\ how = "lstat_failed" THEN 0 ELSE version[p],
     link |-> Linked(p, root), git |-> NoGit, signals |-> {}, archived |-> FALSE,
     unknown |-> (IF Parent(p) \in Oversize THEN {"directory_truncated"} ELSE {})
            \cup (IF p = bad THEN {how} ELSE {})
            \cup (IF p # bad /\ Linked(p, root) \in {"unresolved", "outside"} THEN {"symlink"} ELSE {}),
     prot |-> (IF root.archiveOnly \/ InArchiveOnlyRoot(pol, p) THEN {"archive_only_root"} ELSE {})
         \cup (IF root.reportOnly THEN {"report_only_root"} ELSE {})]

\* What is not read, the walk came to; it fails to list only what it goes into.
Walk(root, cut, bad, how) ==
    LET seen == Reached(root, cut, bad) IN
    /\ IF bad = <<>> THEN UNCHANGED events
       ELSE /\ bad \in seen /\ Happens
            /\ how = "directory_not_listed" =>
                 /\ machine.entity[bad].kind = "dir" /\ Len(bad) < Len(root.path) + root.depth
                 /\ machine.entity[bad].mount => root.cross
    /\ obs' = [obs EXCEPT !.todo = Tail(@),
         !.entries = @ \cup {EntryFor(p, root, bad, how, obs.pol) : p \in seen},
         !.reported = @ \cup (IF root.reportOnly THEN seen ELSE {}),
         !.gap = @ \cup (IF bad # <<>> \/ \E p \in seen : Parent(p) \in Oversize THEN {"filesystem"} ELSE {})]

\* One root is walked.
WalkRoot ==
    /\ pc = "walk" /\ obs.todo # <<>>
    /\ \E cut \in Cuts, bad \in Path \cup {<<>>}, how \in Unread : Walk(Head(obs.todo), cut, bad, how)
    /\ UNCHANGED <<machine, version, work, at, file, pc, inv, plan, steady>>

\* Every repository is inspected, by commands that may time out: an unobserved repository
\* is never presented as clean.
Observed(e, slow) ==
    IF e.is.kind # "dir" \/ e.is.git = "none" THEN e
    ELSE [e EXCEPT !.git = [kind |-> e.is.git, degraded |-> e.path = slow, idle |-> e.is.idle,
                            work |-> IF e.path \in work /\ e.path # slow THEN {"dirty"} ELSE {}],
                   !.unknown = @ \cup (IF e.path = slow THEN {"git"} ELSE {}),
                   !.prot = @ \cup (IF e.path \in work /\ e.path # slow THEN {"dirty_repository"} ELSE {})]

CollectGit ==
    /\ pc = "walk" /\ obs.todo = <<>>
    /\ \E slow \in {e.path : e \in {f \in obs.entries : f.is.git # "none"}} \cup {<<>>} :
        /\ IF slow = <<>> THEN UNCHANGED events ELSE Happens
        /\ obs' = [obs EXCEPT !.entries = {Observed(e, slow) : e \in obs.entries}]
    /\ pc' = "processes"
    /\ UNCHANGED <<machine, version, work, at, file, inv, plan, steady>>

-----------------------------------------------------------------------------
(* The reference collectors, each behind a deadline (runBounded) *)

Gatherers == [processes |-> <<"process">>, agents |-> <<"agent">>,
              services  |-> <<"unit", "definition", "pipeline", "stagehand">>, gitmoot |-> <<"job">>]
After == [processes |-> "agents", agents |-> "services", services |-> "gitmoot", gitmoot |-> "bind"]

\* What a source says of a holder.  A pipeline of stagehand names paths it will only know when
\* it runs: the directory its runs stay in is named, with all that is inside.
Reference(h) == [of |-> h, path |-> at[h], subtree |-> Uses[h] = "stagehand"]

\* A reference protects what contains it, and what is inside it if its subtree is named.
Covers(ref, p) == PathWithin(ref.path, p) \/ (ref.subtree /\ PathWithin(p, ref.path))

Present(kind) == {h \in Holder : Uses[h] = kind /\ at[h] # Nowhere}
Lists(kind) ==
    /\ pc \in DOMAIN Gatherers /\ obs.unread = {} /\ obs.listed < Len(Gatherers[pc])
    /\ kind = Gatherers[pc][obs.listed + 1]

\* Processes, units, definitions and stagehand's pipelines are listed, and then read one
\* after the other.
ListHolders(kind) ==
    /\ Lists(kind) /\ kind \in {"process", "unit", "definition", "stagehand"}
    /\ obs' = [obs EXCEPT !.listed = @ + 1, !.unread = Present(kind)]
    /\ UNCHANGED <<world, pc, inv, plan, steady>>

\* One answer tells of all.
Answered(kind) ==
    /\ Lists(kind)
    /\ obs' = [obs EXCEPT !.listed = @ + 1, !.refs = @ \cup {Reference(h) : h \in Present(kind)}]
    /\ UNCHANGED <<world, pc, inv, plan, steady>>

AskAgents      == Answered("agent")
QueryPipelines == Answered("pipeline")
QueryGitmoot   == Answered("job")

\* The source cannot be opened, does not answer, or says what cannot be understood.
SourceFails(kind) ==
    /\ Lists(kind) /\ Happens
    /\ obs' = [obs EXCEPT !.listed = @ + 1, !.gap = @ \cup {pc}]
    /\ UNCHANGED <<machine, version, work, at, file, pc, inv, plan, steady>>

\* What has gone since it was listed tells nothing, or leaves a gap.
Take(h, gone) ==
    /\ obs' = [obs EXCEPT !.unread = @ \ {h},
            !.refs = @ \cup (IF at[h] = Nowhere THEN {} ELSE {Reference(h)}),
            !.gap  = @ \cup (IF at[h] = Nowhere THEN gone ELSE {})]
    /\ UNCHANGED <<world, pc, inv, plan, steady>>

\* A process that has exited holds nothing.
ReadProcess(h) == h \in obs.unread /\ Uses[h] = "process" /\ Take(h, {})

\* A unit must be the file that was listed, before and after it is read.
ReadUnit(h) == h \in obs.unread /\ Uses[h] = "unit" /\ Take(h, {pc})

\* A PM2 dump, a configuration or a crontab named by itself names nothing when it is not there;
\* a file of a directory of crontabs is like a unit.
ReadDefinition(h) == h \in obs.unread /\ Uses[h] = "definition" /\ Take(h, {})

\* A pipeline of stagehand must still be there.
ReadStagehand(h) == h \in obs.unread /\ Uses[h] = "stagehand" /\ Take(h, {pc})

\* A process that may not be inspected, a definition that changes under the reader, an alias
\* that does not lead to a unit that was read.
ReadFails(h) ==
    /\ h \in obs.unread /\ Happens
    /\ obs' = [obs EXCEPT !.unread = @ \ {h}, !.gap = @ \cup {pc}]
    /\ UNCHANGED <<machine, version, work, at, file, pc, inv, plan, steady>>

AttachReferences(entries, refs) ==
    {IF \E r \in refs : Covers(r, e.path) THEN [e EXCEPT !.prot = @ \cup {"reference"}] ELSE e : e \in entries}

\* The ledger names exact paths.  In gitmoot's home everything is its own, and what it has
\* no record of is unknown; elsewhere a record is a reason to know nothing.  A cache with an
\* owner, and an evidence export, are held by any work that has not ended, whatever its path.
AttachGitmoot(entries, refs, failed, pol) ==
    {LET named  == \E r \in refs : r.path = e.path
         inside == \E d \in pol.home : PathWithin(e.path, d)
         owed   == e.path \in pol.recovery /\ (failed \/ refs # {})
     IN IF ~inside /\ (~named \/ failed) /\ ~owed THEN e
        ELSE IF inside /\ named /\ ~failed /\ e.is.kind # "symlink"
             THEN [e EXCEPT !.signals = @ \cup {"gitmoot"}, !.prot = @ \cup {"owning_job"},
                            !.unknown = IF owed THEN @ \cup {"gitmoot"} ELSE @]
        ELSE [e EXCEPT !.unknown = @ \cup {"gitmoot"}] : e \in entries}

Attach(refs, gap) ==
    obs' = [obs EXCEPT !.listed = 0, !.unread = {}, !.refs = {}, !.gap = gap,
              !.entries = IF pc = "gitmoot" THEN AttachGitmoot(@, refs, pc \in gap, obs.pol)
                          ELSE AttachReferences(@, refs)]

\* The collector publishes in time.
Publish ==
    /\ pc \in DOMAIN Gatherers /\ obs.unread = {} /\ obs.listed = Len(Gatherers[pc])
    /\ Attach(obs.refs, obs.gap) /\ pc' = After[pc]
    /\ UNCHANGED <<world, inv, plan, steady>>

\* Mutant: what was gathered before the deadline is published.
Mut_TimesOut ==
    /\ pc \in DOMAIN Gatherers /\ Happens
    /\ Attach(obs.refs, obs.gap) /\ pc' = After[pc]
    /\ UNCHANGED <<machine, version, work, at, file, inv, plan, steady>>

\* The deadline passes first: whatever was gathered is dropped and the source is unknown.
\* A collector cut short by the deadline is never published, however much it has read.
TimesOut ==
    /\ pc \in DOMAIN Gatherers /\ Happens
    /\ Attach({}, obs.gap \cup {pc}) /\ pc' = After[pc]
    /\ UNCHANGED <<machine, version, work, at, file, inv, plan, steady>>

-----------------------------------------------------------------------------
(* Archives of released workspaces, and the end of a collection *)

Blocked(e, but) == e.prot \ but # {} \/ e.unknown # {}

\* A released path is kept as evidence unless nothing else protects it and its pinned archive
\* is of exactly the tree that is there.  That of a category is the one authority an
\* archive_only root accepts.
Bound(e, rule, all) ==
    /\ rule.expiry /\ e.is.kind = "dir" /\ e.version = machine.sealed[e.path]
    /\ \A f \in all : f.path = e.path => ~Blocked(f, IF rule.category THEN {"archive_only_root"} ELSE {})

Bind(e, all, pol) ==
    LET rules == {r \in pol.released : r.path = e.path}
        above == \E r \in pol.released : r.path # e.path /\ PathWithin(r.path, e.path)
        kept  == [e EXCEPT !.prot = @ \cup (IF above THEN {"durable_evidence"} ELSE {})]
    IN IF rules = {} THEN kept
       ELSE LET rule == CHOOSE r \in rules : TRUE IN
            IF ~above /\ Bound(e, rule, all)
            THEN [e EXCEPT !.archived = TRUE, !.prot = IF rule.category THEN @ \ {"archive_only_root"} ELSE @]
            ELSE [kept EXCEPT !.prot = @ \cup {"durable_evidence"}]

\* Mutant: the entry of the longest root, with its own protections only.
Mut_Merge(entries) ==
    {CHOOSE f \in entries : f.path = p /\ \A g \in entries : g.path = p => Len(g.root) <= Len(f.root)
        : p \in {f.path : f \in entries}}

\* Overlapping roots list a path more than once: the entry of the longest root is kept, with
\* the evidence and the protections of all.
Merge(entries) ==
    {LET same == {f \in entries : f.path = p}
         e    == CHOOSE f \in same : \A g \in same : Len(g.root) <= Len(f.root)
     IN [e EXCEPT !.unknown = UNION {f.unknown : f \in same}, !.prot = UNION {f.prot : f \in same},
                  !.signals = UNION {f.signals : f \in same}] : p \in {f.path : f \in entries}}

Collected == Merge({Bind(e, obs.entries, obs.pol) : e \in obs.entries})

\* A scan stores what it has, gaps or not.
EndScan ==
    /\ pc = "bind" /\ obs.target = <<>>
    /\ inv' = [scan |-> Scans + 1, pol |-> obs.pol,
               entries |-> Collected, reported |-> obs.reported]
    /\ pc' = "idle" /\ obs' = Idle
    /\ UNCHANGED <<world, plan, steady>>

\* Git alone may be incomplete: what it could not observe blocks its own entry.
EvidenceGap == obs.gap \cap {"filesystem", "processes", "services", "agents", "gitmoot"} # {}

Planned(p) == CHOOSE e \in inv.entries : e.path = p

\* Every guard again, on what is there now, and nothing may have changed since the plan.
Revalidated ==
    \E e \in Collected : /\ e.path = obs.target /\ ~Refused(e, obs.pol)
                         /\ e.version = Planned(e.path).version

EndRecheck ==
    /\ pc = "bind" /\ obs.target # <<>>
    /\ IF ~EvidenceGap /\ Revalidated
       THEN pc' = "move" /\ UNCHANGED <<obs, steady>>
       ELSE pc' = "idle" /\ obs' = Idle /\ steady' = Nothing
    /\ UNCHANGED <<world, inv, plan>>

-----------------------------------------------------------------------------
(* The commands *)

\* janitor scan: a fresh inventory of the roots of the policy.
StartScan ==
    /\ pc = "idle" /\ Scans < machine.scans
    /\ pc' = "walk" /\ obs' = [Idle EXCEPT !.pol = file, !.todo = file.roots]
    /\ UNCHANGED <<world, inv, plan, steady>>

\* janitor plan: on the latest inventory, under the policy of the file; a model may answer
\* for any of the ambiguous entries.
Plan ==
    /\ pc = "idle" /\ inv # None
    /\ LET ambiguous == {e.path : e \in {f \in inv.entries : Evaluate(f, file).ambiguous}} IN
       \E advised \in {s \in SUBSET ambiguous : Cardinality(s) <= MaxAdvised} : \E advice \in [advised -> AdviceKind] :
           plan' = Build(inv.scan, inv.entries, file, advice)
    /\ UNCHANGED <<world, pc, obs, inv, steady>>

\* janitor apply --quarantine, of one approved action (CleanupEngine has the batches): the
\* plan must be of this inventory and this policy, and nothing moves across filesystems.
\* The directory of the target is collected, one level deep, as under no configured root.
Apply ==
    /\ pc = "idle" /\ plan # None /\ VerifyBinding(plan, inv.scan, inv.entries, file)
    /\ file.target = "same"
    /\ \E a \in {b \in plan.actions : b.kind \in {"quarantine", "delete_candidate"}} :
        obs' = [Idle EXCEPT !.pol = file, !.target = a.path,
                  !.todo = << [path |-> Parent(a.path), depth |-> 1, reportOnly |-> FALSE,
                               archiveOnly |-> FALSE, follow |-> TRUE, cross |-> FALSE] >>]
    /\ pc' = "walk"
    /\ steady' = [held |-> UNION {{Reference(h) : h \in Present(kind)} : kind \in HolderKinds}, dirty |-> work]
    /\ UNCHANGED <<world, inv, plan>>

\* The rename is of the object that was revalidated: what has been written to it since goes
\* along, but not what has replaced it.  What it contains goes with it.
Move ==
    /\ pc = "move"
    /\ \E replaced \in BOOLEAN :
        /\ replaced => version[obs.target] # Planned(obs.target).version
        /\ version' = IF replaced THEN version
                      ELSE [p \in Path |-> IF PathWithin(p, obs.target) THEN 0 ELSE version[p]]
    /\ pc' = "idle" /\ obs' = Idle /\ steady' = Nothing
    /\ UNCHANGED <<machine, work, at, file, events, inv, plan>>

-----------------------------------------------------------------------------
Next ==
    \/ \E h \in Holder : \/ \E where \in machine.spots[h] : Turn(h, where)
                         \/ ReadProcess(h) \/ ReadUnit(h) \/ ReadDefinition(h) \/ ReadStagehand(h)
                         \/ ReadFails(h)
    \/ \E p \in machine.written : Write(p)
    \/ \E p \in Path : Work(p)
    \/ \E pol \in machine.policies : EditPolicy(pol)
    \/ \E kind \in HolderKinds : ListHolders(kind) \/ SourceFails(kind)
    \/ AskAgents \/ QueryPipelines \/ QueryGitmoot
    \/ WalkRoot \/ CollectGit \/ Publish \/ TimesOut
    \/ StartScan \/ EndScan \/ Plan \/ Apply \/ EndRecheck \/ Move

Spec == Init /\ [][Next]_vars

-----------------------------------------------------------------------------
(* Properties *)

TypeOK ==
    /\ machine \in Layout /\ file \in machine.policies /\ events \in 0 .. machine.events
    /\ version \in [Path -> Nat] /\ work \subseteq Path /\ at \in [Holder -> Spot \cup {Nowhere}]
    /\ pc \in {"idle", "walk", "bind", "move"} \cup DOMAIN Gatherers
    /\ obs.target \in Path \cup {<<>>} /\ obs.unread \subseteq Holder /\ obs.reported \subseteq Path
    /\ \A e \in obs.entries : e.path \in Path /\ e.git.kind \in {"none", "primary", "linked"}
    /\ plan # None => inv # None

\* Between two commands, a plan of the stored inventory.  A command that runs changes neither
\* until it ends.
Current == pc = "idle" /\ plan # None /\ plan.scan = inv.scan

\* What a plan asks to change, nobody is against: no guard refuses it, no protected path, no
\* gitmoot and no canonical root claims it, no rule that names it - whatever the order of the
\* file - and no archive that is missing asks for something safer, and no model made it
\* riskier than the rules.  (plan/rules.go Evaluate, plan/plan.go applyAdvice)
MutationIsUnopposed ==
    Current =>
        \A a \in plan.actions : a.kind \in Mutating =>
            \E e \in inv.entries :
                /\ e.path = a.path /\ Verdict(e, plan.pol) = {} /\ ~GitmootSignal(e)
                /\ \A p \in plan.pol.protect \cup plan.pol.home : ~PathsOverlap(e.path, p)
                /\ \A r \in plan.pol.canonical : r.class = Classify(e) =>
                    /\ ~PathWithin(e.path, r.path)
                    /\ r.class = "primary_project" => ~PathWithin(r.path, e.path)
                /\ a.kind # "relocate" =>
                    /\ \A r \in plan.pol.caches :
                        PathWithin(e.path, r.path) => Risk[BoundedCacheAction(e, r)] >= Risk[a.kind]
                    /\ \A r \in plan.pol.released : r.path = e.path => e.archived
                /\ Risk[a.kind] <= Risk[Evaluate(e, plan.pol).kind]

\* Every relocation has a destination of its own, where the inventory saw nothing.
\* (plan/plan.go resolveDestinationCollisions)
DestinationsAreFree ==
    Current =>
        \A a \in {b \in plan.actions : b.kind = "relocate"} :
            /\ \A e \in inv.entries : e.path # a.dest
            /\ \A b \in plan.actions : b.kind = "relocate" /\ b.dest = a.dest => b.path = a.path

\* An entry the walk of a report_only root listed stays protected, whichever of the roots that
\* overlap it its entry is kept from.  (collect/collect.go mergeDuplicatePaths)
ReportOnlyEntryIsKept ==
    Current =>
        \A a \in plan.actions : a.path \in inv.reported => a.kind \notin Mutating

Moved == pc = "move" /\ version'[obs.target] = 0 /\ version[obs.target] # 0

Within(flag) == \E i \in DOMAIN obs.pol.roots : obs.pol.roots[i][flag] /\ PathWithin(obs.target, obs.pol.roots[i].path)

\* What was in use when apply began to look, and has been ever since, is not moved: no
\* deadline, unreadable source or half-read listing may hide it, and no repository that was
\* dirty goes.  (collect/collect.go runBounded, collect/evidence.go EvidenceGap)
HeldThroughoutIsKept ==
    [][Moved => /\ obs.target \notin steady.dirty
                /\ \A r \in steady.held :
                    IF Uses[r.of] = "job" THEN r.path # obs.target ELSE ~Covers(r, obs.target)]_vars

\* Nothing is moved out of an archive_only root of the policy apply loaded, however the root
\* was reached, but a tree released by an archive category, and only as it was sealed.
\* (config/policy.go InArchiveOnlyRoot, collect/workspace_archives.go)
ArchiveOnlyIsUntouched ==
    [][Moved /\ Within("archiveOnly") =>
        /\ \E r \in obs.pol.released : r.path = obs.target /\ r.category /\ r.expiry
        /\ Planned(obs.target).version = machine.sealed[obs.target]]_vars

\* docs/policy-reference.md:11, "report_only (no mutations under that root)": nothing is moved
\* out of a report_only root of the policy apply loaded.
ReportOnlyIsUntouched ==
    [][Moved => ~Within("reportOnly")]_vars

=============================================================================
