------------------------------ MODULE Planning ------------------------------
(***************************************************************************)
(* How an inventory becomes a plan (internal/plan, internal/safety): the   *)
(* class of an entry, the guards that refuse to let it be touched, the     *)
(* proposals of the rules and the one that wins, the advice of a model,    *)
(* the collisions of destinations, and the check that a stored plan still  *)
(* describes the inventory and the policy it was built from.               *)
(*                                                                         *)
(* A path is the sequence of its names.  An entry is a record:             *)
(*   path, root     where it is, and the root whose walk listed it         *)
(*   is             what it is (see Entity): what the walk reads of it     *)
(*   version        its fingerprint: identity and metadata                 *)
(*   link           what a symlink resolved to                             *)
(*   git            the observed state of its repository, or NoGit         *)
(*   signals        gitmoot lifecycle evidence                             *)
(*   unknown        "unknown:" evidence                                    *)
(*   prot           blocking protections recorded by the collectors        *)
(*   archived       bound to a verified archive of its release             *)
(***************************************************************************)
EXTENDS Integers, Sequences, FiniteSets, SequencesExt

CONSTANTS
    Named,          \* names each pattern list of policy.classification matches, by list
    StoreLayout,    \* complete layouts of provider stores, relative to an inventory root
    LocalStore,     \* stores a project has of its own: .uv-cache, .pnpm-store, .gradle/caches
    OutputName,     \* generated output directories: node_modules, dist, build, ...
    Collection,     \* directories whose children are projects: repos, projects, workspaces
    SourceDir,      \* more of them, for outputs: src, code
    Opaque,         \* directories no output is looked for in: .cache, .npm, ... and the outputs
    Hidden,         \* names with a leading dot
    HomeCache       \* ".cache"

\* What the files of the program may hold: a policy, and an entry of an inventory.
Paths == Seq(STRING)
Entity ==
    [present : BOOLEAN, kind : {"dir", "file", "symlink", "special", "unknown"}, mount : BOOLEAN,
     marker : BOOLEAN, database : BOOLEAN,
     deep : BOOLEAN, size : Nat, age : Int, lowerBound : BOOLEAN, foreign : BOOLEAN,
     git : {"none", "primary", "linked"}, idle : BOOLEAN, to : Paths]
Unknowns == {"directory_truncated", "directory_not_listed", "lstat_failed", "symlink", "git", "gitmoot"}
Protections == {"archive_only_root", "report_only_root", "dirty_repository", "reference", "owning_job", "durable_evidence"}
Entry ==
    [path : Paths \ {<<>>}, root : Paths, is : Entity, version : Nat, link : {"no", "unresolved", "inside", "outside"},
     git : [kind : {"none", "primary", "linked"}, degraded : BOOLEAN, work : SUBSET {"dirty"}, idle : BOOLEAN],
     signals : SUBSET {"gitmoot"}, unknown : SUBSET Unknowns, prot : SUBSET Protections, archived : BOOLEAN]

InventoryRoot == [path : Paths, depth : Nat, reportOnly : BOOLEAN, archiveOnly : BOOLEAN, follow : BOOLEAN,
                  cross : BOOLEAN]
CanonicalRoot == [class : STRING, path : Paths]
CacheRule ==
    [path : Paths, action : {"keep", "investigate", "quarantine", "delete_candidate"}, maxBytes : Nat, ttl : Nat,
     ord : Nat, retention : Nat]
WorkspaceArchive == [path : Paths, expiry : BOOLEAN, category : BOOLEAN]
Policy ==
    [roots : Seq(InventoryRoot), protect : SUBSET Paths, own : SUBSET Paths, home : SUBSET Paths, recovery : SUBSET Paths,
     target : {"same", "other", "unusable"}, copies : BOOLEAN, space : Nat, canonical : SUBSET CanonicalRoot,
     caches : SUBSET CacheRule, released : SUBSET WorkspaceArchive, foreign : BOOLEAN, retention : Nat]
Finite(pol) ==
    /\ IsFiniteSet(pol.protect) /\ IsFiniteSet(pol.home) /\ IsFiniteSet(pol.canonical)
    /\ IsFiniteSet(pol.caches) /\ IsFiniteSet(pol.released)

Risk == [keep |-> 0, investigate |-> 1, relocate |-> 2, quarantine |-> 3, delete_candidate |-> 4]
Kinds == DOMAIN Risk
Safer(k, other) == IF Risk[other] < Risk[k] THEN other ELSE k
Mutating == {"relocate", "quarantine", "delete_candidate"}

PathWithin(p, q) == IsPrefix(q, p)
PathsOverlap(p, q) == PathWithin(p, q) \/ PathWithin(q, p)
Parent(p) == Front(p)

NoGit == [kind |-> "none", degraded |-> FALSE, work |-> {}, idle |-> FALSE]
Clean(g) == g.kind # "none" /\ ~g.degraded /\ g.work = {}

-----------------------------------------------------------------------------
(* internal/safety: what refuses a mutation *)

GuardNames == {"collected_protections", "unknown_evidence", "filesystem_identity", "git_state",
    "symlink_containment", "protected_paths", "sensitive_names", "live_databases",
    "quarantine_filesystem", "free_space"}

\* A symlink must have been resolved to a target inside its root; the quarantine must be
\* usable, on the filesystem of the entry unless a copy is allowed, and a copy must fit.
Fires(guard, e, pol) ==
    CASE guard = "collected_protections" -> e.prot # {}
      [] guard = "unknown_evidence"      -> e.unknown # {}
      [] guard = "filesystem_identity"   -> e.version = 0
      [] guard = "git_state"             -> e.git.degraded \/ e.git.work # {}
      [] guard = "symlink_containment"   -> e.is.kind = "symlink" /\ e.link # "inside"
      [] guard = "protected_paths"       -> \E p \in pol.protect \cup pol.own : PathsOverlap(e.path, p)
      [] guard = "sensitive_names"       -> Last(e.path) \in Named.sensitive
      [] guard = "live_databases"        -> e.is.kind = "file" /\ e.is.database
      [] guard = "quarantine_filesystem" -> pol.target = "unusable" \/ (pol.target = "other" /\ ~pol.copies)
      [] guard = "free_space"            -> /\ pol.target = "other"
                                            /\ (e.is.kind = "dir" /\ ~e.is.deep) \/ e.is.size > pol.space

Verdict(e, pol) == {guard \in GuardNames : Fires(guard, e, pol)}
Refused(e, pol) == Verdict(e, pol) # {}

\* A recommendation the verdict forbids becomes a request to look.
ClampRecommendation(refused, kind) == IF kind \in Mutating /\ refused THEN "investigate" ELSE kind

-----------------------------------------------------------------------------
(* internal/plan: classification *)

\* The provider store or generated output an entry is the selected root of: a complete
\* layout below its root, a store of one project, or an output at the top of a project.  No
\* walk lists its own root, so the layouts of a root that is itself a store are left out.
ProjectPrefix(p) ==
    \/ Len(p) = 1 /\ p[1] \notin Hidden \cup {"node_modules"}
    \/ Len(p) = 2 /\ p[1] \in Collection /\ p[2] \notin Hidden

DescribeAdapter(e) ==
    LET rel == SubSeq(e.path, Len(e.root) + 1, Len(e.path)) IN
    IF e.is.kind # "dir" \/ ~PathWithin(e.path, e.root) \/ rel = <<>> THEN "none"
    ELSE IF \/ rel \in StoreLayout
            \/ \E store \in LocalStore : IsSuffix(store, rel) /\ ProjectPrefix(SubSeq(rel, 1, Len(rel) - Len(store)))
         THEN "cache"
    ELSE IF /\ Last(rel) \in OutputName
            /\ Len(rel) <= 2 \/ (Len(rel) = 3 /\ Head(rel) \in Collection \cup SourceDir)
            /\ \A i \in 1 .. Len(rel) - 1 : rel[i] \notin Opaque
         THEN "generated_artifact"
    ELSE "none"

SelectedGenericRoot(e) == e.is.kind = "dir" /\ e.root \in {e.path, Parent(e.path)}

Is(e, list) == Last(e.path) \in Named[list]
GitmootSignal(e) == e.signals # {} \/ "gitmoot" \in e.unknown

\* The first match decides.
Classes(e) == <<
    <<Is(e, "evidence"), "evidence">>,
    <<Is(e, "operational"), "operational_tool">>,
    <<Is(e, "backup"), "backup">>,
    <<GitmootSignal(e), "operational_tool">>,
    <<e.git.kind = "linked", "task_worktree">>,
    <<e.git.kind = "primary", "primary_project">>,
    <<Is(e, "worktree"), "task_worktree">>,
    <<DescribeAdapter(e) # "none", DescribeAdapter(e)>>,
    <<SelectedGenericRoot(e) /\ Is(e, "generated"), "generated_artifact">>,
    <<SelectedGenericRoot(e) /\ Is(e, "cache"), "cache">>,
    <<e.is.kind = "dir" /\ e.is.marker, "primary_project">>,
    <<TRUE, "unknown">> >>

Classify(e) == Classes(e)[SelectInSeq(Classes(e), LAMBDA c : c[1])][2]

-----------------------------------------------------------------------------
(* internal/plan: the rules *)

\* Who decides: the lowest tier with a proposal (the others are only recorded).
Tier == [safety |-> 0, protected |-> 1, explicit |-> 2, builtin |-> 3, fallback |-> 4]

Proposal(tier, kind, spec, ord, retention, dest) ==
    [tier |-> Tier[tier], kind |-> kind, spec |-> spec, ord |-> ord, retention |-> retention, dest |-> dest]

NoRetention == 0
NoDest == <<>>
Opinion(tier, kind, spec) == Proposal(tier, kind, spec, 0, NoRetention, NoDest)

\* What a cache rule asks for on the evidence of the scan: its action only when every
\* bound it has is shown to be exceeded.
BoundedCacheAction(e, rule) ==
    IF rule.maxBytes = 0 /\ rule.ttl = 0 THEN rule.action
    ELSE IF e.is.kind \notin {"dir", "file"} \/ (e.is.kind = "dir" /\ ~e.is.deep) THEN "investigate"
    ELSE IF rule.ttl > 0 /\ e.is.age < 0 THEN "investigate"
    ELSE IF rule.maxBytes > 0 /\ e.is.size <= rule.maxBytes
         THEN IF e.is.lowerBound THEN "investigate" ELSE "keep"
    ELSE IF rule.ttl > 0 /\ e.is.age < rule.ttl THEN "keep"
    ELSE rule.action

SafetyProposals(e, refused) == IF refused THEN {Opinion("safety", "keep", Len(e.path))} ELSE {}

\* A protected path, gitmoot and the canonical root of the class, which keeps what is in
\* it and calls a project that is elsewhere, unless it lies inside that project.
ProtectedProposals(e, class, pol) ==
    {Opinion("protected", "keep", Len(p)) : p \in {p \in pol.protect \cup pol.home : PathsOverlap(e.path, p)}}
    \cup (IF GitmootSignal(e) THEN {Opinion("protected", "keep", Len(e.path))} ELSE {})
    \cup UNION {IF PathWithin(e.path, root.path) THEN {Opinion("protected", "keep", Len(root.path))}
                ELSE IF class # "primary_project" THEN {}
                ELSE IF PathWithin(root.path, e.path) THEN {Opinion("protected", "investigate", Len(root.path))}
                ELSE {Proposal("protected", "relocate", Len(root.path), 0, NoRetention,
                        Append(root.path, Last(e.path)))}
                : root \in {r \in pol.canonical : r.class = class}}

\* Cache rules, released workspaces (by their exact path; evidence exports are alike), foreign
\* owners.  By name the rules of caches come first.
ExplicitProposals(e, pol) ==
    {Proposal("explicit", BoundedCacheAction(e, rule), Len(rule.path), rule.ord, rule.retention, NoDest)
        : rule \in {r \in pol.caches : PathWithin(e.path, r.path)}}
    \cup {Proposal("explicit", IF rule.expiry /\ e.archived THEN "quarantine" ELSE "keep",
            Len(rule.path), Cardinality(pol.caches) + 1, pol.retention, NoDest) : rule \in {r \in pol.released : r.path = e.path}}
    \cup (IF pol.foreign /\ e.is.foreign THEN {Opinion("explicit", "investigate", Len(e.path))} ELSE {})

\* No class is deleted by default; quarantine is the strongest.
BuiltinKind(e, class) ==
    CASE class \in {"evidence", "operational_tool", "primary_project", "backup"} -> "keep"
      [] class = "task_worktree" -> IF Clean(e.git) /\ e.git.idle THEN "quarantine" ELSE "investigate"
      [] class = "generated_artifact" -> "quarantine"
      [] class = "cache" -> IF Last(e.path) = HomeCache \/ DescribeAdapter(e) = "cache" THEN "investigate"
                            ELSE "quarantine"
      [] OTHER -> "investigate"

BuiltinProposal(e, class, pol) ==
    Proposal(IF class = "unknown" THEN "fallback" ELSE "builtin", BuiltinKind(e, class), Len(e.path), 0,
        IF BuiltinKind(e, class) = "quarantine" THEN pol.retention ELSE NoRetention, NoDest)

Proposals(e, pol) ==
    SafetyProposals(e, Refused(e, pol)) \cup ProtectedProposals(e, Classify(e), pol)
        \cup ExplicitProposals(e, pol) \cup {BuiltinProposal(e, Classify(e), pol)}

\* Mutant: the more specific rule wins over the safer one.
Mut_Beats(p, q) == p.spec > q.spec \/ (p.spec = q.spec /\ Risk[p.kind] < Risk[q.kind])

\* Of two proposals of one tier the safer wins; of two that agree, the more specific, then
\* the one whose rule comes first by name.  The order of the policy file never counts.
Beats(p, q) ==
    \/ Risk[p.kind] < Risk[q.kind]
    \/ p.kind = q.kind /\ (p.spec > q.spec \/ (p.spec = q.spec /\ p.ord < q.ord))

LowestTier(ps) == {p \in ps : \A q \in ps : p.tier <= q.tier}
Winner(ps) == CHOOSE p \in LowestTier(ps) : \A q \in LowestTier(ps) : ~Beats(q, p)

\* The decision of the rules.  No mutation survives a refusal by any route.
Evaluate(e, pol) ==
    LET won  == Winner(Proposals(e, pol))
        kind == IF won.kind \in Mutating /\ Refused(e, pol) THEN "keep" ELSE won.kind
    IN [kind |-> kind,
        dest |-> IF kind = "relocate" THEN won.dest ELSE NoDest,
        retention |-> IF kind \notin Mutating THEN NoRetention
                      ELSE IF kind = "quarantine" /\ won.retention = NoRetention THEN pol.retention
                      ELSE won.retention,
        ambiguous |-> Classify(e) = "unknown"]

-----------------------------------------------------------------------------
(* internal/plan: advice, collisions, binding *)

\* A model may only suggest keep, investigate or quarantine, and only what is safer than
\* the rules' decision is taken, with the retention it asks for: none here.
ApplyAdvice(decision, refused, advised) ==
    LET clamped == ClampRecommendation(refused, advised) IN
    IF advised \notin {"keep", "quarantine", "investigate"} \/ Risk[clamped] >= Risk[decision.kind]
    THEN decision
    ELSE [decision EXCEPT !.kind = clamped, !.retention = NoRetention, !.dest = NoDest]

\* advice: what the model said of the ambiguous entries it answered for.  Of two entries of
\* one path the inventory keeps one, so a path names an action.
Decide(entries, pol, advice) ==
    {LET d == Evaluate(e, pol)
         a == IF d.ambiguous /\ e.path \in DOMAIN advice
              THEN ApplyAdvice(d, Refused(e, pol), advice[e.path]) ELSE d
     IN [path |-> e.path, kind |-> a.kind, dest |-> a.dest, retention |-> a.retention] : e \in entries}

\* Mutant: only the destinations of other relocations count.
Mut_Collides(a, actions, entries) ==
    a.kind = "relocate" /\ \E b \in actions \ {a} : b.kind = "relocate" /\ b.dest = a.dest

\* A destination two relocations want, or that the inventory has seen, is nobody's.
Collides(a, actions, entries) ==
    /\ a.kind = "relocate"
    /\ \/ a.dest \in {e.path : e \in entries}
       \/ \E b \in actions \ {a} : b.kind = "relocate" /\ b.dest = a.dest

ResolveDestinationCollisions(actions, entries) ==
    {IF Collides(a, actions, entries)
     THEN [a EXCEPT !.kind = "investigate", !.dest = NoDest, !.retention = NoRetention] ELSE a : a \in actions}

Build(scan, entries, pol, advice) ==
    [scan |-> scan, evidence |-> {<<e.path, e.version>> : e \in entries}, pol |-> pol,
     actions |-> ResolveDestinationCollisions(Decide(entries, pol, advice), entries)]

\* The plan is of this scan, of this inventory and of this policy.
VerifyBinding(plan, scan, entries, pol) ==
    /\ plan.scan = scan
    /\ plan.evidence = {<<e.path, e.version>> : e \in entries}
    /\ plan.pol = pol

=============================================================================
