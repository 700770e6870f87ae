-------------------------- MODULE InventoryProofs --------------------------
(***************************************************************************)
(* Proofs about Inventory: what a plan asks for is opposed by nobody, and  *)
(* what apply moves is free of everything that has barred it since apply   *)
(* began to look.                                                          *)
(***************************************************************************)
EXTENDS Inventory, FiniteSetTheorems, SequenceTheorems, WellFoundedInduction, TLAPS

-----------------------------------------------------------------------------
(* Of finitely many proposals one is beaten by none. *)

Proposed == [tier : 0 .. 4, kind : Kinds, spec : Nat, ord : Nat, retention : Nat, dest : Paths]

\* How risky a kind of action is.
LEMMA RiskIs ==
    /\ Kinds = {"keep", "investigate", "relocate", "quarantine", "delete_candidate"}
    /\ Risk["keep"] = 0 /\ Risk["investigate"] = 1 /\ Risk["relocate"] = 2
    /\ Risk["quarantine"] = 3 /\ Risk["delete_candidate"] = 4
  BY DEF Kinds, Risk

\* Risks are numbers, and no two kinds are as risky.
LEMMA RiskType ==
    /\ \A k \in Kinds : Risk[k] \in 0 .. 4
    /\ \A k \in Kinds, l \in Kinds : Risk[k] = Risk[l] => k = l
<1> HIDE DEF Risk, Kinds
<1> QED
  BY RiskIs

\* To beat is irreflexive and transitive.
LEMMA BeatsIsAnOrder ==
    ASSUME NEW p \in Proposed, NEW q \in Proposed, NEW r \in Proposed
    PROVE  ~Beats(p, p) /\ (Beats(p, q) /\ Beats(q, r) => Beats(p, r))
<1>1. /\ p.kind \in Kinds /\ q.kind \in Kinds /\ r.kind \in Kinds
      /\ p.spec \in Nat /\ q.spec \in Nat /\ r.spec \in Nat
      /\ p.ord \in Nat /\ q.ord \in Nat /\ r.ord \in Nat
  BY DEF Proposed
<1>2. /\ Risk[p.kind] \in 0 .. 4 /\ Risk[q.kind] \in 0 .. 4 /\ Risk[r.kind] \in 0 .. 4
      /\ (Risk[p.kind] = Risk[q.kind] => p.kind = q.kind)
  BY <1>1, RiskType
<1> HIDE DEF Risk, Kinds
<1> QED
  BY <1>1, <1>2 DEF Beats

\* A nonempty finite set of proposals has one that no other beats.
LEMMA OneIsUnbeaten ==
    ASSUME NEW S, S \subseteq Proposed, IsFiniteSet(S), S # {}
    PROVE  \E p \in S : \A q \in S : ~Beats(q, p)
<1> DEFINE Bad == {T \in FiniteSubsetsOf(S) : T # {} /\ \A p \in T : \E q \in T : Beats(q, p)}
<1>1. SUFFICES Bad = {}
  <2>1. S \in FiniteSubsetsOf(S)
    BY DEF FiniteSubsetsOf
  <2> QED
    BY <2>1
<1>2. SUFFICES ASSUME Bad # {} PROVE FALSE
  OBVIOUS
<1>3. PICK T \in Bad : \A U \in Bad : <<U, T>> \notin StrictSubsetOrdering(S)
  <2>1. IsWellFoundedOn(StrictSubsetOrdering(S), FiniteSubsetsOf(S))
    BY FS_StrictSubsetOrderingWellFounded
  <2>2. Bad \subseteq FiniteSubsetsOf(S)
    OBVIOUS
  <2> HIDE DEF Bad
  <2> QED
    BY <1>2, <2>1, <2>2, WFMin
<1>4. T \subseteq S /\ IsFiniteSet(T)
  BY DEF FiniteSubsetsOf
<1>5. PICK p \in T : TRUE
  OBVIOUS
<1> DEFINE U == {q \in T : Beats(q, p)}
<1>6. U # {}
  BY <1>5
<1>7. U \subseteq T /\ p \notin U
  BY <1>4, BeatsIsAnOrder
<1>8. IsFiniteSet(U) /\ U \in FiniteSubsetsOf(S)
  BY <1>4, <1>7, FS_Subset DEF FiniteSubsetsOf
<1>9. <<U, T>> \in StrictSubsetOrdering(S)
  BY <1>4, <1>7 DEF StrictSubsetOrdering
<1>10. U \notin Bad
  BY <1>3, <1>9
<1>11. PICK m \in U : \A q \in U : ~Beats(q, m)
  BY <1>6, <1>8, <1>10
<1>12. PICK q \in T : Beats(q, m)
  BY <1>7
<1>13. Beats(q, p)
  BY <1>4, <1>7, <1>12, BeatsIsAnOrder
<1> QED
  BY <1>11, <1>12, <1>13

-----------------------------------------------------------------------------
(* The proposals of an entry are proposals, and finitely many. *)

\* A rule of caches asks for one of the kinds of actions.
LEMMA BoundedCacheActionType ==
    ASSUME NEW e \in Entry, NEW rule \in CacheRule
    PROVE  BoundedCacheAction(e, rule) \in Kinds
<1>1. rule.action \in {"keep", "investigate", "quarantine", "delete_candidate"}
  BY DEF CacheRule
<1> HIDE DEF Kinds
<1> QED
  BY <1>1, RiskIs DEF BoundedCacheAction

\* The built-in decision is to keep, to investigate or to quarantine.
LEMMA BuiltinKindIs ==
    ASSUME NEW e, NEW class
    PROVE  BuiltinKind(e, class) \in {"keep", "investigate", "quarantine"}
  BY DEF BuiltinKind

\* The tiers, in the order in which they decide.
LEMMA TierIs ==
    /\ DOMAIN Tier = {"safety", "protected", "explicit", "builtin", "fallback"}
    /\ Tier["safety"] = 0 /\ Tier["protected"] = 1 /\ Tier["explicit"] = 2 /\ Tier["builtin"] = 3
    /\ Tier["fallback"] = 4
  BY DEF Tier

\* Proposals are records of their tier, kind and specificity.
LEMMA ProposalType ==
    ASSUME NEW tier \in DOMAIN Tier, NEW kind \in Kinds,
           NEW spec \in Nat, NEW ord \in Nat, NEW retention \in Nat, NEW dest \in Paths
    PROVE  /\ Proposal(tier, kind, spec, ord, retention, dest) \in Proposed
           /\ Proposal(tier, kind, spec, ord, retention, dest).tier = Tier[tier]
           /\ Proposal(tier, kind, spec, ord, retention, dest).kind = kind
<1>1. Tier[tier] \in 0 .. 4
  BY TierIs
<1> HIDE DEF Kinds, Tier
<1> QED
  BY <1>1 DEF Proposal, Proposed

\* So are those without a retention and a destination.
LEMMA OpinionType ==
    ASSUME NEW tier \in DOMAIN Tier, NEW kind \in Kinds,
           NEW spec \in Nat
    PROVE  /\ Opinion(tier, kind, spec) \in Proposed
           /\ Opinion(tier, kind, spec).tier = Tier[tier]
           /\ Opinion(tier, kind, spec).kind = kind
<1>1. NoDest \in Paths /\ NoRetention \in Nat /\ 0 \in Nat
  BY DEF NoDest, NoRetention, Paths
<1> QED
  BY <1>1, ProposalType DEF Opinion

\* A finite set has finitely many images under a function.
LEMMA ImageIsFinite ==
    ASSUME NEW S, IsFiniteSet(S), NEW f, DOMAIN f = S
    PROVE  IsFiniteSet({f[x] : x \in S})
<1> DEFINE T == {f[x] : x \in S}
           g == [x \in S |-> f[x]]
<1>1. g \in Surjection(S, T)
  BY DEF Surjection
<1> QED
  BY <1>1, FS_Surjection

\* What the parts of a policy are.
LEMMA PolicyHas ==
    ASSUME NEW pol \in Policy
    PROVE  /\ pol.protect \subseteq Paths /\ pol.home \subseteq Paths /\ pol.own \subseteq Paths
           /\ pol.canonical \subseteq CanonicalRoot /\ pol.caches \subseteq CacheRule
           /\ pol.released \subseteq WorkspaceArchive /\ pol.retention \in Nat
           /\ pol.roots \in Seq(InventoryRoot)
  BY DEF Policy

\* A path has a length, and a nonempty one a last name.
LEMMA PathHas ==
    /\ \A p \in Paths : Len(p) \in Nat
    /\ \A p \in Paths \ {<<>>}, q \in Paths : Append(q, Last(p)) \in Paths
<1>1. ASSUME NEW p \in Paths \ {<<>>} PROVE Last(p) \in STRING
  <2>1. p \in Seq(STRING) /\ Len(p) \in Nat /\ Len(p) # 0
    BY EmptySeq DEF Paths
  <2>2. Len(p) \in 1 .. Len(p)
    BY <2>1
  <2> QED
    BY <2>1, <2>2 DEF Last
<1> QED
  BY <1>1 DEF Paths

\* The proposals of the protected tier, which quarantine and delete nothing.
LEMMA ProtectedAre ==
    ASSUME NEW e \in Entry, NEW pol \in Policy, NEW class
    PROVE  \A p \in ProtectedProposals(e, class, pol) :
                p \in Proposed /\ p.tier = 1 /\ p.kind \in {"keep", "investigate", "relocate"}
<1>1. e.path \in Paths \ {<<>>} /\ Len(e.path) \in Nat /\ Tier["protected"] = 1 /\ "protected" \in DOMAIN Tier
  BY PathHas, TierIs DEF Entry
<1>2. "keep" \in Kinds /\ "investigate" \in Kinds /\ "relocate" \in Kinds
  BY RiskIs
<1>3. \A n \in Nat : /\ Opinion("protected", "keep", n) \in Proposed
                     /\ Opinion("protected", "keep", n).tier = 1
                     /\ Opinion("protected", "keep", n).kind = "keep"
                     /\ Opinion("protected", "investigate", n) \in Proposed
                     /\ Opinion("protected", "investigate", n).tier = 1
                     /\ Opinion("protected", "investigate", n).kind = "investigate"
  BY <1>1, <1>2, OpinionType
<1>4. \A p \in pol.protect \cup pol.home : Len(p) \in Nat
  BY PolicyHas, PathHas
<1>5. \A r \in pol.canonical : r.path \in Paths /\ Len(r.path) \in Nat
  BY PolicyHas, PathHas DEF CanonicalRoot
<1>6. ASSUME NEW r \in pol.canonical
      PROVE  LET p == Proposal("protected", "relocate", Len(r.path), 0, NoRetention, Append(r.path, Last(e.path)))
             IN  p \in Proposed /\ p.tier = 1 /\ p.kind = "relocate"
  <2>1. Append(r.path, Last(e.path)) \in Paths /\ 0 \in Nat /\ NoRetention \in Nat /\ Len(r.path) \in Nat
    BY <1>1, <1>5, PathHas DEF NoRetention
  <2> QED
    BY <1>1, <1>2, <2>1 DEF Proposal, Proposed
<1> TAKE p \in ProtectedProposals(e, class, pol)
<1>7. \/ \E q \in pol.protect \cup pol.home : p = Opinion("protected", "keep", Len(q))
      \/ p = Opinion("protected", "keep", Len(e.path))
      \/ \E r \in pol.canonical :
            \/ p = Opinion("protected", "keep", Len(r.path))
            \/ p = Opinion("protected", "investigate", Len(r.path))
            \/ p = Proposal("protected", "relocate", Len(r.path), 0, NoRetention, Append(r.path, Last(e.path)))
  BY DEF ProtectedProposals
<1> QED
  BY <1>1, <1>3, <1>4, <1>5, <1>6, <1>7

\* The proposals of the explicit tier.
LEMMA ExplicitAre ==
    ASSUME NEW e \in Entry, NEW pol \in Policy, Finite(pol)
    PROVE  \A p \in ExplicitProposals(e, pol) : p \in Proposed /\ p.tier = 2
<1>1. Len(e.path) \in Nat /\ Tier["explicit"] = 2 /\ "explicit" \in DOMAIN Tier
  BY PathHas, TierIs DEF Entry
<1>2. "keep" \in Kinds /\ "investigate" \in Kinds /\ "quarantine" \in Kinds
  BY RiskIs
<1>3. NoDest \in Paths /\ Cardinality(pol.caches) + 1 \in Nat /\ pol.retention \in Nat
  BY FS_CardinalityType, PolicyHas DEF NoDest, Paths, Finite
<1>4. ASSUME NEW r \in pol.caches
      PROVE  LET p == Proposal("explicit", BoundedCacheAction(e, r), Len(r.path), r.ord, r.retention, NoDest)
             IN  p \in Proposed /\ p.tier = 2
  <2>1. r \in CacheRule /\ Len(r.path) \in Nat /\ r.ord \in Nat /\ r.retention \in Nat
    BY PolicyHas, PathHas DEF CacheRule
  <2>2. BoundedCacheAction(e, r) \in Kinds
    BY <2>1, BoundedCacheActionType
  <2> QED
    BY <1>1, <1>3, <2>1, <2>2 DEF Proposal, Proposed
<1>5. ASSUME NEW r \in pol.released, NEW kind \in {"keep", "quarantine"}
      PROVE  LET p == Proposal("explicit", kind, Len(r.path), Cardinality(pol.caches) + 1, pol.retention, NoDest)
             IN  p \in Proposed /\ p.tier = 2
  <2>1. Len(r.path) \in Nat /\ kind \in Kinds
    BY <1>2, PolicyHas, PathHas DEF WorkspaceArchive
  <2> QED
    BY <1>1, <1>3, <2>1 DEF Proposal, Proposed
<1>6. Opinion("explicit", "investigate", Len(e.path)) \in Proposed
      /\ Opinion("explicit", "investigate", Len(e.path)).tier = 2
  BY <1>1, <1>2, OpinionType
<1> TAKE p \in ExplicitProposals(e, pol)
<1>7. \/ \E r \in pol.caches :
            p = Proposal("explicit", BoundedCacheAction(e, r), Len(r.path), r.ord, r.retention, NoDest)
      \/ \E r \in pol.released : \E kind \in {"keep", "quarantine"} :
            p = Proposal("explicit", kind, Len(r.path), Cardinality(pol.caches) + 1, pol.retention, NoDest)
      \/ p = Opinion("explicit", "investigate", Len(e.path))
  BY DEF ExplicitProposals
<1> QED
  BY <1>4, <1>5, <1>6, <1>7

\* The proposals of the other tiers.
LEMMA OthersAre ==
    ASSUME NEW e \in Entry, NEW pol \in Policy, NEW class, NEW refused
    PROVE  /\ \A p \in SafetyProposals(e, refused) : p \in Proposed /\ p.tier = 0
           /\ LET p == BuiltinProposal(e, class, pol)
              IN  p \in Proposed /\ p.tier \in {3, 4} /\ p.kind = BuiltinKind(e, class)
<1>1. Len(e.path) \in Nat /\ Tier["safety"] = 0 /\ Tier["builtin"] = 3 /\ Tier["fallback"] = 4
      /\ "safety" \in DOMAIN Tier /\ "builtin" \in DOMAIN Tier /\ "fallback" \in DOMAIN Tier
  BY PathHas, TierIs DEF Entry
<1>2. "keep" \in Kinds /\ BuiltinKind(e, class) \in Kinds
  BY BuiltinKindIs, RiskIs
<1>3. NoDest \in Paths /\ NoRetention \in Nat /\ 0 \in Nat /\ pol.retention \in Nat
  BY PolicyHas DEF NoDest, NoRetention, Paths
<1>4. \A p \in SafetyProposals(e, refused) : p \in Proposed /\ p.tier = 0
  BY <1>1, <1>2, OpinionType DEF SafetyProposals
<1>5. PICK tier \in {"builtin", "fallback"}, retention \in Nat :
          BuiltinProposal(e, class, pol) = Proposal(tier, BuiltinKind(e, class), Len(e.path), 0, retention, NoDest)
  BY <1>3 DEF BuiltinProposal
<1> QED
  BY <1>1, <1>2, <1>3, <1>4, <1>5 DEF Proposal, Proposed

\* The proposals of an entry are finitely many.
LEMMA ProposalsAreFinite ==
    ASSUME NEW e, NEW pol \in Policy, Finite(pol)
    PROVE  IsFiniteSet(Proposals(e, pol))
<1> DEFINE class == Classify(e)
           keep == Opinion("protected", "keep", Len(e.path))
           paths == [p \in pol.protect \cup pol.home |-> Opinion("protected", "keep", Len(p))]
           kept == [r \in pol.canonical |-> Opinion("protected", "keep", Len(r.path))]
           around == [r \in pol.canonical |-> Opinion("protected", "investigate", Len(r.path))]
           moved == [r \in pol.canonical |->
                        Proposal("protected", "relocate", Len(r.path), 0, NoRetention, Append(r.path, Last(e.path)))]
           caches == [r \in pol.caches |->
                        Proposal("explicit", BoundedCacheAction(e, r), Len(r.path), r.ord, r.retention, NoDest)]
           released == [r \in pol.released |->
                          Proposal("explicit", IF r.expiry /\ e.archived THEN "quarantine" ELSE "keep",
                                   Len(r.path), Cardinality(pol.caches) + 1, pol.retention, NoDest)]
           single == {Opinion("safety", "keep", Len(e.path)), keep, Opinion("explicit", "investigate", Len(e.path)),
                      BuiltinProposal(e, class, pol)}
           A == {paths[p] : p \in pol.protect \cup pol.home}
           B == {kept[r] : r \in pol.canonical}
           C == {around[r] : r \in pol.canonical}
           D == {moved[r] : r \in pol.canonical}
           E == {caches[r] : r \in pol.caches}
           F == {released[r] : r \in pol.released}
<1>1. IsFiniteSet(pol.protect \cup pol.home)
  BY FS_Union DEF Finite
<1>2. IsFiniteSet(A) /\ IsFiniteSet(B) /\ IsFiniteSet(C) /\ IsFiniteSet(D) /\ IsFiniteSet(E) /\ IsFiniteSet(F)
  <2>1. /\ DOMAIN paths = pol.protect \cup pol.home /\ DOMAIN kept = pol.canonical
        /\ DOMAIN around = pol.canonical /\ DOMAIN moved = pol.canonical
        /\ DOMAIN caches = pol.caches /\ DOMAIN released = pol.released
    OBVIOUS
  <2> HIDE DEF paths, kept, around, moved, caches, released
  <2>2. IsFiniteSet(A)
    BY <1>1, <2>1, ImageIsFinite
  <2>3. IsFiniteSet(B) /\ IsFiniteSet(C) /\ IsFiniteSet(D)
    BY <2>1, ImageIsFinite DEF Finite
  <2>4. IsFiniteSet(E) /\ IsFiniteSet(F)
    BY <2>1, ImageIsFinite DEF Finite
  <2> QED
    BY <2>2, <2>3, <2>4
<1>3. IsFiniteSet(single)
  <2> DEFINE s == Opinion("safety", "keep", Len(e.path))
             x == Opinion("explicit", "investigate", Len(e.path))
             b == BuiltinProposal(e, class, pol)
  <2>1. single = (({s} \cup {keep}) \cup ({x} \cup {b}))
    OBVIOUS
  <2> HIDE DEF keep, class, s, x, b, single
  <2>2. IsFiniteSet({s}) /\ IsFiniteSet({keep}) /\ IsFiniteSet({x}) /\ IsFiniteSet({b})
    BY FS_Singleton
  <2>3. IsFiniteSet({s} \cup {keep}) /\ IsFiniteSet({x} \cup {b})
    BY <2>2, FS_Union
  <2>4. IsFiniteSet(({s} \cup {keep}) \cup ({x} \cup {b}))
    BY <2>3, FS_Union
  <2> QED
    BY <2>1, <2>4
<1>4. Proposals(e, pol) \subseteq (((single \cup A) \cup (B \cup C)) \cup (D \cup (E \cup F)))
  <2>1. SafetyProposals(e, Refused(e, pol)) \subseteq single
    BY DEF SafetyProposals
  <2>2. ProtectedProposals(e, class, pol) \subseteq single \cup A \cup B \cup C \cup D
    BY DEF ProtectedProposals
  <2>3. ExplicitProposals(e, pol) \subseteq single \cup E \cup F
    BY DEF ExplicitProposals
  <2> HIDE DEF A, B, C, D, E, F
  <2> QED
    BY <2>1, <2>2, <2>3 DEF Proposals
<1>5. IsFiniteSet((((single \cup A) \cup (B \cup C)) \cup (D \cup (E \cup F))))
  <2> HIDE DEF A, B, C, D, E, F, single
  <2>1. IsFiniteSet(single \cup A) /\ IsFiniteSet(B \cup C) /\ IsFiniteSet(E \cup F)
    BY <1>2, <1>3, FS_Union
  <2>2. IsFiniteSet((single \cup A) \cup (B \cup C)) /\ IsFiniteSet(D \cup (E \cup F))
    BY <1>2, <2>1, FS_Union
  <2> QED
    BY <2>2, FS_Union
<1> HIDE DEF A, B, C, D, E, F, single
<1> QED
  BY <1>4, <1>5, FS_Subset

\* The winner is of the lowest tier, and none of that tier is safer.
LEMMA WinnerIs ==
    ASSUME NEW ps, ps \subseteq Proposed, IsFiniteSet(ps), ps # {}
    PROVE  /\ Winner(ps) \in ps
           /\ \A q \in ps : /\ Winner(ps).tier <= q.tier
                            /\ q.tier = Winner(ps).tier => Risk[Winner(ps).kind] <= Risk[q.kind]
<1>1. \A p \in ps : p.tier \in 0 .. 4 /\ p.kind \in Kinds
  BY DEF Proposed
<1>2. PICK n \in 0 .. 4 : (\E p \in ps : p.tier = n) /\ \A q \in ps : n <= q.tier
  <2> DEFINE Has(n) == \E p \in ps : p.tier = n
  <2>1. Has(0) \/ Has(1) \/ Has(2) \/ Has(3) \/ Has(4)
    BY <1>1
  <2>2. \A n \in 0 .. 4 : (\A m \in 0 .. 4 : m < n => ~Has(m)) => \A q \in ps : n <= q.tier
    BY <1>1
  <2>3. \/ Has(0)
        \/ Has(1) /\ ~Has(0)
        \/ Has(2) /\ ~Has(0) /\ ~Has(1)
        \/ Has(3) /\ ~Has(0) /\ ~Has(1) /\ ~Has(2)
        \/ Has(4) /\ ~Has(0) /\ ~Has(1) /\ ~Has(2) /\ ~Has(3)
    BY <2>1
  <2> HIDE DEF Has
  <2>4. \E n \in 0 .. 4 : Has(n) /\ \A m \in 0 .. 4 : m < n => ~Has(m)
    BY <2>3
  <2> QED
    BY <2>2, <2>4 DEF Has
<1>3. LowestTier(ps) = {p \in ps : p.tier = n}
  BY <1>1, <1>2 DEF LowestTier
<1>4. LowestTier(ps) # {} /\ LowestTier(ps) \subseteq Proposed /\ IsFiniteSet(LowestTier(ps))
  BY <1>2, <1>3, FS_Subset
<1>5. \E p \in LowestTier(ps) : \A q \in LowestTier(ps) : ~Beats(q, p)
  BY <1>4, OneIsUnbeaten
<1>6. Winner(ps) \in LowestTier(ps) /\ \A q \in LowestTier(ps) : ~Beats(q, Winner(ps))
  BY <1>5 DEF Winner
<1>7. ASSUME NEW q \in LowestTier(ps) PROVE Risk[Winner(ps).kind] <= Risk[q.kind]
  <2>1. Risk[q.kind] \in 0 .. 4 /\ Risk[Winner(ps).kind] \in 0 .. 4
    BY <1>1, <1>3, <1>6, RiskType
  <2>2. ~(Risk[q.kind] < Risk[Winner(ps).kind])
    BY <1>6 DEF Beats
  <2> HIDE DEF Risk
  <2> QED
    BY <2>1, <2>2
<1> QED
  BY <1>2, <1>3, <1>6, <1>7

-----------------------------------------------------------------------------
(* What the rules decide to change, nothing is against. *)

\* The proposals of an entry, and the one that wins.
LEMMA ProposalsHave ==
    ASSUME NEW e \in Entry, NEW pol \in Policy, Finite(pol)
    PROVE  LET ps == Proposals(e, pol)
               won == Winner(ps)
           IN  /\ ps \subseteq Proposed /\ won \in ps /\ won.kind \in Kinds
               /\ \A q \in ps : /\ won.tier <= q.tier
                                /\ q.tier = won.tier => Risk[won.kind] <= Risk[q.kind]
<1> DEFINE ps == Proposals(e, pol)
<1>1. ps \subseteq Proposed
  BY ProtectedAre, ExplicitAre, OthersAre DEF Proposals
<1>2. ps # {}
  BY DEF Proposals
<1>3. IsFiniteSet(ps)
  BY ProposalsAreFinite
<1> HIDE DEF ps
<1>4. Winner(ps) \in ps /\ \A q \in ps : /\ Winner(ps).tier <= q.tier
                                         /\ q.tier = Winner(ps).tier => Risk[Winner(ps).kind] <= Risk[q.kind]
  BY <1>1, <1>2, <1>3, WinnerIs
<1>5. Winner(ps).kind \in Kinds
  BY <1>1, <1>4 DEF Proposed
<1> QED
  BY <1>1, <1>4, <1>5 DEF ps

\* A decision to change an entry is the winner's, and no guard refuses it.
LEMMA EvaluateIs ==
    ASSUME NEW e \in Entry, NEW pol \in Policy, Finite(pol)
    PROVE  /\ Evaluate(e, pol).kind \in Kinds
           /\ Evaluate(e, pol).kind \in Mutating =>
                Evaluate(e, pol).kind = Winner(Proposals(e, pol)).kind /\ Verdict(e, pol) = {}
<1> DEFINE won == Winner(Proposals(e, pol))
           kind == IF won.kind \in Mutating /\ Refused(e, pol) THEN "keep" ELSE won.kind
<1>1. Evaluate(e, pol).kind = kind
  BY DEF Evaluate
<1>2. won.kind \in Kinds /\ "keep" \in Kinds
  BY ProposalsHave, RiskIs
<1> HIDE DEF won
<1> QED
  BY <1>1, <1>2 DEF Refused, Mutating, won

\* What is not refused has no proposal of the safety tier.
LEMMA UnrefusedIsFree ==
    ASSUME NEW e, NEW pol, Verdict(e, pol) = {}
    PROVE  SafetyProposals(e, Refused(e, pol)) = {}
  BY DEF SafetyProposals, Refused

\* The rules that protect an entry say so in a proposal.
LEMMA ProtectionIsProposed ==
    ASSUME NEW e \in Entry, NEW pol \in Policy
    PROVE  /\ \A p \in pol.protect \cup pol.home : PathsOverlap(e.path, p) =>
                \E q \in Proposals(e, pol) : q.tier = 1 /\ q.kind = "keep"
           /\ GitmootSignal(e) => \E q \in Proposals(e, pol) : q.tier = 1 /\ q.kind = "keep"
           /\ \A r \in pol.canonical : r.class = Classify(e) =>
                /\ PathWithin(e.path, r.path) => \E q \in Proposals(e, pol) : q.tier = 1 /\ q.kind = "keep"
                /\ r.class = "primary_project" /\ PathWithin(r.path, e.path) =>
                     \E q \in Proposals(e, pol) : q.tier = 1 /\ q.kind \in {"keep", "investigate"}
<1>1. e.path \in Paths \ {<<>>} /\ Len(e.path) \in Nat /\ Tier["protected"] = 1 /\ "protected" \in DOMAIN Tier
  BY PathHas, TierIs DEF Entry
<1>2. "keep" \in Kinds /\ "investigate" \in Kinds
  BY RiskIs
<1>3. \A n \in Nat : \A kind \in {"keep", "investigate"} :
          Opinion("protected", kind, n).tier = 1 /\ Opinion("protected", kind, n).kind = kind
  BY <1>1, <1>2, OpinionType
<1>4. \A p \in pol.protect \cup pol.home : Len(p) \in Nat
  BY PolicyHas, PathHas
<1>5. \A r \in pol.canonical : Len(r.path) \in Nat
  BY PolicyHas, PathHas DEF CanonicalRoot
<1>6. ASSUME NEW p \in pol.protect \cup pol.home, PathsOverlap(e.path, p)
      PROVE  Opinion("protected", "keep", Len(p)) \in Proposals(e, pol)
  BY <1>6 DEF Proposals, ProtectedProposals
<1>7. GitmootSignal(e) => Opinion("protected", "keep", Len(e.path)) \in Proposals(e, pol)
  BY DEF Proposals, ProtectedProposals
<1>8. ASSUME NEW r \in pol.canonical, r.class = Classify(e), PathWithin(e.path, r.path)
      PROVE  Opinion("protected", "keep", Len(r.path)) \in Proposals(e, pol)
  <2>1. Opinion("protected", "keep", Len(r.path)) \in ProtectedProposals(e, Classify(e), pol)
    BY <1>8 DEF ProtectedProposals
  <2> QED
    BY <2>1 DEF Proposals
<1>9. ASSUME NEW r \in pol.canonical, r.class = Classify(e), r.class = "primary_project",
             PathWithin(r.path, e.path), ~PathWithin(e.path, r.path)
      PROVE  Opinion("protected", "investigate", Len(r.path)) \in Proposals(e, pol)
  <2>1. Opinion("protected", "investigate", Len(r.path)) \in ProtectedProposals(e, Classify(e), pol)
    BY <1>9 DEF ProtectedProposals
  <2> QED
    BY <2>1 DEF Proposals
<1> HIDE DEF Tier, Kinds
<1>10. /\ \A p \in pol.protect \cup pol.home : PathsOverlap(e.path, p) =>
                \E q \in Proposals(e, pol) : q.tier = 1 /\ q.kind = "keep"
       /\ GitmootSignal(e) => \E q \in Proposals(e, pol) : q.tier = 1 /\ q.kind = "keep"
  BY <1>1, <1>3, <1>4, <1>6, <1>7
<1>11. ASSUME NEW r \in pol.canonical, r.class = Classify(e), PathWithin(e.path, r.path)
       PROVE  \E q \in Proposals(e, pol) : q.tier = 1 /\ q.kind = "keep"
  BY <1>3, <1>5, <1>8, <1>11
<1>12. ASSUME NEW r \in pol.canonical, r.class = Classify(e), r.class = "primary_project", PathWithin(r.path, e.path)
       PROVE  \E q \in Proposals(e, pol) : q.tier = 1 /\ q.kind \in {"keep", "investigate"}
  BY <1>3, <1>5, <1>9, <1>11, <1>12
<1> QED
  BY <1>10, <1>11, <1>12

\* So do the rules that name it.
LEMMA RulesPropose ==
    ASSUME NEW e \in Entry, NEW pol \in Policy, Finite(pol)
    PROVE  /\ \A r \in pol.caches : PathWithin(e.path, r.path) =>
                \E q \in Proposals(e, pol) : q.tier = 2 /\ q.kind = BoundedCacheAction(e, r)
           /\ \A r \in pol.released : r.path = e.path =>
                \E q \in Proposals(e, pol) : q.tier = 2 /\ (~e.archived => q.kind = "keep")
<1>1. Tier["explicit"] = 2
  BY TierIs
<1>2. ASSUME NEW r \in pol.caches, PathWithin(e.path, r.path)
      PROVE  \E q \in Proposals(e, pol) : q.tier = 2 /\ q.kind = BoundedCacheAction(e, r)
  <2> DEFINE q == Proposal("explicit", BoundedCacheAction(e, r), Len(r.path), r.ord, r.retention, NoDest)
  <2>1. q \in ExplicitProposals(e, pol)
    BY <1>2 DEF ExplicitProposals
  <2>2. q.tier = 2 /\ q.kind = BoundedCacheAction(e, r)
    BY <1>1 DEF Proposal
  <2> QED
    BY <2>1, <2>2 DEF Proposals
<1>3. ASSUME NEW r \in pol.released, r.path = e.path
      PROVE  \E q \in Proposals(e, pol) : q.tier = 2 /\ (~e.archived => q.kind = "keep")
  <2> DEFINE q == Proposal("explicit", IF r.expiry /\ e.archived THEN "quarantine" ELSE "keep",
                           Len(r.path), Cardinality(pol.caches) + 1, pol.retention, NoDest)
  <2>1. q \in ExplicitProposals(e, pol)
    BY <1>3 DEF ExplicitProposals
  <2>2. q.tier = 2 /\ (~e.archived => q.kind = "keep")
    BY <1>1 DEF Proposal
  <2> QED
    BY <2>1, <2>2 DEF Proposals
<1> QED
  BY <1>2, <1>3

\* Nothing is against changing an entry in one of the ways the kind stands for.
Unopposed(e, pol, kind) ==
    /\ Verdict(e, pol) = {} /\ ~GitmootSignal(e)
    /\ \A p \in pol.protect \cup pol.home : ~PathsOverlap(e.path, p)
    /\ \A r \in pol.canonical : r.class = Classify(e) =>
        /\ ~PathWithin(e.path, r.path)
        /\ r.class = "primary_project" => ~PathWithin(r.path, e.path)
    /\ kind # "relocate" =>
        /\ \A r \in pol.caches : PathWithin(e.path, r.path) => Risk[BoundedCacheAction(e, r)] >= Risk[kind]
        /\ \A r \in pol.released : r.path = e.path => e.archived

\* What the rules decide to change is unopposed.
LEMMA DecisionIsUnopposed ==
    ASSUME NEW e \in Entry, NEW pol \in Policy, Finite(pol), Evaluate(e, pol).kind \in Mutating
    PROVE  Unopposed(e, pol, Evaluate(e, pol).kind)
<1> DEFINE ps == Proposals(e, pol)
           won == Winner(ps)
           kind == Evaluate(e, pol).kind
<1>1. won \in ps /\ kind = won.kind /\ Verdict(e, pol) = {}
  BY ProposalsHave, EvaluateIs
<1>2. \A q \in ps : /\ won.tier <= q.tier
                    /\ q.tier = won.tier => Risk[kind] <= Risk[q.kind]
  BY <1>1, ProposalsHave
<1>3. \/ won.tier = 1 /\ won.kind \in {"keep", "investigate", "relocate"}
      \/ won.tier \in {2, 3, 4}
  BY <1>1, UnrefusedIsFree, ProtectedAre, ExplicitAre, OthersAre DEF Proposals
<1>4. kind \in {"relocate", "quarantine", "delete_candidate"} /\ kind \in Kinds
  BY EvaluateIs DEF Mutating
<1> HIDE DEF ps, won, kind
<1>5. Risk[kind] \in {2, 3, 4} /\ Risk["keep"] = 0 /\ Risk["investigate"] = 1
  <2> HIDE DEF Risk
  <2> QED
    BY <1>4, RiskIs
<1>6. \A q \in ps : q.kind \in {"keep", "investigate"} => q.tier # 1
  <2> HIDE DEF Risk
  <2> QED
    BY <1>2, <1>3, <1>5
<1>7. ASSUME kind # "relocate", NEW q \in ps, q.tier = 2
      PROVE  Risk[q.kind] >= Risk[kind]
  <2>1. won.tier = 2
    BY <1>1, <1>2, <1>3, <1>4, <1>7
  <2>2. ps \subseteq Proposed
    BY ProposalsHave DEF ps
  <2>3. Risk[q.kind] \in 0 .. 4 /\ Risk[kind] \in 0 .. 4
    BY <1>4, <2>2, RiskType DEF Proposed
  <2>4. Risk[kind] <= Risk[q.kind]
    BY <1>2, <1>7, <2>1
  <2> HIDE DEF Risk
  <2> QED
    BY <2>3, <2>4
<1>8. /\ ~GitmootSignal(e)
      /\ \A p \in pol.protect \cup pol.home : ~PathsOverlap(e.path, p)
      /\ \A r \in pol.canonical : r.class = Classify(e) =>
          /\ ~PathWithin(e.path, r.path)
          /\ r.class = "primary_project" => ~PathWithin(r.path, e.path)
  BY <1>6, ProtectionIsProposed DEF ps
<1>9. ASSUME kind # "relocate", NEW r \in pol.caches, PathWithin(e.path, r.path)
      PROVE  Risk[BoundedCacheAction(e, r)] >= Risk[kind]
  <2>1. PICK q \in ps : q.tier = 2 /\ q.kind = BoundedCacheAction(e, r)
    BY <1>9, RulesPropose DEF ps
  <2> HIDE DEF Risk
  <2> QED
    BY <1>7, <1>9, <2>1
<1>10. ASSUME kind # "relocate", NEW r \in pol.released, r.path = e.path
       PROVE  e.archived
  <2>1. PICK q \in ps : q.tier = 2 /\ (~e.archived => q.kind = "keep")
    BY <1>10, RulesPropose DEF ps
  <2>2. Risk[q.kind] >= Risk[kind]
    BY <1>7, <1>10, <2>1
  <2>3. e.archived \in BOOLEAN
    BY DEF Entry
  <2> HIDE DEF Risk
  <2> QED
    BY <1>5, <2>1, <2>2, <2>3
<1> QED
  BY <1>1, <1>8, <1>9, <1>10 DEF Unopposed, kind

\* A model that advises makes no decision riskier and opposes nothing that is unopposed.
LEMMA AdviceIsSafer ==
    ASSUME NEW e \in Entry, NEW pol \in Policy, Finite(pol), NEW advised,
           NEW a, a \in {Evaluate(e, pol), ApplyAdvice(Evaluate(e, pol), Refused(e, pol), advised)},
           a.kind \in Mutating
    PROVE  /\ Evaluate(e, pol).kind \in Mutating
           /\ Risk[a.kind] <= Risk[Evaluate(e, pol).kind]
           /\ a.kind # "relocate" => Evaluate(e, pol).kind # "relocate"
<1> DEFINE d == Evaluate(e, pol)
           clamped == ClampRecommendation(Refused(e, pol), advised)
<1>1. d.kind \in Kinds /\ Risk[d.kind] \in 0 .. 4
  BY EvaluateIs, RiskType
<1>2. CASE a = d
  <2> HIDE DEF Risk, Kinds, d
  <2>1. Risk[d.kind] <= Risk[d.kind]
    BY <1>1
  <2> QED
    BY <1>2, <2>1 DEF d
<1>3. CASE a # d
  <2>1. /\ advised \in {"keep", "quarantine", "investigate"} /\ ~(Risk[clamped] >= Risk[d.kind])
        /\ a = [d EXCEPT !.kind = clamped, !.retention = NoRetention, !.dest = NoDest]
    BY <1>3 DEF ApplyAdvice
  <2>2. a.kind = clamped
    BY <2>1 DEF Evaluate
  <2>3. clamped \in {"keep", "quarantine", "investigate"}
    BY <2>1 DEF ClampRecommendation
  <2>4. clamped = "quarantine"
    BY <2>2, <2>3 DEF Mutating
  <2> HIDE DEF d, clamped, Risk, Kinds
  <2>5. Risk[a.kind] = 3 /\ Risk[d.kind] = 4 /\ d.kind = "delete_candidate"
    BY <1>1, <2>1, <2>2, <2>4, RiskIs
  <2> QED
    BY <2>2, <2>4, <2>5 DEF d, Mutating
<1> QED
  BY <1>2, <1>3

\* What a plan changes is unopposed, and no riskier than what the rules decide.
LEMMA PlanIsUnopposed ==
    ASSUME NEW scan, NEW entries, entries \subseteq Entry, NEW pol \in Policy, Finite(pol), NEW advice,
           NEW a \in Build(scan, entries, pol, advice).actions, a.kind \in Mutating
    PROVE  \E e \in entries : /\ e.path = a.path /\ Unopposed(e, pol, a.kind)
                              /\ Risk[a.kind] <= Risk[Evaluate(e, pol).kind]
<1>1. a \in ResolveDestinationCollisions(Decide(entries, pol, advice), entries)
  BY DEF Build
<1>2. PICK b \in Decide(entries, pol, advice) :
          a = IF Collides(b, Decide(entries, pol, advice), entries)
              THEN [b EXCEPT !.kind = "investigate", !.dest = NoDest, !.retention = NoRetention] ELSE b
  BY <1>1 DEF ResolveDestinationCollisions
<1>3. PICK e \in entries :
          LET d == Evaluate(e, pol)
              g == IF d.ambiguous /\ e.path \in DOMAIN advice
                   THEN ApplyAdvice(d, Refused(e, pol), advice[e.path]) ELSE d
          IN  b = [path |-> e.path, kind |-> g.kind, dest |-> g.dest, retention |-> g.retention]
  BY <1>2 DEF Decide
<1> DEFINE d == Evaluate(e, pol)
           g == IF d.ambiguous /\ e.path \in DOMAIN advice
                THEN ApplyAdvice(d, Refused(e, pol), advice[e.path]) ELSE d
<1>4. g \in {d, ApplyAdvice(d, Refused(e, pol), advice[e.path])}
  OBVIOUS
<1> HIDE DEF d, g
<1>5. b = [path |-> e.path, kind |-> g.kind, dest |-> g.dest, retention |-> g.retention]
  BY <1>3 DEF d, g
<1>6. a = b
  BY <1>2, <1>5 DEF Mutating
<1>7. a.path = e.path /\ a.kind = g.kind /\ g.kind \in Mutating
  BY <1>5, <1>6
<1>8. /\ d.kind \in Mutating /\ Risk[a.kind] <= Risk[d.kind]
      /\ a.kind # "relocate" => d.kind # "relocate"
  BY <1>4, <1>7, AdviceIsSafer DEF d
<1>9. Unopposed(e, pol, d.kind)
  BY <1>8, DecisionIsUnopposed DEF d
<1>10. ASSUME a.kind # "relocate", NEW r \in pol.caches, PathWithin(e.path, r.path)
       PROVE  Risk[BoundedCacheAction(e, r)] >= Risk[a.kind]
  <2>1. Risk[BoundedCacheAction(e, r)] \in 0 .. 4
    BY PolicyHas, BoundedCacheActionType, RiskType
  <2>2. Risk[d.kind] \in 0 .. 4 /\ Risk[a.kind] \in 0 .. 4
    <3>1. d.kind \in Kinds /\ a.kind \in Kinds
      BY <1>7, <1>8, RiskIs DEF Mutating
    <3> QED
      BY <3>1, RiskType
  <2>3. Risk[BoundedCacheAction(e, r)] >= Risk[d.kind]
    BY <1>8, <1>9, <1>10 DEF Unopposed
  <2> HIDE DEF Risk
  <2> QED
    BY <1>8, <2>1, <2>2, <2>3
<1>11. Unopposed(e, pol, a.kind)
  BY <1>8, <1>9, <1>10 DEF Unopposed
<1> QED
  BY <1>7, <1>8, <1>11 DEF d

\* A plan relocates nothing to where the inventory saw something, and no two things to one place.
LEMMA PlanHasFreeDestinations ==
    ASSUME NEW scan, NEW entries, NEW pol, NEW advice,
           NEW a \in Build(scan, entries, pol, advice).actions, a.kind = "relocate"
    PROVE  /\ \A e \in entries : e.path # a.dest
           /\ \A b \in Build(scan, entries, pol, advice).actions : b.kind = "relocate" /\ b.dest = a.dest => b = a
<1> DEFINE actions == Decide(entries, pol, advice)
<1>1. Build(scan, entries, pol, advice).actions = ResolveDestinationCollisions(actions, entries)
  BY DEF Build
<1>2. ASSUME NEW b \in ResolveDestinationCollisions(actions, entries), b.kind = "relocate"
      PROVE  b \in actions /\ ~Collides(b, actions, entries)
  <2>1. PICK c \in actions :
            b = IF Collides(c, actions, entries)
                THEN [c EXCEPT !.kind = "investigate", !.dest = NoDest, !.retention = NoRetention] ELSE c
    BY DEF ResolveDestinationCollisions
  <2>2. \E e \in entries : \E k, x, r : c = [path |-> e.path, kind |-> k, dest |-> x, retention |-> r]
    BY <2>1 DEF Decide
  <2> HIDE DEF actions
  <2>3. ~Collides(c, actions, entries)
    BY <1>2, <2>1, <2>2
  <2> QED
    BY <2>1, <2>3
<1> HIDE DEF actions
<1>3. a \in actions /\ ~Collides(a, actions, entries)
  BY <1>1, <1>2
<1>4. \A b \in ResolveDestinationCollisions(actions, entries) : b.kind = "relocate" => b \in actions
  BY <1>2
<1> QED
  BY <1>1, <1>3, <1>4 DEF Collides

-----------------------------------------------------------------------------
(* The inductive invariant.  A collection that runs for apply accumulates,   *)
(* source by source, what bars each entry from being moved; a scan keeps     *)
(* what its roots say of an entry through the merge of the roots.            *)

Ref == [of : Holder, path : Spot \cup {Nowhere}, subtree : BOOLEAN]
Stages == {"processes", "agents", "services", "gitmoot"}
Sources == Stages \cup {"filesystem"}

Observation ==
    [pol : Policy \cup {None}, target : Paths, todo : Seq(InventoryRoot), entries : SUBSET Entry,
     reported : SUBSET Paths, gap : SUBSET Sources, listed : Nat, unread : SUBSET Holder, refs : SUBSET Ref]
Stored == [scan : Nat, pol : Policy, entries : SUBSET Entry, reported : SUBSET Paths]

WorldTypes ==
    /\ machine \in Layout /\ file \in machine.policies
    /\ version \in [Path -> Nat] /\ at \in [Holder -> Spot \cup {Nowhere}]
    /\ work \subseteq {p \in Path : machine.entity[p].git # "none"}

ObsTypes ==
    /\ pc \in {"idle", "walk", "bind", "move"} \cup Stages
    /\ obs \in Observation /\ (pc # "idle" => obs.pol \in machine.policies)
    /\ steady \in [held : SUBSET Ref, dirty : SUBSET Paths]

StoreTypes ==
    /\ inv = None \/ inv \in Stored
    /\ plan # None => inv # None /\ plan.scan \in Nat /\ plan.scan <= inv.scan

\* What the control of a command keeps.
Control ==
    /\ pc = "idle" => obs = Idle
    /\ pc = "walk" => obs.listed = 0
    /\ pc \notin Stages => obs.unread = {}
    /\ obs.target = <<>> => steady = Nothing
    /\ pc = "move" => obs.target # <<>> /\ ~EvidenceGap /\ Revalidated

\* What has held since apply began, holds: the holders are where they were, the work is there.
Steady ==
    /\ \A r \in steady.held : at[r.of] # Nowhere /\ r = Reference(r.of)
    /\ steady.dirty \subseteq work

ArchiveOnly == {"archive_only_root"}

\* An entry tells of its path what there is, and what its policy says of it.
EntryTells(e, pol) ==
    /\ e.path \in Path /\ Len(e.root) <= Len(e.path)
    /\ e.is.git = machine.entity[e.path].git
    /\ e.is.kind = machine.entity[e.path].kind \/ e.unknown # {}
    /\ InArchiveOnlyRoot(pol, e.path) => "archive_only_root" \in e.prot

Entries ==
    /\ \A e \in obs.entries : EntryTells(e, obs.pol)
    /\ \A p \in obs.reported : \E e \in obs.entries : e.path = p /\ "report_only_root" \in e.prot

\* Work that was there before the repositories were inspected bars its entry.
DirtyIsBarred ==
    pc \notin {"idle", "walk"} => \A e \in obs.entries : e.path \in steady.dirty => Blocked(e, ArchiveOnly)

\* Where a source is read, and which of the source's parts.
StageOf(kind) ==
    CASE kind = "process" -> "processes"
      [] kind = "agent"   -> "agents"
      [] kind = "job"     -> "gitmoot"
      [] OTHER            -> "services"

Position(kind) ==
    CASE kind = "definition" -> 2
      [] kind = "pipeline"   -> 3
      [] kind = "stagehand"  -> 4
      [] OTHER               -> 1

Past(stage) ==
    CASE stage = "processes" -> pc \in {"agents", "services", "gitmoot", "bind", "move"}
      [] stage = "agents"    -> pc \in {"services", "gitmoot", "bind", "move"}
      [] stage = "services"  -> pc \in {"gitmoot", "bind", "move"}
      [] OTHER               -> pc \in {"bind", "move"}

Hits(r, p) == IF Uses[r.of] = "job" THEN r.path = p ELSE Covers(r, p)

\* A holder that stays is known from where its source has told of it; or there is a gap.
Gathered ==
    \A r \in steady.held :
        pc = StageOf(Uses[r.of]) /\ Position(Uses[r.of]) <= obs.listed =>
            r.of \in obs.unread \/ r \in obs.refs \/ pc \in obs.gap

HeldIsBarred ==
    \A r \in steady.held :
        Past(StageOf(Uses[r.of])) /\ StageOf(Uses[r.of]) \notin obs.gap =>
            \A e \in obs.entries : Hits(r, e.path) => Blocked(e, ArchiveOnly)

\* What a stored inventory says of its paths.
Inventoried ==
    inv # None => \A e \in inv.entries :
        e.path \in Path /\ (e.path \in inv.reported => "report_only_root" \in e.prot)

\* What a plan of the stored inventory changes.
PlanIsSound ==
    plan # None /\ plan.scan = inv.scan =>
        /\ \A a \in plan.actions : a.kind \in Mutating =>
            \E e \in inv.entries : /\ e.path = a.path /\ Unopposed(e, plan.pol, a.kind)
                                   /\ Risk[a.kind] <= Risk[Evaluate(e, plan.pol).kind]
        /\ \A a \in plan.actions : a.kind = "relocate" =>
            /\ \A e \in inv.entries : e.path # a.dest
            /\ \A b \in plan.actions : b.kind = "relocate" /\ b.dest = a.dest => b = a

Typed == WorldTypes /\ ObsTypes /\ StoreTypes

InventoryInv ==
    /\ Typed /\ Control /\ Steady /\ Entries /\ DirtyIsBarred /\ Gathered /\ HeldIsBarred
    /\ Inventoried /\ PlanIsSound

-----------------------------------------------------------------------------
(* What the layouts are, and the types of what is collected. *)

\* A machine of the layouts: its entities, policies and holders.
LEMMA MachineHas ==
    ASSUME NEW l \in Layout
    PROVE  /\ DOMAIN l.entity \subseteq Paths \ {<<>>}
           /\ \A p \in DOMAIN l.entity : /\ l.entity[p] \in Entity
                                         /\ l.entity[p].git # "none" => l.entity[p].kind = "dir"
           /\ l.policies # {} /\ l.policies \subseteq Policy /\ \A pol \in l.policies : Finite(pol)
           /\ l.at \in [Holder -> Spot \cup {Nowhere}]
           /\ \A h \in Holder : l.spots[h] \subseteq Spot \cup {Nowhere}
<1>1. l.entity \in [DOMAIN l.entity -> Entity] /\ l.spots \in [Holder -> SUBSET (Spot \cup {Nowhere})]
  BY InventoryAssumption
<1> HIDE DEF Entity
<1> QED
  BY <1>1, InventoryAssumption

\* The parts of the record of a collection.
LEMMA ObservationHas ==
    ASSUME NEW o \in Observation
    PROVE  /\ o.target \in Paths /\ o.todo \in Seq(InventoryRoot) /\ o.entries \subseteq Entry
           /\ o.reported \subseteq Paths /\ o.gap \subseteq Sources /\ o.listed \in Nat
           /\ o.unread \subseteq Holder /\ o.refs \subseteq Ref
  BY DEF Observation

\* A collection starts from nothing.
LEMMA IdleType ==
    /\ Idle \in Observation /\ Idle.target = <<>> /\ Idle.entries = {} /\ Idle.listed = 0 /\ Idle.reported = {}
    /\ Nothing \in [held : SUBSET Ref, dirty : SUBSET Paths]
    /\ \A pol \in Policy, target \in Paths, todo \in Seq(InventoryRoot) :
        /\ [Idle EXCEPT !.pol = pol, !.target = target, !.todo = todo] \in Observation
        /\ [Idle EXCEPT !.pol = pol, !.todo = todo] \in Observation
<1>1. <<>> \in Paths /\ <<>> \in Seq(InventoryRoot)
  BY EmptySeq DEF Paths
<1>2. Idle \in Observation
  <2> HIDE DEF None, Paths, InventoryRoot, Policy, Entry, Ref, Sources
  <2> QED
    BY <1>1 DEF Idle, Observation
<1>3. ASSUME NEW pol \in Policy, NEW target \in Paths, NEW todo \in Seq(InventoryRoot)
      PROVE  /\ [Idle EXCEPT !.pol = pol, !.target = target, !.todo = todo] \in Observation
             /\ [Idle EXCEPT !.pol = pol, !.todo = todo] \in Observation
  <2> HIDE DEF None, Paths, InventoryRoot, Policy, Entry, Ref, Idle
  <2> QED
    BY <1>2 DEF Observation
<1> QED
  BY <1>2, <1>3 DEF Idle, Nothing

\* What a walk lists is an entry of its path.
LEMMA EntryForType ==
    ASSUME WorldTypes, NEW p \in Path, NEW root \in InventoryRoot, NEW bad, NEW how \in Unread, NEW pol
    PROVE  /\ EntryFor(p, root, bad, how, pol) \in Entry
           /\ EntryFor(p, root, bad, how, pol).path = p
           /\ EntryFor(p, root, bad, how, pol).root = root.path
<1>1. machine.entity[p] \in Entity /\ version[p] \in Nat /\ 0 \in Nat /\ p \in Paths \ {<<>>}
  BY MachineHas DEF WorldTypes, Path
<1>2. [machine.entity[p] EXCEPT !.kind = "unknown"] \in Entity
  <2> HIDE DEF Paths
  <2> QED
    BY <1>1 DEF Entity
<1>3. root.path \in Paths
  BY DEF InventoryRoot
<1>4. Linked(p, root) \in {"no", "unresolved", "inside", "outside"}
  BY DEF Linked
<1>5. NoGit \in [kind : {"none", "primary", "linked"}, degraded : BOOLEAN, work : SUBSET {"dirty"}, idle : BOOLEAN]
  BY DEF NoGit
<1> DEFINE is == IF p = bad /\ how = "lstat_failed" THEN [machine.entity[p] EXCEPT !.kind = "unknown"] ELSE machine.entity[p]
           ver == IF p = bad /\ how = "lstat_failed" THEN 0 ELSE version[p]
           link == Linked(p, root)
           unknown == (IF Parent(p) \in Oversize THEN {"directory_truncated"} ELSE {})
                    \cup (IF p = bad THEN {how} ELSE {})
                    \cup (IF p # bad /\ Linked(p, root) \in {"unresolved", "outside"} THEN {"symlink"} ELSE {})
           prot == (IF root.archiveOnly \/ InArchiveOnlyRoot(pol, p) THEN {"archive_only_root"} ELSE {})
                 \cup (IF root.reportOnly THEN {"report_only_root"} ELSE {})
<1>6. is \in Entity /\ ver \in Nat
  BY <1>1, <1>2
<1>7. unknown \in SUBSET Unknowns /\ prot \in SUBSET Protections /\ FALSE \in BOOLEAN
  BY DEF Unknowns, Protections, Unread
<1>8. EntryFor(p, root, bad, how, pol) =
        [path |-> p, root |-> root.path, is |-> is, version |-> ver, link |-> link, git |-> NoGit,
         signals |-> {}, archived |-> FALSE, unknown |-> unknown, prot |-> prot]
  BY DEF EntryFor
<1> HIDE DEF is, ver, link, unknown, prot
<1>9. link \in {"no", "unresolved", "inside", "outside"} /\ {} \in SUBSET {"gitmoot"}
  BY <1>4 DEF link
<1> HIDE DEF Paths, Entity
<1> QED
  BY <1>1, <1>3, <1>5, <1>6, <1>7, <1>8, <1>9 DEF Entry

-----------------------------------------------------------------------------
(* Entries grow: a source adds to what is said of an entry and takes nothing. *)

Grown(e, f) ==
    /\ f \in Entry /\ f.path = e.path /\ f.root = e.root /\ f.is = e.is /\ f.version = e.version
    /\ e.prot \subseteq f.prot /\ e.unknown \subseteq f.unknown

GrownInto(S, T) == (\A e \in S : \E f \in T : Grown(e, f)) /\ (\A f \in T : \E e \in S : Grown(e, f))

\* The parts of an entry.
LEMMA EntryHas ==
    ASSUME NEW e \in Entry
    PROVE  /\ e.path \in Paths \ {<<>>} /\ e.root \in Paths /\ e.is \in Entity /\ e.version \in Nat
           /\ e.prot \in SUBSET Protections /\ e.unknown \in SUBSET Unknowns /\ e.signals \in SUBSET {"gitmoot"}
           /\ e.is.git \in {"none", "primary", "linked"} /\ e.is.idle \in BOOLEAN
           /\ Len(e.path) \in Nat /\ Len(e.root) \in Nat
<1>1. e.path \in Paths \ {<<>>} /\ e.root \in Paths
  BY DEF Entry
<1>2. e.is \in Entity
  BY DEF Entry
<1> QED
  BY <1>1, <1>2, PathHas DEF Entry, Entity

\* To inspect a repository only adds to its entry, and work that is there bars it.
LEMMA ObservedGrows ==
    ASSUME NEW e \in Entry, NEW slow
    PROVE  /\ Grown(e, Observed(e, slow))
           /\ e.path \in work /\ e.is.kind = "dir" /\ e.is.git # "none" => Blocked(Observed(e, slow), ArchiveOnly)
<1> DEFINE git == [kind |-> e.is.git, degraded |-> e.path = slow, idle |-> e.is.idle,
                   work |-> IF e.path \in work /\ e.path # slow THEN {"dirty"} ELSE {}]
           unknown == e.unknown \cup (IF e.path = slow THEN {"git"} ELSE {})
           prot == e.prot \cup (IF e.path \in work /\ e.path # slow THEN {"dirty_repository"} ELSE {})
           f == [e EXCEPT !.git = git, !.unknown = unknown, !.prot = prot]
<1>1. git \in [kind : {"none", "primary", "linked"}, degraded : BOOLEAN, work : SUBSET {"dirty"}, idle : BOOLEAN]
  BY EntryHas
<1>2. unknown \in SUBSET Unknowns /\ prot \in SUBSET Protections
  BY EntryHas DEF Unknowns, Protections
<1>3. Observed(e, slow) = IF e.is.kind # "dir" \/ e.is.git = "none" THEN e ELSE f
  BY DEF Observed
<1>4. e.path \in work => "git" \in unknown \/ "dirty_repository" \in prot
  OBVIOUS
<1>5. e.unknown \subseteq unknown /\ e.prot \subseteq prot
  OBVIOUS
<1> HIDE DEF git, unknown, prot
<1>6. Grown(e, e)
  BY DEF Grown
<1>7. f \in Entry
  <2> HIDE DEF Entity, Paths, Unknowns, Protections
  <2> QED
    BY <1>1, <1>2 DEF Entry
<1>8. /\ f.path = e.path /\ f.root = e.root /\ f.is = e.is /\ f.version = e.version
      /\ f.prot = prot /\ f.unknown = unknown
  BY DEF Entry
<1>9. Grown(e, f)
  BY <1>5, <1>7, <1>8 DEF Grown
<1> HIDE DEF f
<1> QED
  BY <1>3, <1>4, <1>6, <1>8, <1>9 DEF Blocked, ArchiveOnly

\* References only add to the entries, and bar those they cover.
LEMMA AttachReferencesGrows ==
    ASSUME NEW S, S \subseteq Entry, NEW refs
    PROVE  /\ GrownInto(S, AttachReferences(S, refs))
           /\ \A f \in AttachReferences(S, refs) : \A r \in refs : Covers(r, f.path) => Blocked(f, ArchiveOnly)
<1> DEFINE g(e) == IF \E r \in refs : Covers(r, e.path) THEN [e EXCEPT !.prot = @ \cup {"reference"}] ELSE e
<1>1. ASSUME NEW e \in S
      PROVE  /\ Grown(e, g(e))
             /\ \A r \in refs : Covers(r, g(e).path) => Blocked(g(e), ArchiveOnly)
  <2> DEFINE prot == e.prot \cup {"reference"}
             f == [e EXCEPT !.prot = prot]
  <2>0. e \in Entry
    OBVIOUS
  <2>1. prot \in SUBSET Protections /\ e.prot \subseteq prot /\ "reference" \in prot
    BY <2>0, EntryHas DEF Protections
  <2>2. g(e) = IF \E r \in refs : Covers(r, e.path) THEN f ELSE e
    OBVIOUS
  <2> HIDE DEF prot, g
  <2>3. f \in Entry
    BY <2>0, <2>1 DEF Entry
  <2>4. /\ f.path = e.path /\ f.root = e.root /\ f.is = e.is /\ f.version = e.version
        /\ f.prot = prot /\ f.unknown = e.unknown
    BY <2>0 DEF Entry
  <2>5. Grown(e, f) /\ Grown(e, e)
    BY <2>0, <2>1, <2>3, <2>4 DEF Grown
  <2>6. Blocked(f, ArchiveOnly)
    BY <2>1, <2>4 DEF Blocked, ArchiveOnly
  <2>7. Grown(e, g(e))
    BY <2>2, <2>5
  <2>8. ASSUME NEW r \in refs, Covers(r, g(e).path) PROVE Blocked(g(e), ArchiveOnly)
    <3>1. Covers(r, e.path)
      BY <2>7, <2>8 DEF Grown
    <3>2. g(e) = f
      BY <2>2, <3>1
    <3> QED
      BY <2>6, <3>2
  <2> QED
    BY <2>7, <2>8
<1>2. AttachReferences(S, refs) = {g(e) : e \in S}
  BY DEF AttachReferences
<1> HIDE DEF g
<1> QED
  BY <1>1, <1>2 DEF GrownInto

\* The ledger only adds to the entries, and bars those it names unless it has failed.
LEMMA AttachGitmootGrows ==
    ASSUME NEW S, S \subseteq Entry, NEW refs, NEW gap, NEW pol
    PROVE  /\ GrownInto(S, AttachGitmoot(S, refs, pc \in gap, pol))
           /\ \A f \in AttachGitmoot(S, refs, pc \in gap, pol) : \A r \in refs :
                pc \notin gap /\ r.path = f.path => Blocked(f, ArchiveOnly)
<1> DEFINE named(e) == \E r \in refs : r.path = e.path
           inside(e) == \E d \in pol.home : PathWithin(e.path, d)
           owed(e) == e.path \in pol.recovery /\ (pc \in gap \/ refs # {})
           g(e) == IF ~inside(e) /\ (~named(e) \/ pc \in gap) /\ ~owed(e) THEN e
                   ELSE IF inside(e) /\ named(e) /\ pc \notin gap /\ e.is.kind # "symlink"
                        THEN [e EXCEPT !.signals = @ \cup {"gitmoot"}, !.prot = @ \cup {"owning_job"},
                                       !.unknown = IF owed(e) THEN @ \cup {"gitmoot"} ELSE @]
                   ELSE [e EXCEPT !.unknown = @ \cup {"gitmoot"}]
<1>1. ASSUME NEW e \in S
      PROVE  /\ Grown(e, g(e))
             /\ pc \notin gap /\ named(e) => Blocked(g(e), ArchiveOnly)
  <2> DEFINE prot == e.prot \cup {"owning_job"}
             unknown == e.unknown \cup {"gitmoot"}
             signals == e.signals \cup {"gitmoot"}
             more == IF owed(e) THEN unknown ELSE e.unknown
             f == [e EXCEPT !.signals = signals, !.prot = prot, !.unknown = more]
             u == [e EXCEPT !.unknown = unknown]
  <2>0. e \in Entry
    OBVIOUS
  <2>1. /\ prot \in SUBSET Protections /\ e.prot \subseteq prot /\ "owning_job" \in prot
        /\ unknown \in SUBSET Unknowns /\ e.unknown \subseteq unknown /\ "gitmoot" \in unknown
        /\ signals \in SUBSET {"gitmoot"}
    BY <2>0, EntryHas DEF Protections, Unknowns
  <2>8. more \in SUBSET Unknowns /\ e.unknown \subseteq more
    BY <2>0, <2>1, EntryHas
  <2>2. g(e) = IF ~inside(e) /\ (~named(e) \/ pc \in gap) /\ ~owed(e) THEN e
               ELSE IF inside(e) /\ named(e) /\ pc \notin gap /\ e.is.kind # "symlink" THEN f ELSE u
    OBVIOUS
  <2> HIDE DEF prot, unknown, signals, more, g, named, inside, owed
  <2>3. f \in Entry /\ u \in Entry
    BY <2>0, <2>1, <2>8 DEF Entry
  <2>4. /\ f.path = e.path /\ f.root = e.root /\ f.is = e.is /\ f.version = e.version
        /\ f.prot = prot /\ f.unknown = more
        /\ u.path = e.path /\ u.root = e.root /\ u.is = e.is /\ u.version = e.version
        /\ u.prot = e.prot /\ u.unknown = unknown
    BY <2>0 DEF Entry
  <2>5. Grown(e, f) /\ Grown(e, e) /\ Grown(e, u)
    BY <2>0, <2>1, <2>3, <2>4, <2>8 DEF Grown
  <2>6. Blocked(f, ArchiveOnly) /\ Blocked(u, ArchiveOnly)
    BY <2>1, <2>4 DEF Blocked, ArchiveOnly
  <2> HIDE DEF f, u
  <2>7. g(e) \in {e, f, u} /\ (pc \notin gap /\ named(e) => g(e) \in {f, u})
    BY <2>2
  <2> QED
    BY <2>5, <2>6, <2>7
<1>2. AttachGitmoot(S, refs, pc \in gap, pol) = {g(e) : e \in S}
  BY DEF AttachGitmoot
<1>3. \A e \in S : \A r \in refs : r.path = e.path => named(e)
  OBVIOUS
<1> HIDE DEF g, named
<1>4. \A e \in S : g(e).path = e.path
  BY <1>1 DEF Grown
<1> QED
  BY <1>1, <1>2, <1>3, <1>4 DEF GrownInto

-----------------------------------------------------------------------------
(* Steps keep the types. *)

\* What goes on outside, what a collection does, and what the commands do.
Outside ==
    \/ \E h \in Holder : \E where \in machine.spots[h] : Turn(h, where)
    \/ \E p \in machine.written : Write(p)
    \/ \E p \in Path : Work(p)
    \/ \E pol \in machine.policies : EditPolicy(pol)

Reads ==
    \/ \E h \in Holder : ReadProcess(h) \/ ReadUnit(h) \/ ReadDefinition(h) \/ ReadStagehand(h) \/ ReadFails(h)
    \/ \E kind \in HolderKinds : ListHolders(kind) \/ SourceFails(kind)
    \/ AskAgents \/ QueryPipelines \/ QueryGitmoot

Collects == Reads \/ WalkRoot \/ CollectGit \/ Publish \/ TimesOut

\* These are all the steps.
LEMMA StepsAre ==
    Next => Outside \/ Collects \/ StartScan \/ EndScan \/ Plan \/ Apply \/ EndRecheck \/ Move
  BY DEF Next, Outside, Collects, Reads

\* What is outside changes no observation, no inventory and no plan.
LEMMA OutsideKeeps ==
    Outside => UNCHANGED <<machine, pc, obs, inv, plan>>
  BY DEF Outside, Turn, Write, Work, EditPolicy

\* A step of a collection changes nothing but its observations.
LEMMA CollectsKeep ==
    Collects => UNCHANGED <<machine, version, work, at, file, inv, plan, steady>>
<1>1. Reads => UNCHANGED <<machine, version, work, at, file, inv, plan, steady>>
  BY DEF Reads, ReadProcess, ReadUnit, ReadDefinition, ReadStagehand, ReadFails, Take, ListHolders, SourceFails,
         AskAgents, QueryPipelines, QueryGitmoot, Answered, world
<1> QED
  BY <1>1 DEF Collects, WalkRoot, CollectGit, Publish, TimesOut, world

\* What is outside keeps its types.
LEMMA WorldStep ==
    ASSUME Typed, Next
    PROVE  WorldTypes'
<1> USE DEF Typed
<1>1. CASE Outside
  <2>1. machine' = machine
    BY <1>1, OutsideKeeps
  <2>2. ASSUME NEW h \in Holder, NEW where \in machine.spots[h], Turn(h, where) PROVE WorldTypes'
    <3>1. where \in Spot \cup {Nowhere}
      BY MachineHas DEF WorldTypes
    <3> QED
      BY <2>1, <2>2, <3>1 DEF Turn, WorldTypes, Path
  <2>3. ASSUME NEW p \in machine.written, Write(p) PROVE WorldTypes'
    <3>1. \A q \in Path : version'[q] \in Nat
      BY <2>3 DEF Write, WorldTypes
    <3>2. version' \in [Path -> Nat]
      BY <2>3, <3>1 DEF Write, WorldTypes
    <3> QED
      BY <2>1, <2>3, <3>2 DEF Write, WorldTypes, Path
  <2>4. ASSUME NEW p \in Path, Work(p) PROVE WorldTypes'
    BY <2>1, <2>4 DEF Work, WorldTypes, Path
  <2>5. ASSUME NEW pol \in machine.policies, EditPolicy(pol) PROVE WorldTypes'
    BY <2>1, <2>5 DEF EditPolicy, WorldTypes, Path
  <2> QED
    BY <1>1, <2>2, <2>3, <2>4, <2>5 DEF Outside
<1>2. CASE Collects
  BY <1>2, CollectsKeep DEF WorldTypes, Path
<1>3. CASE StartScan \/ EndScan \/ Plan \/ Apply \/ EndRecheck
  BY <1>3 DEF StartScan, EndScan, Plan, Apply, EndRecheck, world, WorldTypes, Path
<1>4. CASE Move
  <2>1. PICK replaced \in BOOLEAN :
            version' = IF replaced THEN version
                       ELSE [p \in Path |-> IF PathWithin(p, obs.target) THEN 0 ELSE version[p]]
    BY <1>4 DEF Move
  <2>2. version' \in [Path -> Nat]
    BY <2>1 DEF WorldTypes
  <2> QED
    BY <1>4, <2>2 DEF Move, WorldTypes, Path
<1> QED
  BY <1>1, <1>2, <1>3, <1>4, StepsAre

\* A reference names a holder and where it is.
LEMMA ReferenceType ==
    ASSUME Typed, NEW h \in Holder
    PROVE  Reference(h) \in Ref
<1>1. at[h] \in Spot \cup {Nowhere} /\ (Uses[h] = "stagehand") \in BOOLEAN
  BY DEF Typed, WorldTypes
<1> QED
  BY <1>1 DEF Reference, Ref

\* A reading step keeps the record of the collection and its policy.
LEMMA ReadsType ==
    ASSUME Typed, Control, Reads
    PROVE  /\ obs' \in Observation /\ pc' = pc /\ pc \in Stages
           /\ obs'.pol = obs.pol /\ obs'.target = obs.target /\ obs'.entries = obs.entries
           /\ obs'.reported = obs.reported /\ obs.gap \subseteq obs'.gap
<1>1. obs \in Observation /\ obs.unread \subseteq Holder /\ obs.refs \subseteq Ref /\ obs.gap \subseteq Sources
      /\ obs.listed \in Nat
  BY ObservationHas DEF Typed, ObsTypes
<1>2. pc \in {"idle", "walk", "bind", "move"} \cup Stages
  BY DEF Typed, ObsTypes
<1>3. DOMAIN Gatherers = Stages
  BY DEF Gatherers, Stages
<1>4. \A kind : Present(kind) \subseteq Holder
  BY DEF Present
<1>5. \A kind : Lists(kind) => pc \in Stages
  BY <1>3 DEF Lists
<1>6. ASSUME pc \in Stages, NEW listed \in Nat, NEW unread \in SUBSET Holder, NEW refs \in SUBSET Ref,
             NEW gap \in SUBSET Sources, obs.gap \subseteq gap, pc' = pc,
             \/ obs' = [obs EXCEPT !.listed = listed, !.unread = unread]
             \/ obs' = [obs EXCEPT !.listed = listed, !.refs = refs]
             \/ obs' = [obs EXCEPT !.listed = listed, !.gap = gap]
             \/ obs' = [obs EXCEPT !.unread = unread, !.refs = refs, !.gap = gap]
             \/ obs' = [obs EXCEPT !.unread = unread, !.gap = gap]
      PROVE  /\ obs' \in Observation /\ pc' = pc /\ pc \in Stages
             /\ obs'.pol = obs.pol /\ obs'.target = obs.target /\ obs'.entries = obs.entries
             /\ obs'.reported = obs.reported /\ obs.gap \subseteq obs'.gap
  <2> HIDE DEF Stages, Paths, Ref, Sources, InventoryRoot, Entry, Policy, None
  <2> QED
    BY <1>1, <1>6 DEF Observation
<1>7. CASE \E h \in Holder : ReadProcess(h) \/ ReadUnit(h) \/ ReadDefinition(h) \/ ReadStagehand(h) \/ ReadFails(h)
  <2>1. PICK h \in Holder : h \in obs.unread /\ (Take(h, {}) \/ Take(h, {pc}) \/ ReadFails(h))
    BY <1>7 DEF ReadProcess, ReadUnit, ReadDefinition, ReadStagehand, ReadFails
  <2>2. pc \in Stages
    BY <2>1 DEF Control
  <2> DEFINE unread == obs.unread \ {h}
             refs == obs.refs \cup (IF at[h] = Nowhere THEN {} ELSE {Reference(h)})
             left(gone) == obs.gap \cup (IF at[h] = Nowhere THEN gone ELSE {})
             fails == obs.gap \cup {pc}
  <2>3. unread \in SUBSET Holder /\ refs \in SUBSET Ref
    BY <1>1, ReferenceType
  <2>4. \A gone \in {{}, {pc}} : left(gone) \in SUBSET Sources /\ obs.gap \subseteq left(gone)
    BY <1>1, <2>2 DEF Sources
  <2>5. fails \in SUBSET Sources /\ obs.gap \subseteq fails
    BY <1>1, <2>2 DEF Sources
  <2>6. \/ \E gone \in {{}, {pc}} : obs' = [obs EXCEPT !.unread = unread, !.refs = refs, !.gap = left(gone)]
        \/ obs' = [obs EXCEPT !.unread = unread, !.gap = fails]
    BY <2>1 DEF Take, ReadFails
  <2>7. pc' = pc
    BY <2>1 DEF Take, ReadFails
  <2> HIDE DEF unread, refs, left, fails
  <2> QED
    BY <1>1, <1>6, <2>2, <2>3, <2>4, <2>5, <2>6, <2>7
<1>8. CASE \E kind \in HolderKinds : ListHolders(kind) \/ SourceFails(kind)
  <2>1. PICK kind \in HolderKinds : ListHolders(kind) \/ SourceFails(kind)
    BY <1>8
  <2>2. pc \in Stages /\ obs.listed + 1 \in Nat /\ pc' = pc
    BY <1>1, <1>5, <2>1 DEF ListHolders, SourceFails
  <2>3. obs.gap \cup {pc} \in SUBSET Sources /\ obs.gap \subseteq obs.gap \cup {pc} /\ obs.gap \subseteq obs.gap
        /\ Present(kind) \in SUBSET Holder /\ {} \in SUBSET Ref
    BY <1>1, <1>4, <2>2 DEF Sources
  <2>4. \/ obs' = [obs EXCEPT !.listed = obs.listed + 1, !.unread = Present(kind)]
        \/ obs' = [obs EXCEPT !.listed = obs.listed + 1, !.gap = obs.gap \cup {pc}]
    BY <2>1 DEF ListHolders, SourceFails
  <2> QED
    BY <1>1, <1>6, <2>2, <2>3, <2>4
<1>9. CASE AskAgents \/ QueryPipelines \/ QueryGitmoot
  <2>1. PICK kind \in HolderKinds : Answered(kind)
    BY <1>9 DEF AskAgents, QueryPipelines, QueryGitmoot, HolderKinds
  <2>2. pc \in Stages /\ obs.listed + 1 \in Nat /\ pc' = pc
    BY <1>1, <1>5, <2>1 DEF Answered
  <2>3. obs.refs \cup {Reference(h) : h \in Present(kind)} \in SUBSET Ref /\ obs.gap \subseteq obs.gap
    BY <1>1, <1>4, ReferenceType
  <2>4. obs' = [obs EXCEPT !.listed = obs.listed + 1, !.refs = obs.refs \cup {Reference(h) : h \in Present(kind)}]
    BY <2>1 DEF Answered
  <2> QED
    BY <1>1, <1>6, <2>2, <2>3, <2>4
<1> QED
  BY <1>7, <1>8, <1>9 DEF Reads

\* A root is walked: what was seen is listed, as seen under that root.
LEMMA WalkDoes ==
    ASSUME Typed, Control, WalkRoot
    PROVE  /\ obs' \in Observation /\ pc = "walk" /\ pc' = "walk"
           /\ obs'.pol = obs.pol /\ obs'.target = obs.target /\ obs'.listed = obs.listed /\ obs'.unread = obs.unread
           /\ \E root \in InventoryRoot, bad \in Path \cup {<<>>}, how \in Unread, seen \in SUBSET Path :
                /\ \A p \in seen : PathWithin(p, root.path)
                /\ obs'.entries = obs.entries \cup {EntryFor(p, root, bad, how, obs.pol) : p \in seen}
                /\ obs'.reported = obs.reported \cup (IF root.reportOnly THEN seen ELSE {})
<1>1. obs \in Observation /\ obs.todo \in Seq(InventoryRoot) /\ obs.todo # <<>> /\ obs.entries \subseteq Entry
      /\ obs.reported \subseteq Paths /\ obs.gap \subseteq Sources
  BY ObservationHas DEF Typed, ObsTypes, WalkRoot
<1>2. Head(obs.todo) \in InventoryRoot /\ Tail(obs.todo) \in Seq(InventoryRoot)
  BY <1>1, HeadTailProperties
<1>3. PICK cut \in Cuts, bad \in Path \cup {<<>>}, how \in Unread : Walk(Head(obs.todo), cut, bad, how)
  BY DEF WalkRoot
<1> DEFINE root == Head(obs.todo)
           seen == Reached(root, cut, bad)
           todo == Tail(obs.todo)
           entries == obs.entries \cup {EntryFor(p, root, bad, how, obs.pol) : p \in seen}
           reported == obs.reported \cup (IF root.reportOnly THEN seen ELSE {})
           gap == obs.gap \cup (IF bad # <<>> \/ \E p \in seen : Parent(p) \in Oversize THEN {"filesystem"} ELSE {})
<1>4. seen \subseteq Path /\ \A p \in seen : PathWithin(p, root.path)
  BY DEF Reached
<1>5. Path \subseteq Paths
  BY MachineHas DEF Typed, WorldTypes, Path
<1>6. /\ todo \in Seq(InventoryRoot) /\ entries \in SUBSET Entry /\ reported \in SUBSET Paths
      /\ gap \in SUBSET Sources
  <2>1. entries \in SUBSET Entry
    BY <1>1, <1>2, <1>4, EntryForType DEF Typed
  <2>2. gap \in SUBSET Sources
    BY <1>1 DEF Sources
  <2> QED
    BY <1>1, <1>2, <1>4, <1>5, <2>1, <2>2
<1>7. obs' = [obs EXCEPT !.todo = todo, !.entries = entries, !.reported = reported, !.gap = gap]
  BY <1>3 DEF Walk
<1>8. pc = "walk" /\ pc' = "walk"
  BY DEF WalkRoot
<1>9. /\ obs'.pol = obs.pol /\ obs'.target = obs.target /\ obs'.listed = obs.listed /\ obs'.unread = obs.unread
      /\ obs'.entries = entries /\ obs'.reported = reported /\ obs' \in Observation
  <2> HIDE DEF todo, entries, reported, gap, InventoryRoot, Entry, Paths, Sources, Policy, None, Ref
  <2> QED
    BY <1>1, <1>6, <1>7 DEF Observation
<1> QED
  BY <1>2, <1>4, <1>8, <1>9

\* The repositories are inspected: the entries grow, and work that is there bars its entry.
LEMMA CollectGitDoes ==
    ASSUME Typed, Control, CollectGit
    PROVE  /\ obs' \in Observation /\ pc = "walk" /\ pc' = "processes"
           /\ obs'.pol = obs.pol /\ obs'.target = obs.target /\ obs'.listed = obs.listed /\ obs'.unread = obs.unread
           /\ obs'.reported = obs.reported
           /\ GrownInto(obs.entries, obs'.entries)
           /\ \A f \in obs'.entries :
                f.path \in work /\ f.is.kind = "dir" /\ f.is.git # "none" => Blocked(f, ArchiveOnly)
<1>1. obs \in Observation /\ obs.entries \subseteq Entry
  BY ObservationHas DEF Typed, ObsTypes
<1>2. PICK slow : obs' = [obs EXCEPT !.entries = {Observed(e, slow) : e \in obs.entries}]
  BY DEF CollectGit
<1> DEFINE entries == {Observed(e, slow) : e \in obs.entries}
<1>3. \A e \in obs.entries : Grown(e, Observed(e, slow))
  BY <1>1, ObservedGrows
<1>4. GrownInto(obs.entries, entries)
  BY <1>3 DEF GrownInto
<1>5. ASSUME NEW f \in entries, f.path \in work, f.is.kind = "dir", f.is.git # "none"
      PROVE  Blocked(f, ArchiveOnly)
  <2>1. PICK e \in obs.entries : f = Observed(e, slow)
    BY <1>5
  <2>2. f.path = e.path /\ f.is = e.is /\ e \in Entry
    BY <1>1, <1>3, <2>1 DEF Grown
  <2> QED
    BY <1>5, <2>1, <2>2, ObservedGrows
<1>6. entries \in SUBSET Entry
  BY <1>4 DEF GrownInto, Grown
<1>7. obs' = [obs EXCEPT !.entries = entries]
  BY <1>2
<1> HIDE DEF entries
<1>8. /\ obs' \in Observation /\ obs'.entries = entries
      /\ obs'.pol = obs.pol /\ obs'.target = obs.target /\ obs'.listed = obs.listed /\ obs'.unread = obs.unread
      /\ obs'.reported = obs.reported
  <2> HIDE DEF InventoryRoot, Entry, Paths, Sources, Policy, None, Ref
  <2> QED
    BY <1>1, <1>6, <1>7 DEF Observation
<1> QED
  BY <1>4, <1>5, <1>8 DEF CollectGit

\* What is attached: the entries grow, and what is referred to is barred.
LEMMA AttachDoes ==
    ASSUME Typed, NEW refs \in SUBSET Ref, NEW gap \in SUBSET Sources, Attach(refs, gap)
    PROVE  /\ obs' \in Observation /\ obs'.gap = gap /\ obs'.listed = 0 /\ obs'.unread = {}
           /\ obs'.pol = obs.pol /\ obs'.target = obs.target /\ obs'.reported = obs.reported
           /\ GrownInto(obs.entries, obs'.entries)
           /\ \A f \in obs'.entries : \A r \in refs :
                IF pc = "gitmoot" THEN pc \notin gap /\ r.path = f.path => Blocked(f, ArchiveOnly)
                ELSE Covers(r, f.path) => Blocked(f, ArchiveOnly)
<1> DEFINE entries == IF pc = "gitmoot" THEN AttachGitmoot(obs.entries, refs, pc \in gap, obs.pol)
                      ELSE AttachReferences(obs.entries, refs)
<1>1. obs \in Observation /\ obs.entries \subseteq Entry
  BY ObservationHas DEF Typed, ObsTypes
<1>2. GrownInto(obs.entries, entries)
  <2>1. GrownInto(obs.entries, AttachGitmoot(obs.entries, refs, pc \in gap, obs.pol))
    BY <1>1, AttachGitmootGrows
  <2>2. GrownInto(obs.entries, AttachReferences(obs.entries, refs))
    BY <1>1, AttachReferencesGrows
  <2> QED
    BY <2>1, <2>2
<1>3. \A f \in entries : \A r \in refs :
        IF pc = "gitmoot" THEN pc \notin gap /\ r.path = f.path => Blocked(f, ArchiveOnly)
        ELSE Covers(r, f.path) => Blocked(f, ArchiveOnly)
  <2>1. \A f \in AttachGitmoot(obs.entries, refs, pc \in gap, obs.pol) : \A r \in refs :
            pc \notin gap /\ r.path = f.path => Blocked(f, ArchiveOnly)
    BY <1>1, AttachGitmootGrows
  <2>2. \A f \in AttachReferences(obs.entries, refs) : \A r \in refs : Covers(r, f.path) => Blocked(f, ArchiveOnly)
    BY <1>1, AttachReferencesGrows
  <2>3. CASE pc = "gitmoot"
    <3>1. entries = AttachGitmoot(obs.entries, refs, pc \in gap, obs.pol)
      BY <2>3
    <3> HIDE DEF entries
    <3> QED
      BY <2>1, <2>3, <3>1
  <2>4. CASE pc # "gitmoot"
    <3>1. entries = AttachReferences(obs.entries, refs)
      BY <2>4
    <3> HIDE DEF entries
    <3> QED
      BY <2>2, <2>4, <3>1
  <2> QED
    BY <2>3, <2>4
<1>4. obs' = [obs EXCEPT !.listed = 0, !.unread = {}, !.refs = {}, !.gap = gap, !.entries = entries]
  BY DEF Attach
<1>5. entries \in SUBSET Entry
  BY <1>2 DEF GrownInto, Grown
<1> HIDE DEF entries
<1>6. /\ obs' \in Observation /\ obs'.entries = entries /\ obs'.gap = gap /\ obs'.listed = 0 /\ obs'.unread = {}
      /\ obs'.pol = obs.pol /\ obs'.target = obs.target /\ obs'.reported = obs.reported
  <2>1. 0 \in Nat /\ {} \in SUBSET Holder /\ {} \in SUBSET Ref
    OBVIOUS
  <2> HIDE DEF InventoryRoot, Entry, Paths, Sources, Policy, None, Ref
  <2> QED
    BY <1>1, <1>4, <1>5, <2>1 DEF Observation
<1> QED
  BY <1>2, <1>3, <1>6

\* A source ends: it has told all it was asked, and that bars what it refers to; or its
\* deadline has passed, and it is a gap.
LEMMA SourceEnds ==
    ASSUME Typed, Publish \/ TimesOut
    PROVE  /\ pc \in Stages /\ pc' = After[pc]
           /\ obs' \in Observation /\ obs.gap \subseteq obs'.gap /\ obs'.listed = 0 /\ obs'.unread = {}
           /\ obs'.pol = obs.pol /\ obs'.target = obs.target /\ obs'.reported = obs.reported
           /\ GrownInto(obs.entries, obs'.entries)
           /\ \/ pc \in obs'.gap
              \/ /\ obs.unread = {} /\ obs.listed = Len(Gatherers[pc]) /\ obs'.gap = obs.gap
                 /\ \A f \in obs'.entries : \A r \in obs.refs :
                        IF pc = "gitmoot" THEN pc \notin obs.gap /\ r.path = f.path => Blocked(f, ArchiveOnly)
                        ELSE Covers(r, f.path) => Blocked(f, ArchiveOnly)
<1>1. obs.refs \in SUBSET Ref /\ obs.gap \in SUBSET Sources
  BY ObservationHas DEF Typed, ObsTypes
<1>2. pc \in Stages /\ pc' = After[pc]
  BY DEF Publish, TimesOut, Gatherers, Stages
<1>3. CASE Publish
  <2>1. Attach(obs.refs, obs.gap) /\ obs.unread = {} /\ obs.listed = Len(Gatherers[pc])
    BY <1>3 DEF Publish
  <2> QED
    BY <1>1, <1>2, <2>1, AttachDoes
<1>4. CASE TimesOut
  <2>1. Attach({}, obs.gap \cup {pc})
    BY <1>4 DEF TimesOut
  <2>2. obs.gap \cup {pc} \in SUBSET Sources /\ {} \in SUBSET Ref
    BY <1>1, <1>2 DEF Sources
  <2>3. obs' \in Observation /\ obs'.gap = obs.gap \cup {pc} /\ obs'.listed = 0 /\ obs'.unread = {}
        /\ obs'.pol = obs.pol /\ obs'.target = obs.target /\ obs'.reported = obs.reported
        /\ GrownInto(obs.entries, obs'.entries)
    BY <2>1, <2>2, AttachDoes
  <2> QED
    BY <1>2, <2>3
<1> QED
  BY <1>3, <1>4

-----------------------------------------------------------------------------
(* The end of a collection: archives are bound, and the roots are merged.    *)

\* Of natural numbers, one is the least.
LEMMA OneIsLeast ==
    ASSUME NEW S, S \subseteq Nat, S # {}
    PROVE  \E n \in S : \A m \in S : n <= m
<1> DEFINE less == {ss \in Nat \X Nat : ss[1] < ss[2]}
<1>1. IsWellFoundedOn(less, Nat)
  BY NatLessThanWellFounded DEF OpToRel
<1>2. \A m, n \in Nat : m < n => <<m, n>> \in less
  OBVIOUS
<1> HIDE DEF less
<1>3. PICK n \in S : \A m \in S : <<m, n>> \notin less
  BY <1>1, WFMin
<1>4. n \in Nat /\ \A m \in S : m \in Nat /\ ~(m < n)
  BY <1>2, <1>3
<1> QED
  BY <1>4

\* To bind an archive takes nothing from an entry but the protection of its archive_only root,
\* and that only for the sealed tree of an archive category.
LEMMA BindDoes ==
    ASSUME NEW S, NEW e \in Entry, NEW pol
    PROVE  /\ Bind(e, S, pol) \in Entry
           /\ Bind(e, S, pol).path = e.path /\ Bind(e, S, pol).root = e.root
           /\ Bind(e, S, pol).version = e.version /\ Bind(e, S, pol).unknown = e.unknown
           /\ e.prot \ ArchiveOnly \subseteq Bind(e, S, pol).prot
           /\ "archive_only_root" \in e.prot /\ "archive_only_root" \notin Bind(e, S, pol).prot =>
                \E r \in pol.released : /\ r.path = e.path /\ r.category /\ r.expiry
                                        /\ e.version = machine.sealed[e.path]
<1> DEFINE rules == {r \in pol.released : r.path = e.path}
           above == \E r \in pol.released : r.path # e.path /\ PathWithin(r.path, e.path)
           prot == e.prot \cup (IF above THEN {"durable_evidence"} ELSE {})
           kept == [e EXCEPT !.prot = prot]
           rule == CHOOSE r \in rules : TRUE
           freed == IF rule.category THEN e.prot \ ArchiveOnly ELSE e.prot
           bound == [e EXCEPT !.archived = TRUE, !.prot = freed]
           durable == prot \cup {"durable_evidence"}
           barred == [kept EXCEPT !.prot = durable]
<1>1. /\ prot \in SUBSET Protections /\ freed \in SUBSET Protections /\ durable \in SUBSET Protections
      /\ e.prot \subseteq prot /\ prot \subseteq durable /\ e.prot \ ArchiveOnly \subseteq freed
  BY EntryHas DEF Protections
<1>2. "archive_only_root" \in e.prot /\ "archive_only_root" \notin freed => rule.category
  OBVIOUS
<1>3. Bind(e, S, pol) = IF rules = {} THEN kept ELSE IF ~above /\ Bound(e, rule, S) THEN bound ELSE barred
  BY DEF Bind, ArchiveOnly
<1>4. rules # {} => rule \in pol.released /\ rule.path = e.path
  OBVIOUS
<1>5. Bound(e, rule, S) => rule.expiry /\ e.version = machine.sealed[e.path]
  BY DEF Bound
<1> HIDE DEF rules, above, rule, prot, freed, durable
<1>6. kept \in Entry /\ bound \in Entry
  <2>1. TRUE \in BOOLEAN
    OBVIOUS
  <2> HIDE DEF Paths, Entity, Unknowns, Protections
  <2> QED
    BY <1>1, <2>1 DEF Entry
<1>7. /\ kept.path = e.path /\ kept.root = e.root /\ kept.version = e.version /\ kept.unknown = e.unknown
      /\ kept.prot = prot
      /\ bound.path = e.path /\ bound.root = e.root /\ bound.version = e.version /\ bound.unknown = e.unknown
      /\ bound.prot = freed
  BY DEF Entry
<1> HIDE DEF kept
<1>8. barred \in Entry
  <2> HIDE DEF Paths, Entity, Unknowns, Protections
  <2> QED
    BY <1>1, <1>6 DEF Entry
<1>9. /\ barred.path = e.path /\ barred.root = e.root /\ barred.version = e.version /\ barred.unknown = e.unknown
      /\ barred.prot = durable
  BY <1>6, <1>7 DEF Entry
<1> HIDE DEF bound, barred
<1>10. CASE Bind(e, S, pol) = bound /\ rules # {} /\ Bound(e, rule, S)
  BY <1>1, <1>2, <1>4, <1>5, <1>6, <1>7, <1>10
<1>11. CASE Bind(e, S, pol) = kept
  BY <1>1, <1>6, <1>7, <1>11
<1>12. CASE Bind(e, S, pol) = barred
  BY <1>1, <1>8, <1>9, <1>12
<1> QED
  BY <1>3, <1>10, <1>11, <1>12

\* The merge keeps, of each path, one of its entries, with what is said by all of them.
LEMMA MergeDoes ==
    ASSUME NEW B, B \subseteq Entry, \A f \in B : Len(f.root) <= Len(f.path), NEW e \in Merge(B)
    PROVE  /\ e \in Entry
           /\ \E f \in B : f.path = e.path /\ f.version = e.version
           /\ \A f \in B : f.path = e.path => f.prot \subseteq e.prot /\ f.unknown \subseteq e.unknown
<1> DEFINE same(p) == {f \in B : f.path = p}
           longest(p) == CHOOSE f \in same(p) : \A g \in same(p) : Len(g.root) <= Len(f.root)
           unknown(p) == UNION {f.unknown : f \in same(p)}
           prot(p) == UNION {f.prot : f \in same(p)}
           signals(p) == UNION {f.signals : f \in same(p)}
<1>1. PICK p \in {f.path : f \in B} :
        e = [longest(p) EXCEPT !.unknown = unknown(p), !.prot = prot(p), !.signals = signals(p)]
  BY DEF Merge
<1>2. \A f \in B : /\ f \in Entry /\ Len(f.path) \in Nat /\ Len(f.root) \in Nat
                   /\ f.prot \in SUBSET Protections /\ f.unknown \in SUBSET Unknowns /\ f.signals \in SUBSET {"gitmoot"}
  BY EntryHas
<1>3. longest(p) \in same(p)
  <2> DEFINE short == {Len(p) - Len(f.root) : f \in same(p)}
  <2>1. short \subseteq Nat /\ short # {}
    BY <1>2
  <2>2. PICK n \in short : \A m \in short : n <= m
    <3> HIDE DEF short
    <3> QED
      BY <2>1, OneIsLeast
  <2>3. PICK f \in same(p) : n = Len(p) - Len(f.root)
    BY <2>2
  <2>4. Len(p) \in Nat
    BY <1>2
  <2>5. \A g \in same(p) : Len(g.root) <= Len(f.root)
    <3>1. SUFFICES ASSUME NEW g \in same(p) PROVE Len(g.root) <= Len(f.root)
      OBVIOUS
    <3>2. n <= Len(p) - Len(g.root) /\ Len(g.root) \in Nat /\ Len(f.root) \in Nat
      BY <1>2, <2>2
    <3> QED
      BY <2>3, <2>4, <3>2
  <2> HIDE DEF same
  <2> QED
    BY <2>5
<1>4. unknown(p) \in SUBSET Unknowns /\ prot(p) \in SUBSET Protections /\ signals(p) \in SUBSET {"gitmoot"}
  BY <1>2
<1>5. \A f \in B : f.path = p => f.prot \subseteq prot(p) /\ f.unknown \subseteq unknown(p)
  OBVIOUS
<1>6. longest(p) \in B /\ longest(p).path = p /\ longest(p) \in Entry
  BY <1>3
<1> HIDE DEF same, longest, unknown, prot, signals
<1>7. e \in Entry /\ e.path = p /\ e.version = longest(p).version /\ e.prot = prot(p) /\ e.unknown = unknown(p)
  <2>1. e \in Entry
    <3> HIDE DEF Paths, Entity, Unknowns, Protections
    <3> QED
      BY <1>1, <1>4, <1>6 DEF Entry
  <2> QED
    BY <1>1, <1>6, <2>1 DEF Entry
<1> QED
  BY <1>5, <1>6, <1>7

\* What is collected of a path: an entry that has kept what barred it, and that is free in an
\* archive_only root only as the sealed tree of an archive category.
LEMMA CollectedIs ==
    ASSUME Typed, Entries, NEW e \in Collected
    PROVE  /\ e \in Entry /\ e.path \in Path
           /\ \E f \in obs.entries : f.path = e.path
           /\ \A f \in obs.entries : f.path = e.path /\ Blocked(f, ArchiveOnly) => e.prot # {} \/ e.unknown # {}
           /\ e.path \in obs.reported => "report_only_root" \in e.prot
           /\ e.prot = {} /\ InArchiveOnlyRoot(obs.pol, e.path) =>
                \E r \in obs.pol.released : /\ r.path = e.path /\ r.category /\ r.expiry
                                            /\ e.version = machine.sealed[e.path]
<1> DEFINE bind(f) == Bind(f, obs.entries, obs.pol)
           B == {bind(f) : f \in obs.entries}
<1>1. obs.entries \subseteq Entry
  BY ObservationHas DEF Typed, ObsTypes
<1>2. \A f \in obs.entries :
        /\ bind(f) \in Entry
        /\ bind(f).path = f.path /\ bind(f).root = f.root
        /\ bind(f).version = f.version /\ bind(f).unknown = f.unknown
        /\ f.prot \ ArchiveOnly \subseteq bind(f).prot
        /\ "archive_only_root" \in f.prot /\ "archive_only_root" \notin bind(f).prot =>
             \E r \in obs.pol.released : /\ r.path = f.path /\ r.category /\ r.expiry
                                         /\ f.version = machine.sealed[f.path]
  BY <1>1, BindDoes
<1>3. Collected = Merge(B)
  BY DEF Collected
<1>4. \A f \in obs.entries : /\ f.path \in Path /\ Len(f.root) <= Len(f.path)
                             /\ InArchiveOnlyRoot(obs.pol, f.path) => "archive_only_root" \in f.prot
  BY DEF Entries, EntryTells
<1>5. B \subseteq Entry /\ \A f \in B : Len(f.root) <= Len(f.path)
  BY <1>2, <1>4
<1>6. \A f \in obs.entries : bind(f) \in B
  OBVIOUS
<1>7. \A g \in B : \E f \in obs.entries : g = bind(f)
  OBVIOUS
<1> HIDE DEF bind, B
<1>8. /\ e \in Entry
      /\ \E g \in B : g.path = e.path /\ g.version = e.version
      /\ \A g \in B : g.path = e.path => g.prot \subseteq e.prot /\ g.unknown \subseteq e.unknown
  BY <1>3, <1>5, MergeDoes
<1>9. PICK f \in obs.entries : f.path = e.path /\ f.version = e.version
  BY <1>2, <1>7, <1>8
<1>10. \A g \in obs.entries : g.path = e.path => g.prot \ ArchiveOnly \subseteq e.prot /\ g.unknown \subseteq e.unknown
  BY <1>2, <1>6, <1>8
<1>11. \A g \in obs.entries : g.path = e.path /\ Blocked(g, ArchiveOnly) => e.prot # {} \/ e.unknown # {}
  BY <1>10 DEF Blocked
<1>12. e.path \in obs.reported => "report_only_root" \in e.prot
  BY <1>10 DEF Entries, ArchiveOnly
<1>13. ASSUME e.prot = {}, InArchiveOnlyRoot(obs.pol, e.path)
       PROVE  \E r \in obs.pol.released : /\ r.path = e.path /\ r.category /\ r.expiry
                                          /\ e.version = machine.sealed[e.path]
  <2>1. "archive_only_root" \in f.prot /\ "archive_only_root" \notin bind(f).prot
    BY <1>2, <1>4, <1>6, <1>8, <1>9, <1>13
  <2> QED
    BY <1>2, <1>9, <2>1
<1> QED
  BY <1>4, <1>8, <1>9, <1>11, <1>12, <1>13

-----------------------------------------------------------------------------
(* The types of an observation, and of what is stored, at each step. *)

\* The observation that apply begins: one level below the directory of its target.
Begun(p, pol) ==
    [Idle EXCEPT !.pol = pol, !.target = p,
        !.todo = << [path |-> Parent(p), depth |-> 1, reportOnly |-> FALSE, archiveOnly |-> FALSE, follow |-> TRUE,
                     cross |-> FALSE] >>]

\* What apply is asked to change is an entry of the inventory.
LEMMA ApplyTargets ==
    ASSUME Typed, Inventoried, PlanIsSound, Apply
    PROVE  \E p \in Path \ {<<>>} :
            /\ obs' = Begun(p, file)
            /\ \E b \in plan.actions : b.path = p /\ b.kind \in Mutating
<1>1. PICK a \in {b \in plan.actions : b.kind \in {"quarantine", "delete_candidate"}} : obs' = Begun(a.path, file)
  BY DEF Apply, Begun
<1>2. a \in plan.actions /\ a.kind \in Mutating
  BY <1>1 DEF Mutating
<1>3. plan # None /\ plan.scan = inv.scan
  BY DEF Apply, VerifyBinding
<1>4. PICK e \in inv.entries : e.path = a.path
  BY <1>2, <1>3 DEF PlanIsSound
<1>5. inv # None
  BY <1>3 DEF Typed, StoreTypes
<1>6. e.path \in Path
  BY <1>5 DEF Inventoried
<1>7. Path \subseteq Paths \ {<<>>}
  BY MachineHas DEF Typed, WorldTypes, Path
<1> QED
  BY <1>1, <1>2, <1>4, <1>6, <1>7

\* The observation that apply starts from.
LEMMA ApplyStarts ==
    ASSUME NEW p \in Paths \ {<<>>}, NEW pol \in Policy
    PROVE  /\ Begun(p, pol) \in Observation
           /\ Begun(p, pol).pol = pol /\ Begun(p, pol).target = p
           /\ Begun(p, pol).entries = {} /\ Begun(p, pol).reported = {}
           /\ Begun(p, pol).listed = 0 /\ Begun(p, pol).unread = {}
<1>1. Parent(p) \in Paths
  <2>1. Len(p) \in Nat /\ Len(p) > 0
    BY PathHas, EmptySeq DEF Paths
  <2>2. \A i \in 1 .. Len(p) - 1 : p[i] \in STRING
    BY <2>1 DEF Paths
  <2>3. SubSeq(p, 1, Len(p) - 1) \in Seq(STRING)
    BY <2>1, <2>2, SubSeqProperties
  <2> QED
    BY <2>3 DEF Parent, Front, Paths
<1> DEFINE root == [path |-> Parent(p), depth |-> 1, reportOnly |-> FALSE, archiveOnly |-> FALSE, follow |-> TRUE,
                     cross |-> FALSE]
           todo == <<root>>
<1>2. root \in InventoryRoot
  <2> HIDE DEF Paths
  <2> QED
    BY <1>1 DEF InventoryRoot
<1>3. todo \in Seq(InventoryRoot)
  <2> HIDE DEF root
  <2> QED
    BY <1>2
<1>4. Begun(p, pol) = [Idle EXCEPT !.pol = pol, !.target = p, !.todo = todo] /\ p \in Paths
  BY DEF Begun
<1> HIDE DEF todo
<1>5. [Idle EXCEPT !.pol = pol, !.target = p, !.todo = todo] \in Observation
  <2> HIDE DEF Observation, Idle, Policy, Paths, InventoryRoot
  <2>1. \A q \in Policy, target \in Paths, s \in Seq(InventoryRoot) :
            [Idle EXCEPT !.pol = q, !.target = target, !.todo = s] \in Observation
    BY IdleType
  <2> QED
    BY <1>3, <1>4, <2>1
<1> QED
  BY <1>4, <1>5 DEF Idle

\* The observation of a command keeps its types, and the policy it was begun with.
LEMMA ObsTypesStep ==
    ASSUME Typed, Control, Inventoried, PlanIsSound, Next
    PROVE  ObsTypes'
<1>1. /\ obs \in Observation /\ steady \in [held : SUBSET Ref, dirty : SUBSET Paths]
      /\ pc \in {"idle", "walk", "bind", "move"} \cup Stages
      /\ pc # "idle" => obs.pol \in machine.policies
      /\ file \in machine.policies
  BY DEF Typed, ObsTypes, WorldTypes
<1>2. machine.policies \subseteq Policy
  BY MachineHas DEF Typed, WorldTypes
<1>3. machine' = machine
  BY OutsideKeeps, CollectsKeep, StepsAre DEF StartScan, EndScan, Plan, Apply, EndRecheck, Move, world
<1> HIDE DEF Observation, Ref, Paths
<1>4. CASE Outside
  <2>1. UNCHANGED <<machine, pc, obs>>
    BY <1>4, OutsideKeeps
  <2>2. steady' = steady \/ \E h \in Holder : Leaves(h)
    BY <1>4 DEF Outside, Turn, Write, Work, EditPolicy
  <2>3. steady' \in [held : SUBSET Ref, dirty : SUBSET Paths]
    BY <1>1, <2>2 DEF Leaves
  <2> QED
    BY <1>1, <2>1, <2>3 DEF ObsTypes
<1>5. CASE Collects
  <2>1. UNCHANGED <<machine, steady>>
    BY <1>5, CollectsKeep
  <2>2. /\ obs' \in Observation /\ obs'.pol = obs.pol /\ pc # "idle"
        /\ pc' \in {"idle", "walk", "bind", "move"} \cup Stages
    <3>1. CASE Reads
      BY <3>1, ReadsType DEF Stages
    <3>2. CASE WalkRoot
      BY <3>2, WalkDoes
    <3>3. CASE CollectGit
      BY <3>3, CollectGitDoes DEF Stages
    <3>4. CASE Publish \/ TimesOut
      BY <3>4, SourceEnds DEF Stages, After
    <3> QED
      BY <1>5, <3>1, <3>2, <3>3, <3>4 DEF Collects
  <2> QED
    BY <1>1, <2>1, <2>2 DEF ObsTypes
<1>6. CASE StartScan
  <2>1. obs' = [Idle EXCEPT !.pol = file, !.todo = file.roots] /\ pc' = "walk" /\ steady' = steady
    BY <1>6 DEF StartScan
  <2>2. file \in Policy /\ file.roots \in Seq(InventoryRoot)
    BY <1>1, <1>2, PolicyHas
  <2>3. obs' \in Observation
    <3> HIDE DEF Idle, Policy, InventoryRoot
    <3>1. \A pol \in Policy, todo \in Seq(InventoryRoot) : [Idle EXCEPT !.pol = pol, !.todo = todo] \in Observation
      BY IdleType, EmptySeq DEF Paths
    <3> QED
      BY <2>1, <2>2, <3>1
  <2>4. obs'.pol = file
    BY <2>1 DEF Idle
  <2> QED
    BY <1>1, <1>3, <2>1, <2>3, <2>4 DEF ObsTypes
<1>7. CASE EndScan
  BY <1>1, <1>7, IdleType DEF EndScan, ObsTypes
<1>8. CASE Plan
  BY <1>1, <1>3, <1>8 DEF Plan, ObsTypes
<1>9. CASE Apply
  <2>1. PICK p \in Path \ {<<>>} :
            obs' = Begun(p, file)
    BY <1>9, ApplyTargets
  <2>2. p \in Paths \ {<<>>} /\ file \in Policy
    BY <1>1, <1>2, MachineHas DEF Typed, WorldTypes, Path
  <2>3. obs' \in Observation /\ obs'.pol = file
    BY <2>1, <2>2, ApplyStarts
  <2>4. steady' = [held |-> UNION {{Reference(h) : h \in Present(kind)} : kind \in HolderKinds}, dirty |-> work]
        /\ pc' = "walk"
    BY <1>9 DEF Apply
  <2>5. \A kind : {Reference(h) : h \in Present(kind)} \subseteq Ref
    BY ReferenceType DEF Present
  <2>6. work \subseteq Paths
    BY MachineHas DEF Typed, WorldTypes, Path
  <2>7. steady' \in [held : SUBSET Ref, dirty : SUBSET Paths]
    BY <2>4, <2>5, <2>6
  <2> QED
    BY <1>1, <1>3, <2>3, <2>4, <2>7 DEF ObsTypes
<1>10. CASE EndRecheck
  BY <1>1, <1>3, <1>10, IdleType DEF EndRecheck, ObsTypes
<1>11. CASE Move
  BY <1>11, IdleType DEF Move, ObsTypes
<1> QED
  BY <1>4, <1>5, <1>6, <1>7, <1>8, <1>9, <1>10, <1>11, StepsAre

\* What is stored keeps its types: a plan is of an inventory that was there.
LEMMA StoreTypesStep ==
    ASSUME Typed, Entries, Next
    PROVE  StoreTypes'
<1>1. StoreTypes
  BY DEF Typed
<1>2. \A s \in Stored : s # None /\ s.scan \in Nat
  BY DEF Stored, None
<1>3. CASE UNCHANGED <<inv, plan>>
  BY <1>1, <1>3 DEF StoreTypes
<1>4. CASE EndScan
  <2>1. Collected \in SUBSET Entry
    BY CollectedIs
  <2>2. obs.pol \in Policy /\ obs.reported \subseteq Paths
    <3>1. obs.pol \in machine.policies
      BY <1>4 DEF Typed, ObsTypes, EndScan
    <3> QED
      BY <3>1, MachineHas, ObservationHas DEF Typed, WorldTypes, ObsTypes
  <2>3. Scans \in Nat /\ Scans + 1 \in Nat
    BY <1>1, <1>2 DEF Scans, StoreTypes
  <2>4. inv' = [scan |-> Scans + 1, pol |-> obs.pol, entries |-> Collected, reported |-> obs.reported]
        /\ plan' = plan
    BY <1>4 DEF EndScan
  <2>5. inv' \in Stored
    <3> HIDE DEF Collected, Scans, Entry, Policy, Paths
    <3> QED
      BY <2>1, <2>2, <2>3, <2>4 DEF Stored
  <2>6. plan # None => plan.scan \in Nat /\ plan.scan <= inv'.scan
    <3>1. inv'.scan = Scans + 1
      BY <2>4
    <3>2. plan # None => plan.scan \in Nat /\ inv # None /\ plan.scan <= inv.scan /\ Scans = inv.scan
      BY <1>1 DEF StoreTypes, Scans
    <3> QED
      BY <2>3, <3>1, <3>2
  <2> QED
    BY <1>2, <2>4, <2>5, <2>6 DEF StoreTypes
<1>5. CASE Plan
  <2>1. inv # None /\ inv' = inv /\ plan'.scan = inv.scan
    BY <1>5 DEF Plan, Build
  <2>2. inv \in Stored /\ inv.scan \in Nat
    BY <1>1, <1>2, <2>1 DEF StoreTypes
  <2> QED
    BY <2>1, <2>2 DEF StoreTypes
<1> QED
  BY <1>3, <1>4, <1>5, StepsAre, OutsideKeeps, CollectsKeep DEF StartScan, Apply, EndRecheck, Move

-----------------------------------------------------------------------------
(* Each part of the invariant, at each step. *)

\* What was revalidated is what was collected, of what is stored.
LEMMA RevalidatedKeeps ==
    UNCHANGED <<machine, obs, inv>> => (Revalidated' <=> Revalidated) /\ (EvidenceGap' <=> EvidenceGap)
<1> SUFFICES ASSUME UNCHANGED <<machine, obs, inv>>
             PROVE  (Revalidated' <=> Revalidated) /\ (EvidenceGap' <=> EvidenceGap)
  OBVIOUS
<1>1. Collected' = Collected
  BY DEF Collected, Bind, Bound
<1>2. \A p : Planned(p)' = Planned(p)
  BY DEF Planned
<1> QED
  BY <1>1, <1>2 DEF Revalidated, EvidenceGap, Planned

\* Outside, holders only leave what has held, and work is only begun.
LEMMA OutsideSteady ==
    ASSUME Typed, Outside
    PROVE  /\ \A r \in steady'.held : r \in steady.held /\ at'[r.of] = at[r.of]
           /\ steady'.dirty = steady.dirty /\ work \subseteq work'
           /\ steady = Nothing => steady' = Nothing
<1>1. steady \in [held : SUBSET Ref, dirty : SUBSET Paths] /\ at \in [Holder -> Spot \cup {Nowhere}]
      /\ machine \in Layout
  BY DEF Typed, ObsTypes, WorldTypes
<1>2. ASSUME NEW h \in Holder, NEW where \in machine.spots[h], Turn(h, where)
      PROVE  /\ \A r \in steady'.held : r \in steady.held /\ at'[r.of] = at[r.of]
             /\ steady'.dirty = steady.dirty /\ work \subseteq work'
             /\ steady = Nothing => steady' = Nothing
  <2> DEFINE stay == {r \in steady.held : r.of # h}
  <2>1. steady' = [steady EXCEPT !.held = stay] /\ at' = [at EXCEPT ![h] = where] /\ work' = work
    BY <1>2 DEF Turn, Leaves
  <2>2. \A r \in stay : r \in steady.held /\ r.of # h
    OBVIOUS
  <2>3. \A r \in steady.held : r.of \in Holder
    BY <1>1 DEF Ref
  <2>4. steady = Nothing => stay = {}
    BY DEF Nothing
  <2> HIDE DEF stay, Ref, Paths
  <2>5. steady'.held = stay /\ steady'.dirty = steady.dirty
    BY <1>1, <2>1
  <2>6. steady = Nothing => steady' = Nothing
    BY <2>1, <2>4 DEF Nothing
  <2>7. \A g \in Holder : g # h => at'[g] = at[g]
    BY <1>1, <2>1
  <2> QED
    BY <2>1, <2>2, <2>3, <2>5, <2>6, <2>7
<1>3. CASE UNCHANGED <<at, steady>> /\ work \subseteq work'
  BY <1>3
<1> QED
  BY <1>2, <1>3 DEF Outside, Write, Work, EditPolicy

\* The control of a command.
LEMMA ControlStep ==
    ASSUME Typed, Control, Inventoried, PlanIsSound, Next
    PROVE  Control'
<1>1. CASE Outside
  <2>1. UNCHANGED <<machine, pc, obs, inv>>
    BY <1>1, OutsideKeeps
  <2>2. steady = Nothing => steady' = Nothing
    BY <1>1, OutsideSteady
  <2>3. (Revalidated' <=> Revalidated) /\ (EvidenceGap' <=> EvidenceGap)
    BY <2>1, RevalidatedKeeps
  <2> QED
    BY <2>1, <2>2, <2>3 DEF Control
<1>2. CASE Collects
  <2>1. UNCHANGED <<inv, steady>>
    BY <1>2, CollectsKeep
  <2>2. CASE Reads
    <3>1. pc \in Stages /\ pc' = pc /\ obs'.target = obs.target
      BY <2>2, ReadsType
    <3> QED
      BY <2>1, <3>1 DEF Control, Stages
  <2>3. CASE WalkRoot
    BY <2>1, <2>3, WalkDoes DEF Control, Stages
  <2>4. CASE CollectGit
    BY <2>1, <2>4, CollectGitDoes DEF Control, Stages
  <2>5. CASE Publish \/ TimesOut
    <3>1. /\ pc' \in {"agents", "services", "gitmoot", "bind"}
          /\ obs'.listed = 0 /\ obs'.unread = {} /\ obs'.target = obs.target
      BY <2>5, SourceEnds DEF Stages, After
    <3> QED
      BY <2>1, <3>1 DEF Control
  <2> QED
    BY <1>2, <2>2, <2>3, <2>4, <2>5 DEF Collects
<1>3. CASE StartScan
  <2>1. obs = Idle /\ pc' = "walk" /\ steady' = steady /\ obs' = [Idle EXCEPT !.pol = file, !.todo = file.roots]
    BY <1>3 DEF StartScan, Control
  <2>2. obs'.target = <<>> /\ obs'.listed = 0 /\ obs'.unread = {} /\ steady = Nothing
    BY <2>1 DEF Idle, Control
  <2> QED
    BY <2>1, <2>2 DEF Control
<1>4. CASE EndScan
  <2>1. pc' = "idle" /\ obs' = Idle /\ steady' = steady /\ steady = Nothing
    BY <1>4 DEF EndScan, Control
  <2> QED
    BY <2>1 DEF Control, Idle
<1>5. CASE Plan
  <2>1. pc' = "idle" /\ obs' = obs /\ steady' = steady /\ obs = Idle
    BY <1>5 DEF Plan, Control
  <2> QED
    BY <2>1 DEF Control, Idle
<1>6. CASE Apply
  <2>1. PICK p \in Path \ {<<>>} : obs' = Begun(p, file)
    BY <1>6, ApplyTargets
  <2>2. p \in Paths \ {<<>>} /\ file \in Policy
    BY MachineHas DEF Typed, WorldTypes, Path
  <2>3. pc' = "walk"
    BY <1>6 DEF Apply
  <2>4. obs'.target = p /\ obs'.listed = 0 /\ obs'.unread = {}
    BY <2>1, <2>2, ApplyStarts
  <2> QED
    BY <2>2, <2>3, <2>4 DEF Control
<1>7. CASE EndRecheck
  <2>1. CASE ~EvidenceGap /\ Revalidated
    <3>1. pc' = "move" /\ UNCHANGED <<machine, obs, inv, steady>> /\ obs.target # <<>> /\ obs.unread = {}
      BY <1>7, <2>1 DEF EndRecheck, world, Control, Stages
    <3> QED
      BY <2>1, <3>1, RevalidatedKeeps DEF Control
  <2>2. CASE ~(~EvidenceGap /\ Revalidated)
    <3>1. pc' = "idle" /\ obs' = Idle /\ steady' = Nothing
      BY <1>7, <2>2 DEF EndRecheck
    <3> QED
      BY <3>1 DEF Control, Idle
  <2> QED
    BY <2>1, <2>2
<1>8. CASE Move
  <2>1. pc' = "idle" /\ obs' = Idle /\ steady' = Nothing
    BY <1>8 DEF Move
  <2> QED
    BY <2>1 DEF Control, Idle
<1> QED
  BY <1>1, <1>2, <1>3, <1>4, <1>5, <1>6, <1>7, <1>8, StepsAre

\* What has held holds.
LEMMA SteadyStep ==
    ASSUME Typed, Steady, Next
    PROVE  Steady'
<1>1. CASE Outside
  <2>1. /\ \A r \in steady'.held : r \in steady.held /\ at'[r.of] = at[r.of]
        /\ steady'.dirty = steady.dirty /\ work \subseteq work'
    BY <1>1, OutsideSteady
  <2> QED
    BY <2>1 DEF Steady, Reference
<1>2. CASE UNCHANGED <<at, work, steady>>
  BY <1>2 DEF Steady, Reference
<1>3. CASE UNCHANGED <<at, work>> /\ steady' = Nothing
  BY <1>3 DEF Steady, Nothing
<1>4. CASE Apply
  <2>1. steady' = [held |-> UNION {{Reference(h) : h \in Present(kind)} : kind \in HolderKinds}, dirty |-> work]
        /\ at' = at /\ work' = work
    BY <1>4 DEF Apply, world
  <2>2. ASSUME NEW r \in steady'.held PROVE at[r.of] # Nowhere /\ r = Reference(r.of)
    <3>1. PICK kind \in HolderKinds : \E h \in Present(kind) : r = Reference(h)
      BY <2>1
    <3> QED
      BY <3>1 DEF Present, Reference
  <2>3. \A r \in steady'.held : at'[r.of] # Nowhere /\ r = Reference(r.of)'
    BY <2>1, <2>2 DEF Reference
  <2> QED
    BY <2>1, <2>3 DEF Steady, Reference
<1>5. Collects => UNCHANGED <<at, work, steady>>
  BY CollectsKeep
<1>6. StartScan \/ EndScan \/ Plan \/ EndRecheck \/ Move =>
        UNCHANGED <<at, work>> /\ (steady' = steady \/ steady' = Nothing)
  BY DEF StartScan, EndScan, Plan, EndRecheck, Move, world
<1> QED
  BY <1>1, <1>2, <1>3, <1>4, <1>5, <1>6, StepsAre

\* Entries that grow still tell what they told.
LEMMA GrownTell ==
    ASSUME Entries, GrownInto(obs.entries, obs'.entries), machine' = machine,
           obs'.pol = obs.pol, obs'.reported = obs.reported
    PROVE  Entries'
<1>1. ASSUME NEW f \in obs'.entries PROVE EntryTells(f, obs.pol)
  <2>1. PICK e \in obs.entries : Grown(e, f)
    BY DEF GrownInto
  <2>2. EntryTells(e, obs.pol)
    BY DEF Entries
  <2> QED
    BY <2>1, <2>2 DEF EntryTells, Grown
<1>2. ASSUME NEW p \in obs.reported PROVE \E f \in obs'.entries : f.path = p /\ "report_only_root" \in f.prot
  <2>1. PICK e \in obs.entries : e.path = p /\ "report_only_root" \in e.prot
    BY DEF Entries
  <2>2. PICK f \in obs'.entries : Grown(e, f)
    BY DEF GrownInto
  <2> QED
    BY <2>1, <2>2 DEF Grown
<1>3. \A f \in obs'.entries : EntryTells(f, obs.pol)'
  BY <1>1 DEF EntryTells, Path
<1> QED
  BY <1>2, <1>3 DEF Entries

\* What is walked tells of its path.
LEMMA WalkedTell ==
    ASSUME Typed, NEW p \in Path, NEW root \in InventoryRoot, NEW bad, NEW how \in Unread, NEW pol, PathWithin(p, root.path)
    PROVE  /\ EntryTells(EntryFor(p, root, bad, how, pol), pol)
           /\ root.reportOnly => "report_only_root" \in EntryFor(p, root, bad, how, pol).prot
<1> DEFINE e == EntryFor(p, root, bad, how, pol)
<1>1. machine.entity[p] \in Entity
  BY MachineHas DEF Typed, WorldTypes, Path
<1>2. e.path = p /\ e.root = root.path
  BY DEF EntryFor
<1>3. Len(e.root) <= Len(e.path)
  BY <1>2 DEF PathWithin, IsPrefix
<1>4. e.is = IF p = bad /\ how = "lstat_failed" THEN [machine.entity[p] EXCEPT !.kind = "unknown"] ELSE machine.entity[p]
  BY DEF EntryFor
<1>5. e.is.git = machine.entity[p].git
  BY <1>1, <1>4 DEF Entity
<1>6. p = bad => how \in e.unknown
  BY DEF EntryFor
<1>7. InArchiveOnlyRoot(pol, p) => "archive_only_root" \in e.prot
  BY DEF EntryFor
<1>8. root.reportOnly => "report_only_root" \in e.prot
  BY DEF EntryFor
<1> HIDE DEF e
<1> QED
  BY <1>2, <1>3, <1>4, <1>5, <1>6, <1>7, <1>8 DEF EntryTells, e

\* Entries tell of their paths.
LEMMA EntriesStep ==
    ASSUME Typed, Control, Entries, Inventoried, PlanIsSound, Next
    PROVE  Entries'
<1>1. machine' = machine
  BY OutsideKeeps, CollectsKeep, StepsAre DEF StartScan, EndScan, Plan, Apply, EndRecheck, Move, world
<1>2. CASE obs'.pol = obs.pol /\ obs'.entries = obs.entries /\ obs'.reported = obs.reported
  BY <1>1, <1>2 DEF Entries, EntryTells, Path
<1>3. CASE obs'.entries = {} /\ obs'.reported = {}
  BY <1>3 DEF Entries
<1>4. CASE WalkRoot
  <2>1. PICK root \in InventoryRoot, bad \in Path \cup {<<>>}, how \in Unread, seen \in SUBSET Path :
            /\ \A p \in seen : PathWithin(p, root.path)
            /\ obs'.entries = obs.entries \cup {EntryFor(p, root, bad, how, obs.pol) : p \in seen}
            /\ obs'.reported = obs.reported \cup (IF root.reportOnly THEN seen ELSE {})
    BY <1>4, WalkDoes
  <2>2. obs'.pol = obs.pol
    BY <1>4, WalkDoes
  <2>3. \A p \in seen : /\ EntryTells(EntryFor(p, root, bad, how, obs.pol), obs.pol)
                        /\ root.reportOnly => "report_only_root" \in EntryFor(p, root, bad, how, obs.pol).prot
                        /\ EntryFor(p, root, bad, how, obs.pol).path = p
    <3> SUFFICES ASSUME NEW p \in seen
                 PROVE  /\ EntryTells(EntryFor(p, root, bad, how, obs.pol), obs.pol)
                        /\ root.reportOnly => "report_only_root" \in EntryFor(p, root, bad, how, obs.pol).prot
                        /\ EntryFor(p, root, bad, how, obs.pol).path = p
      OBVIOUS
    <3>1. EntryFor(p, root, bad, how, obs.pol).path = p
      BY DEF EntryFor
    <3>2. p \in Path /\ PathWithin(p, root.path)
      BY <2>1
    <3> QED
      BY <3>1, <3>2, WalkedTell
  <2>4. \A e \in obs'.entries : EntryTells(e, obs.pol)
    BY <2>1, <2>3 DEF Entries
  <2>5. \A e \in obs'.entries : EntryTells(e, obs.pol)'
    BY <1>1, <2>2, <2>4 DEF EntryTells, Path
  <2>6. ASSUME NEW p \in obs'.reported PROVE \E e \in obs'.entries : e.path = p /\ "report_only_root" \in e.prot
    <3>1. CASE p \in obs.reported
      BY <2>1, <3>1 DEF Entries
    <3>2. CASE p \in seen /\ root.reportOnly
      BY <2>1, <2>3, <3>2
    <3> QED
      BY <2>1, <3>1, <3>2
  <2> QED
    BY <2>5, <2>6 DEF Entries
<1>5. CASE CollectGit \/ Publish \/ TimesOut
  BY <1>1, <1>5, CollectGitDoes, SourceEnds, GrownTell
<1>6. CASE Outside \/ Reads
  BY <1>2, <1>6, OutsideKeeps, ReadsType
<1>7. CASE StartScan
  BY <1>3, <1>7 DEF StartScan, Idle
<1>8. CASE EndScan \/ Move
  BY <1>3, <1>8 DEF EndScan, Move, Idle
<1>9. CASE Plan \/ EndRecheck
  BY <1>2, <1>3, <1>9 DEF Plan, EndRecheck, Idle
<1>10. CASE Apply
  <2>1. PICK p \in Path \ {<<>>} : obs' = Begun(p, file)
    BY <1>10, ApplyTargets
  <2>2. p \in Paths \ {<<>>} /\ file \in Policy
    BY MachineHas DEF Typed, WorldTypes, Path
  <2> QED
    BY <1>3, <2>1, <2>2, ApplyStarts
<1> QED
  BY <1>4, <1>5, <1>6, <1>7, <1>8, <1>9, <1>10, StepsAre DEF Collects

\* What an inventory says of its paths is what its scan collected.
LEMMA InventoriedStep ==
    ASSUME Typed, Entries, Inventoried, Next
    PROVE  Inventoried'
<1>1. CASE UNCHANGED <<machine, inv>>
  BY <1>1 DEF Inventoried, Path
<1>2. CASE EndScan
  <2>1. inv'.entries = Collected /\ inv'.reported = obs.reported /\ machine' = machine
    BY <1>2 DEF EndScan, world
  <2>2. \A e \in Collected : e.path \in Path /\ (e.path \in obs.reported => "report_only_root" \in e.prot)
    BY CollectedIs
  <2> HIDE DEF Collected
  <2> QED
    BY <2>1, <2>2 DEF Inventoried, Path
<1>3. Outside \/ Collects => UNCHANGED <<machine, inv>>
  BY OutsideKeeps, CollectsKeep
<1>4. StartScan \/ Plan \/ Apply \/ EndRecheck \/ Move => UNCHANGED <<machine, inv>>
  BY DEF StartScan, Plan, Apply, EndRecheck, Move, world
<1> QED
  BY <1>1, <1>2, <1>3, <1>4, StepsAre

\* A plan is sound when it is made, and a newer scan leaves it behind.
LEMMA PlanIsSoundStep ==
    ASSUME Typed, PlanIsSound, Next
    PROVE  PlanIsSound'
<1>1. CASE UNCHANGED <<inv, plan>>
  <2>1. inv' = inv /\ plan' = plan
    BY <1>1
  <2> QED
    BY <2>1 DEF PlanIsSound
<1>2. CASE EndScan
  <2>1. inv'.scan = Scans + 1 /\ plan' = plan
    BY <1>2 DEF EndScan
  <2>2. plan # None => inv # None /\ plan.scan \in Nat /\ plan.scan <= inv.scan
    BY DEF Typed, StoreTypes
  <2>3. inv # None => inv.scan \in Nat
    BY DEF Typed, StoreTypes, Stored
  <2>4. inv # None => Scans = inv.scan
    BY DEF Scans
  <2>5. plan' # None => plan'.scan # inv'.scan
    BY <2>1, <2>2, <2>3, <2>4
  <2> QED
    BY <2>5 DEF PlanIsSound
<1>3. CASE Plan
  <2>1. inv # None /\ inv' = inv
    BY <1>3 DEF Plan
  <2>2. PICK advised, advice : plan' = Build(inv.scan, inv.entries, file, advice)
    BY <1>3 DEF Plan
  <2>3. inv.entries \subseteq Entry
    BY <2>1 DEF Typed, StoreTypes, Stored
  <2>4. file \in Policy /\ Finite(file)
    BY MachineHas DEF Typed, WorldTypes
  <2> DEFINE built == Build(inv.scan, inv.entries, file, advice)
  <2>5. built.pol = file
    BY DEF Build
  <2>6. \A a \in built.actions : a.kind \in Mutating =>
            \E e \in inv.entries : /\ e.path = a.path /\ Unopposed(e, file, a.kind)
                                   /\ Risk[a.kind] <= Risk[Evaluate(e, file).kind]
    BY <2>3, <2>4, PlanIsUnopposed
  <2>7. \A a \in built.actions : a.kind = "relocate" =>
            /\ \A e \in inv.entries : e.path # a.dest
            /\ \A b \in built.actions : b.kind = "relocate" /\ b.dest = a.dest => b = a
    BY PlanHasFreeDestinations
  <2>8. plan' = built
    BY <2>2
  <2> HIDE DEF built
  <2> QED
    BY <2>1, <2>5, <2>6, <2>7, <2>8 DEF PlanIsSound
<1>4. Outside \/ Collects => UNCHANGED <<inv, plan>>
  BY OutsideKeeps, CollectsKeep
<1>5. StartScan \/ Apply \/ EndRecheck \/ Move => UNCHANGED <<inv, plan>>
  BY DEF StartScan, Apply, EndRecheck, Move
<1> QED
  BY <1>1, <1>2, <1>3, <1>4, <1>5, StepsAre

\* What bars an entry bars it when it has grown.
LEMMA GrownIsBarred ==
    \A e, f, but : Grown(e, f) /\ Blocked(e, but) => Blocked(f, but)
  BY DEF Grown, Blocked

\* Repositories with work that was there before they were inspected are barred.
LEMMA DirtyIsBarredStep ==
    ASSUME Typed, Control, Steady, Entries, DirtyIsBarred, Next
    PROVE  DirtyIsBarred'
<1>1. CASE UNCHANGED <<pc, obs>> /\ steady'.dirty = steady.dirty
  BY <1>1 DEF DirtyIsBarred
<1>2. CASE pc' \in {"idle", "walk"}
  BY <1>2 DEF DirtyIsBarred
<1>3. CASE Reads
  <2>1. pc' = pc /\ obs'.entries = obs.entries /\ steady' = steady
    BY <1>3, ReadsType, CollectsKeep DEF Collects
  <2> QED
    BY <2>1 DEF DirtyIsBarred
<1>4. CASE CollectGit
  <2>1. SUFFICES ASSUME NEW f \in obs'.entries, f.path \in steady'.dirty PROVE Blocked(f, ArchiveOnly)
    BY DEF DirtyIsBarred
  <2>2. GrownInto(obs.entries, obs'.entries)
        /\ (f.path \in work /\ f.is.kind = "dir" /\ f.is.git # "none" => Blocked(f, ArchiveOnly))
    BY <1>4, CollectGitDoes
  <2>3. PICK e \in obs.entries : Grown(e, f)
    BY <2>2 DEF GrownInto
  <2>4. EntryTells(e, obs.pol)
    BY DEF Entries
  <2>5. steady' = steady /\ f.path \in work
    BY <1>4, <2>1, CollectsKeep DEF Collects, Steady
  <2>6. f.path \in Path /\ machine.entity[f.path].git # "none"
    BY <2>5 DEF Typed, WorldTypes
  <2>7. machine.entity[f.path].kind = "dir"
    BY <2>6, MachineHas DEF Typed, WorldTypes, Path
  <2>8. f.is = e.is /\ f.path = e.path /\ e.unknown \subseteq f.unknown
    BY <2>3 DEF Grown
  <2>9. f.is.git # "none" /\ (f.is.kind = "dir" \/ f.unknown # {})
    BY <2>4, <2>6, <2>7, <2>8 DEF EntryTells
  <2> QED
    BY <2>2, <2>5, <2>9 DEF Blocked
<1>5. CASE Publish \/ TimesOut
  <2>1. SUFFICES ASSUME NEW f \in obs'.entries, f.path \in steady'.dirty PROVE Blocked(f, ArchiveOnly)
    BY DEF DirtyIsBarred
  <2>2. pc \in Stages /\ GrownInto(obs.entries, obs'.entries) /\ steady' = steady
    BY <1>5, SourceEnds, CollectsKeep DEF Collects
  <2>3. PICK e \in obs.entries : Grown(e, f)
    BY <2>2 DEF GrownInto
  <2>4. Blocked(e, ArchiveOnly)
    BY <2>1, <2>2, <2>3 DEF DirtyIsBarred, Grown, Stages
  <2> QED
    BY <2>3, <2>4, GrownIsBarred
<1>6. Outside => UNCHANGED <<pc, obs>> /\ steady'.dirty = steady.dirty
  BY OutsideKeeps, OutsideSteady
<1>7. WalkRoot \/ StartScan \/ EndScan \/ Plan \/ Apply \/ Move => pc' \in {"idle", "walk"}
  BY DEF WalkRoot, StartScan, EndScan, Plan, Apply, Move
<1>8. EndRecheck => pc' = "idle" \/ (UNCHANGED <<obs, steady>> /\ pc = "bind")
  BY DEF EndRecheck
<1>9. CASE EndRecheck
  BY <1>2, <1>8, <1>9 DEF DirtyIsBarred
<1> QED
  BY <1>1, <1>2, <1>3, <1>4, <1>5, <1>6, <1>7, <1>9, StepsAre DEF Collects

\* Every kind of holder has its source and its place there.
LEMMA PlaceOf ==
    ASSUME NEW kind \in HolderKinds
    PROVE  /\ StageOf(kind) \in Stages /\ Position(kind) \in 1 .. Len(Gatherers[StageOf(kind)])
           /\ Gatherers[StageOf(kind)][Position(kind)] = kind
           /\ StageOf(kind) = "gitmoot" <=> kind = "job"
<1>1. CASE kind \in {"process", "agent", "job"}
  BY <1>1 DEF StageOf, Stages, Position, Gatherers
<1>2. CASE kind \in {"unit", "definition", "pipeline", "stagehand"}
  BY <1>2 DEF StageOf, Stages, Position, Gatherers
<1> QED
  BY <1>1, <1>2 DEF HolderKinds

\* What has held is of a holder, of some kind.
LEMMA HeldAre ==
    ASSUME Typed, Steady, NEW r \in steady.held
    PROVE  /\ r.of \in Holder /\ Uses[r.of] \in HolderKinds /\ at[r.of] # Nowhere /\ r = Reference(r.of)
<1>1. r \in Ref
  BY DEF Typed, ObsTypes
<1>2. r.of \in Holder
  BY <1>1 DEF Ref
<1> QED
  BY <1>2, InventoryAssumption DEF Steady

\* A holder that stays is told of by its source, or the source is a gap.
LEMMA GatheredStep ==
    ASSUME Typed, Control, Steady, Gathered, Next
    PROVE  Gathered'
<1>1. CASE UNCHANGED <<pc, obs>> /\ \A r \in steady'.held : r \in steady.held
  BY <1>1 DEF Gathered
<1>2. CASE (pc' \notin Stages \/ obs'.listed = 0) /\ \A r \in steady'.held : r \in steady.held
  <2>1. SUFFICES ASSUME NEW r \in steady'.held PROVE Uses[r.of] \in HolderKinds
    <3>1. \A r \in steady'.held : /\ StageOf(Uses[r.of]) \in Stages
                                  /\ Position(Uses[r.of]) \in 1 .. Len(Gatherers[StageOf(Uses[r.of])])
      BY <2>1, PlaceOf
    <3>2. \A r \in steady'.held : Position(Uses[r.of]) \in 1 .. 4
      BY DEF Position
    <3>3. \A r \in steady'.held : ~(Position(Uses[r.of]) <= 0)
      BY <3>2
    <3> QED
      BY <1>2, <3>1, <3>3 DEF Gathered
  <2> QED
    BY <1>2, HeldAre
<1>3. CASE Reads
  <2>1. /\ pc' = pc /\ pc \in Stages /\ obs.gap \subseteq obs'.gap /\ steady' = steady
        /\ obs \in Observation /\ obs' \in Observation
    BY <1>3, ReadsType, CollectsKeep DEF Collects, Typed, ObsTypes
  <2>2. /\ obs.listed \in Nat /\ obs.unread \subseteq Holder /\ obs.refs \subseteq Ref
    BY <2>1, ObservationHas
  <2>3. SUFFICES ASSUME NEW r \in steady.held, pc = StageOf(Uses[r.of]), Position(Uses[r.of]) <= obs'.listed
                 PROVE  r.of \in obs'.unread \/ r \in obs'.refs \/ pc \in obs'.gap
    BY <2>1 DEF Gathered
  <2>4. r.of \in Holder /\ Uses[r.of] \in HolderKinds /\ at[r.of] # Nowhere /\ r = Reference(r.of)
    BY HeldAre
  <2>5. Position(Uses[r.of]) <= obs.listed => r.of \in obs.unread \/ r \in obs.refs \/ pc \in obs.gap
    BY <2>3 DEF Gathered
  <2>6. Position(Uses[r.of]) \in 1 .. 4 /\ Gatherers[pc][Position(Uses[r.of])] = Uses[r.of]
    BY <2>3, <2>4, PlaceOf DEF Position
  <2> HIDE DEF Ref, Paths, Sources, Entry, InventoryRoot, Policy, None
  <2>7. CASE \E h \in Holder : ReadProcess(h) \/ ReadUnit(h) \/ ReadDefinition(h) \/ ReadStagehand(h) \/ ReadFails(h)
    <3>1. PICK h \in Holder : h \in obs.unread /\ (Take(h, {}) \/ Take(h, {pc}) \/ ReadFails(h))
      BY <2>7 DEF ReadProcess, ReadUnit, ReadDefinition, ReadStagehand, ReadFails
    <3>2. CASE ReadFails(h)
      <4>1. obs' = [obs EXCEPT !.unread = obs.unread \ {h}, !.gap = obs.gap \cup {pc}]
        BY <3>2 DEF ReadFails
      <4>2. obs'.gap = obs.gap \cup {pc}
        BY <2>1, <4>1 DEF Observation
      <4> QED
        BY <4>2
    <3>3. CASE \E gone : Take(h, gone)
      <4> DEFINE refs == obs.refs \cup (IF at[h] = Nowhere THEN {} ELSE {Reference(h)})
      <4>1. PICK gap : obs' = [obs EXCEPT !.unread = obs.unread \ {h}, !.refs = refs, !.gap = gap]
        BY <3>3 DEF Take
      <4>2. obs.refs \subseteq refs /\ (r.of = h => r \in refs)
        BY <2>4
      <4> HIDE DEF refs
      <4>3. obs'.listed = obs.listed /\ obs'.unread = obs.unread \ {h} /\ obs'.refs = refs
        BY <2>1, <4>1 DEF Observation
      <4> QED
        BY <2>1, <2>3, <2>5, <4>2, <4>3
    <3> QED
      BY <3>1, <3>2, <3>3
  <2>8. CASE \E kind \in HolderKinds : SourceFails(kind)
    <3>1. obs' = [obs EXCEPT !.listed = obs.listed + 1, !.gap = obs.gap \cup {pc}]
      BY <2>8 DEF SourceFails
    <3>2. obs'.gap = obs.gap \cup {pc}
      BY <2>1, <3>1 DEF Observation
    <3> QED
      BY <3>2
  <2>9. ASSUME NEW kind, Lists(kind), obs'.listed = obs.listed + 1, obs.refs \subseteq obs'.refs,
               \/ obs'.unread = Present(kind)
               \/ {Reference(h) : h \in Present(kind)} \subseteq obs'.refs
        PROVE  r.of \in obs'.unread \/ r \in obs'.refs \/ pc \in obs'.gap
    <3>1. obs.unread = {} /\ kind = Gatherers[pc][obs.listed + 1]
      BY <2>9 DEF Lists
    <3>2. CASE Position(Uses[r.of]) <= obs.listed
      BY <2>1, <2>5, <2>9, <3>1, <3>2
    <3>3. CASE Position(Uses[r.of]) = obs.listed + 1
      <4>1. kind = Uses[r.of]
        BY <2>6, <3>1, <3>3
      <4>2. r.of \in Present(kind)
        BY <2>4, <4>1 DEF Present
      <4> QED
        BY <2>4, <2>9, <4>2
    <3>4. Position(Uses[r.of]) <= obs.listed \/ Position(Uses[r.of]) = obs.listed + 1
      BY <2>2, <2>3, <2>6, <2>9
    <3> QED
      BY <3>2, <3>3, <3>4
  <2>10. CASE \E kind \in HolderKinds : ListHolders(kind)
    <3>1. PICK kind \in HolderKinds : ListHolders(kind)
      BY <2>10
    <3>2. obs' = [obs EXCEPT !.listed = obs.listed + 1, !.unread = Present(kind)] /\ Lists(kind)
      BY <3>1 DEF ListHolders
    <3>3. obs'.listed = obs.listed + 1 /\ obs'.unread = Present(kind) /\ obs'.refs = obs.refs
      BY <2>1, <3>2 DEF Observation
    <3> QED
      BY <2>9, <3>2, <3>3
  <2>11. CASE AskAgents \/ QueryPipelines \/ QueryGitmoot
    <3>1. PICK kind : Answered(kind)
      BY <2>11 DEF AskAgents, QueryPipelines, QueryGitmoot
    <3> DEFINE refs == obs.refs \cup {Reference(h) : h \in Present(kind)}
    <3>2. obs' = [obs EXCEPT !.listed = obs.listed + 1, !.refs = refs] /\ Lists(kind)
      BY <3>1 DEF Answered
    <3>3. obs'.listed = obs.listed + 1 /\ obs'.refs = refs
      <4> HIDE DEF refs
      <4> QED
        BY <2>1, <3>2 DEF Observation
    <3> QED
      BY <2>9, <3>2, <3>3
  <2> QED
    BY <1>3, <2>7, <2>8, <2>10, <2>11 DEF Reads
<1>4. CASE Outside
  BY <1>1, <1>4, OutsideKeeps, OutsideSteady
<1>5. CASE WalkRoot \/ CollectGit \/ Publish \/ TimesOut
  <2>1. steady' = steady
    BY <1>5, CollectsKeep DEF Collects
  <2>2. pc' \notin Stages \/ obs'.listed = 0
    BY <1>5, WalkDoes, CollectGitDoes, SourceEnds DEF Control, Stages
  <2> QED
    BY <1>2, <2>1, <2>2
<1>6. CASE StartScan \/ EndScan \/ Plan \/ EndRecheck \/ Move
  <2>1. pc' \notin Stages
    BY <1>6 DEF StartScan, EndScan, Plan, EndRecheck, Move, Stages
  <2>2. \A r \in steady'.held : r \in steady.held
    BY <1>6 DEF StartScan, EndScan, Plan, EndRecheck, Move, Nothing
  <2> QED
    BY <1>2, <2>1, <2>2
<1>7. CASE Apply
  <2>1. pc' = "walk" /\ \A kind : StageOf(kind) # "walk"
    BY <1>7 DEF Apply, StageOf
  <2> QED
    BY <2>1 DEF Gathered
<1> QED
  BY <1>3, <1>4, <1>5, <1>6, <1>7, StepsAre DEF Collects

\* Where a collection has gone past a source, it was past it before or has just left it.
LEMMA PastAfter ==
    ASSUME pc \in Stages, pc' = After[pc], NEW stage \in Stages, Past(stage)'
    PROVE  Past(stage) \/ stage = pc
  BY DEF Stages, After, Past

\* What a holder that stays refers to is barred once its source has been read.
LEMMA HeldIsBarredStep ==
    ASSUME Typed, Control, Steady, Gathered, HeldIsBarred, Next
    PROVE  HeldIsBarred'
<1>1. CASE /\ pc' = pc /\ obs'.entries = obs.entries /\ obs.gap \subseteq obs'.gap
           /\ \A r \in steady'.held : r \in steady.held
  BY <1>1 DEF HeldIsBarred, Past
<1>2. CASE pc' \in {"idle", "walk", "processes"}
  <2>1. \A stage : ~Past(stage)'
    BY <1>2 DEF Past
  <2> QED
    BY <2>1 DEF HeldIsBarred
<1>3. CASE Publish \/ TimesOut
  <2>1. /\ pc \in Stages /\ pc' = After[pc] /\ obs.gap \subseteq obs'.gap /\ steady' = steady
        /\ GrownInto(obs.entries, obs'.entries)
    BY <1>3, SourceEnds, CollectsKeep DEF Collects
  <2>2. \/ pc \in obs'.gap
        \/ /\ obs.unread = {} /\ obs.listed = Len(Gatherers[pc]) /\ obs'.gap = obs.gap
           /\ \A f \in obs'.entries : \A r \in obs.refs :
                IF pc = "gitmoot" THEN pc \notin obs.gap /\ r.path = f.path => Blocked(f, ArchiveOnly)
                ELSE Covers(r, f.path) => Blocked(f, ArchiveOnly)
    BY <1>3, SourceEnds
  <2>3. SUFFICES ASSUME NEW r \in steady.held, Past(StageOf(Uses[r.of]))', StageOf(Uses[r.of]) \notin obs'.gap,
                        NEW f \in obs'.entries, Hits(r, f.path)
                 PROVE  Blocked(f, ArchiveOnly)
    BY <2>1 DEF HeldIsBarred, Hits
  <2>4. Uses[r.of] \in HolderKinds
    BY HeldAre
  <2> DEFINE stage == StageOf(Uses[r.of])
  <2>5. /\ stage \in Stages /\ Position(Uses[r.of]) \in 1 .. Len(Gatherers[stage])
        /\ stage = "gitmoot" <=> Uses[r.of] = "job"
    BY <2>4, PlaceOf
  <2>6. Past(stage) \/ stage = pc
    BY <2>1, <2>3, <2>5, PastAfter
  <2>7. CASE Past(stage)
    <3>1. PICK e \in obs.entries : Grown(e, f)
      BY <2>1 DEF GrownInto
    <3>2. e.path = f.path
      BY <3>1 DEF Grown
    <3>3. Blocked(e, ArchiveOnly)
      BY <2>1, <2>3, <2>7, <3>2 DEF HeldIsBarred
    <3> QED
      BY <3>1, <3>3, GrownIsBarred
  <2>8. CASE stage = pc
    <3>1. obs.unread = {} /\ obs.listed = Len(Gatherers[pc]) /\ pc \notin obs.gap
      BY <2>2, <2>3, <2>8
    <3>2. Position(Uses[r.of]) <= obs.listed
      <4>1. Len(Gatherers[pc]) \in Nat
        BY <2>1 DEF Stages, Gatherers
      <4> QED
        BY <2>5, <2>8, <3>1, <4>1
    <3>3. r \in obs.refs
      BY <2>8, <3>1, <3>2 DEF Gathered
    <3>4. IF pc = "gitmoot" THEN r.path = f.path ELSE Covers(r, f.path)
      BY <2>3, <2>5, <2>8 DEF Hits
    <3> QED
      BY <2>2, <2>3, <2>8, <3>1, <3>3, <3>4
  <2> QED
    BY <2>6, <2>7, <2>8
<1>4. CASE EndRecheck
  <2>1. pc' = "idle" \/ (pc = "bind" /\ pc' = "move" /\ UNCHANGED <<obs, steady>>)
    BY <1>4 DEF EndRecheck
  <2>2. CASE pc = "bind" /\ pc' = "move" /\ UNCHANGED <<obs, steady>>
    BY <2>2 DEF HeldIsBarred, Past
  <2> QED
    BY <1>2, <2>1, <2>2
<1>5. CASE Outside
  BY <1>1, <1>5, OutsideKeeps, OutsideSteady
<1>6. CASE Reads
  <2>1. pc' = pc /\ obs'.entries = obs.entries /\ obs.gap \subseteq obs'.gap /\ steady' = steady
    BY <1>6, ReadsType, CollectsKeep DEF Collects
  <2> QED
    BY <1>1, <2>1
<1>7. WalkRoot \/ CollectGit \/ StartScan \/ EndScan \/ Plan \/ Apply \/ Move => pc' \in {"idle", "walk", "processes"}
  BY DEF WalkRoot, CollectGit, StartScan, EndScan, Plan, Apply, Move
<1> QED
  BY <1>2, <1>3, <1>4, <1>5, <1>6, <1>7, StepsAre DEF Collects

-----------------------------------------------------------------------------
(* The theorems. *)

\* The invariant holds at the start.
LEMMA InventoryInit == Init => InventoryInv
<1> SUFFICES ASSUME Init PROVE InventoryInv
  OBVIOUS
<1>1. Typed
  <2>1. WorldTypes
    BY MachineHas DEF Init, WorldTypes, Path
  <2>2. ObsTypes
    <3> HIDE DEF Observation, Ref, Paths
    <3> QED
      BY IdleType DEF Init, ObsTypes
  <2>3. StoreTypes
    BY DEF Init, StoreTypes
  <2> QED
    BY <2>1, <2>2, <2>3 DEF Typed
<1>2. Control /\ Steady /\ Entries /\ Gathered /\ HeldIsBarred
  BY DEF Init, Control, Stages, Steady, Entries, Gathered, HeldIsBarred, Idle, Nothing
<1>3. DirtyIsBarred /\ Inventoried /\ PlanIsSound
  BY DEF Init, DirtyIsBarred, Inventoried, PlanIsSound
<1> QED
  BY <1>1, <1>2, <1>3 DEF InventoryInv

\* Every step keeps it.
LEMMA InventoryStep == InventoryInv /\ [Next]_vars => InventoryInv'
<1> SUFFICES ASSUME InventoryInv, [Next]_vars PROVE InventoryInv'
  OBVIOUS
<1> USE DEF InventoryInv
<1>1. CASE Next
  <2>1. Typed'
    BY <1>1, WorldStep, ObsTypesStep, StoreTypesStep DEF Typed
  <2>2. Control' /\ Steady' /\ Entries'
    BY <1>1, ControlStep, SteadyStep, EntriesStep
  <2>3. DirtyIsBarred' /\ Gathered' /\ HeldIsBarred'
    BY <1>1, DirtyIsBarredStep, GatheredStep, HeldIsBarredStep
  <2>4. Inventoried' /\ PlanIsSound'
    BY <1>1, InventoriedStep, PlanIsSoundStep
  <2> QED
    BY <2>1, <2>2, <2>3, <2>4
<1>2. CASE UNCHANGED vars
  <2>1. UNCHANGED <<machine, version, work, at, file, pc, obs, inv, plan, steady>>
    BY <1>2 DEF vars, world
  <2>2. WorldTypes' /\ ObsTypes' /\ StoreTypes'
    <3> HIDE DEF Observation, Stored, Ref, Paths
    <3>1. WorldTypes /\ ObsTypes /\ StoreTypes
      BY DEF Typed
    <3> QED
      BY <2>1, <3>1 DEF WorldTypes, ObsTypes, StoreTypes, Path
  <2>3. Control'
    BY <2>1, RevalidatedKeeps DEF Control
  <2>4. Steady'
    BY <2>1 DEF Steady, Reference
  <2>5. Entries'
    BY <2>1 DEF Entries, EntryTells, Path
  <2>6. DirtyIsBarred' /\ Gathered' /\ HeldIsBarred'
    BY <2>1 DEF DirtyIsBarred, Gathered, HeldIsBarred, Past
  <2>7. Inventoried'
    BY <2>1 DEF Inventoried, Path
  <2>8. PlanIsSound'
    <3>1. inv' = inv /\ plan' = plan
      BY <2>1
    <3> QED
      BY <3>1 DEF PlanIsSound
  <2> QED
    BY <2>2, <2>3, <2>4, <2>5, <2>6, <2>7, <2>8 DEF Typed
<1> QED
  BY <1>1, <1>2

\* It holds of every reachable state.
LEMMA InventoryInvariant == Spec => []InventoryInv
<1>1. Init => InventoryInv
  BY InventoryInit
<1>2. InventoryInv /\ [Next]_vars => InventoryInv'
  BY InventoryStep
<1> QED
  BY <1>1, <1>2, PTL DEF Spec

\* What a plan of the stored inventory changes is refused by no guard, claimed by nobody, and no
\* riskier than what the rules and every rule that names it ask for.  (plan/rules.go Evaluate,
\* plan/plan.go applyAdvice)
THEOREM PlannedIsUnopposed == Spec => []MutationIsUnopposed
<1>1. InventoryInv => MutationIsUnopposed
  BY DEF InventoryInv, PlanIsSound, Unopposed, MutationIsUnopposed, Current
<1> QED
  BY <1>1, InventoryInvariant, PTL

\* No relocation goes to where something was seen or to where another goes.
\* (plan/plan.go resolveDestinationCollisions)
THEOREM RelocationsAreFree == Spec => []DestinationsAreFree
<1>1. InventoryInv => DestinationsAreFree
  BY DEF InventoryInv, PlanIsSound, DestinationsAreFree, Current
<1> QED
  BY <1>1, InventoryInvariant, PTL

\* What no guard refuses, nothing protects, and nothing of it is unknown.
LEMMA UnrefusedIsKnown ==
    ASSUME NEW e, NEW pol, Verdict(e, pol) = {}
    PROVE  e.prot = {} /\ e.unknown = {}
<1>1. "collected_protections" \in GuardNames /\ "unknown_evidence" \in GuardNames
  BY DEF GuardNames
<1>2. ~Fires("collected_protections", e, pol) /\ ~Fires("unknown_evidence", e, pol)
  BY <1>1 DEF Verdict
<1> QED
  BY <1>2 DEF Fires

\* No plan changes an entry that the walk of a report_only root listed, whichever root it was
\* kept from.  (collect/collect.go mergeDuplicatePaths, plan/rules.go Evaluate)
THEOREM ReportedIsKept == Spec => []ReportOnlyEntryIsKept
<1>1. InventoryInv => ReportOnlyEntryIsKept
  <2> SUFFICES ASSUME InventoryInv, Current, NEW a \in plan.actions, a.path \in inv.reported, a.kind \in Mutating
               PROVE  FALSE
    BY DEF ReportOnlyEntryIsKept
  <2>1. PICK e \in inv.entries : e.path = a.path /\ Unopposed(e, plan.pol, a.kind)
    BY DEF InventoryInv, PlanIsSound, Current
  <2>2. e.prot = {}
    BY <2>1, UnrefusedIsKnown DEF Unopposed
  <2>3. inv # None
    BY DEF InventoryInv, Typed, StoreTypes, Current
  <2> QED
    BY <2>1, <2>2, <2>3 DEF InventoryInv, Inventoried
<1> QED
  BY <1>1, InventoryInvariant, PTL

\* What apply is about to move has been revalidated, on the evidence of every source.
LEMMA AboutToMove ==
    ASSUME InventoryInv, pc = "move"
    PROVE  /\ \E f \in obs.entries : f.path = obs.target
           /\ \A f \in obs.entries : f.path = obs.target => ~Blocked(f, ArchiveOnly)
           /\ Sources \cap obs.gap = {}
           /\ InArchiveOnlyRoot(obs.pol, obs.target) =>
                /\ \E r \in obs.pol.released : r.path = obs.target /\ r.category /\ r.expiry
                /\ Planned(obs.target).version = machine.sealed[obs.target]
<1>1. ~EvidenceGap /\ Revalidated /\ Typed /\ Entries
  BY DEF InventoryInv, Control
<1>2. PICK e \in Collected : /\ e.path = obs.target /\ ~Refused(e, obs.pol)
                             /\ e.version = Planned(e.path).version
  BY <1>1 DEF Revalidated
<1>3. e.prot = {} /\ e.unknown = {}
  BY <1>2, UnrefusedIsKnown DEF Refused
<1>4. /\ \E f \in obs.entries : f.path = e.path
      /\ \A f \in obs.entries : f.path = e.path /\ Blocked(f, ArchiveOnly) => e.prot # {} \/ e.unknown # {}
      /\ e.prot = {} /\ InArchiveOnlyRoot(obs.pol, e.path) =>
           \E r \in obs.pol.released : r.path = e.path /\ r.category /\ r.expiry /\ e.version = machine.sealed[e.path]
  BY <1>1, CollectedIs
<1>5. Sources \cap obs.gap = {}
  BY <1>1 DEF EvidenceGap, Sources, Stages
<1> QED
  BY <1>2, <1>3, <1>4, <1>5

\* No deadline, unreadable source or half-read listing hides from apply what has been in use, or
\* dirty, since it began to look.  (collect/collect.go runBounded, collect/evidence.go EvidenceGap)
THEOREM HeldIsNotMoved == Spec => HeldThroughoutIsKept
<1>1. InventoryInv /\ [Next]_vars =>
        [Moved => /\ obs.target \notin steady.dirty
                  /\ \A r \in steady.held :
                      IF Uses[r.of] = "job" THEN r.path # obs.target ELSE ~Covers(r, obs.target)]_vars
  <2> SUFFICES ASSUME InventoryInv, pc = "move"
               PROVE  /\ obs.target \notin steady.dirty
                      /\ \A r \in steady.held : ~Hits(r, obs.target)
    BY DEF Moved, Hits
  <2>1. PICK f \in obs.entries : f.path = obs.target /\ ~Blocked(f, ArchiveOnly)
    BY AboutToMove
  <2>2. obs.target \notin steady.dirty
    BY <2>1 DEF InventoryInv, DirtyIsBarred
  <2>3. ASSUME NEW r \in steady.held PROVE ~Hits(r, obs.target)
    <3>1. StageOf(Uses[r.of]) \in Stages
      BY HeldAre, PlaceOf DEF InventoryInv
    <3>2. Past(StageOf(Uses[r.of])) /\ StageOf(Uses[r.of]) \notin obs.gap
      BY <3>1, AboutToMove DEF Past, Sources, Stages
    <3> QED
      BY <2>1, <3>2 DEF InventoryInv, HeldIsBarred
  <2> QED
    BY <2>2, <2>3
<1> QED
  BY <1>1, InventoryInvariant, PTL DEF Spec, HeldThroughoutIsKept

\* Out of an archive_only root goes only the tree that an archive category has released, as it
\* was sealed.  (config/policy.go InArchiveOnlyRoot, collect/workspace_archives.go)
THEOREM ArchiveOnlyIsKept == Spec => ArchiveOnlyIsUntouched
<1>1. InventoryInv /\ [Next]_vars =>
        [Moved /\ Within("archiveOnly") =>
            /\ \E r \in obs.pol.released : r.path = obs.target /\ r.category /\ r.expiry
            /\ Planned(obs.target).version = machine.sealed[obs.target]]_vars
  <2> SUFFICES ASSUME InventoryInv, pc = "move", Within("archiveOnly")
               PROVE  /\ \E r \in obs.pol.released : r.path = obs.target /\ r.category /\ r.expiry
                      /\ Planned(obs.target).version = machine.sealed[obs.target]
    BY DEF Moved
  <2>1. InArchiveOnlyRoot(obs.pol, obs.target)
    BY DEF Within, InArchiveOnlyRoot
  <2> QED
    BY <2>1, AboutToMove
<1> QED
  BY <1>1, InventoryInvariant, PTL DEF Spec, ArchiveOnlyIsUntouched

-----------------------------------------------------------------------------
(* The types in full: what is moved is a path, and the events are bounded. *)

EventsBounded == events \in 0 .. machine.events
TargetIsPath == obs.target # <<>> => obs.target \in Path

\* What goes on outside happens within the bound.
LEMMA EventsStep == ASSUME Typed, EventsBounded, Next PROVE EventsBounded'
<1>1. machine.events \in Nat
  <2>1. machine \in Layout
    BY DEF Typed, WorldTypes
  <2> QED
    BY <2>1, InventoryAssumption
<1>2. CASE Outside
  <2>1. Happens
    BY <1>2 DEF Outside, Turn, Write, Work, EditPolicy
  <2>2. machine' = machine
    BY <1>2, OutsideKeeps
  <2> QED
    BY <1>1, <2>1, <2>2 DEF EventsBounded, Happens
<1>3. CASE Collects
  <2>1. events' = events \/ Happens
    <3>1. \A h \in Holder :
             ReadProcess(h) \/ ReadUnit(h) \/ ReadDefinition(h) \/ ReadStagehand(h) => UNCHANGED events
      BY Zenon DEF ReadProcess, ReadUnit, ReadDefinition, ReadStagehand, Take, world
    <3>2. \A h \in Holder : ReadFails(h) => Happens
      BY Zenon DEF ReadFails
    <3>3. \A kind \in HolderKinds : (ListHolders(kind) => UNCHANGED events) /\ (SourceFails(kind) => Happens)
      BY Zenon DEF ListHolders, SourceFails, world
    <3>4. AskAgents \/ QueryPipelines \/ QueryGitmoot => UNCHANGED events
      BY Zenon DEF AskAgents, QueryPipelines, QueryGitmoot, Answered, world
    <3>5. WalkRoot \/ CollectGit \/ TimesOut => UNCHANGED events \/ Happens
      BY Zenon DEF WalkRoot, Walk, CollectGit, TimesOut
    <3>6. Publish => UNCHANGED events
      BY Zenon DEF Publish, world
    <3> QED
      BY <1>3, <3>1, <3>2, <3>3, <3>4, <3>5, <3>6, Zenon DEF Collects, Reads
  <2>2. machine' = machine
    BY <1>3, CollectsKeep
  <2> QED
    BY <1>1, <2>1, <2>2 DEF EventsBounded, Happens
<1>4. CASE StartScan \/ EndScan \/ Plan \/ Apply \/ EndRecheck \/ Move
  <2>1. UNCHANGED <<events, machine>>
    BY <1>4, Zenon DEF StartScan, EndScan, Plan, Apply, EndRecheck, Move, world
  <2> QED
    BY <2>1 DEF EventsBounded
<1> QED
  BY <1>2, <1>3, <1>4, StepsAre

\* A command that moves begins with a path of the inventory and keeps it to its end.
LEMMA TargetStep == ASSUME InventoryInv, TargetIsPath, Next PROVE TargetIsPath'
<1> USE DEF InventoryInv
<1>1. Path' = Path
  <2>1. Outside \/ Collects => machine' = machine
    BY OutsideKeeps, CollectsKeep
  <2>2. StartScan \/ EndScan \/ Plan \/ Apply \/ EndRecheck \/ Move => machine' = machine
    BY Zenon DEF StartScan, EndScan, Plan, Apply, EndRecheck, Move, world
  <2> QED
    BY <2>1, <2>2, StepsAre DEF Path
<1>2. CASE obs'.target = obs.target
  BY <1>1, <1>2 DEF TargetIsPath
<1>3. CASE obs'.target = <<>>
  BY <1>3 DEF TargetIsPath
<1>4. CASE Outside
  BY <1>2, <1>4, OutsideKeeps
<1>5. CASE Collects
  <2>1. obs'.target = obs.target
    BY <1>5, ReadsType, WalkDoes, CollectGitDoes, SourceEnds DEF Collects
  <2> QED
    BY <1>2, <2>1
<1>6. CASE StartScan
  BY <1>3, <1>6 DEF StartScan, Idle
<1>7. CASE EndScan \/ Move
  BY <1>3, <1>7 DEF EndScan, Move, Idle
<1>8. CASE Plan
  BY <1>2, <1>8 DEF Plan
<1>9. CASE EndRecheck
  BY <1>2, <1>3, <1>9 DEF EndRecheck, Idle
<1>10. CASE Apply
  <2>1. PICK p \in Path \ {<<>>} : obs' = Begun(p, file)
    BY <1>10, ApplyTargets
  <2>2. obs'.target = p
    BY <2>1 DEF Begun, Idle
  <2> QED
    BY <1>1, <2>2 DEF TargetIsPath
<1> QED
  BY <1>4, <1>5, <1>6, <1>7, <1>8, <1>9, <1>10, StepsAre

\* However the machine changes under a collection, every variable keeps its type: what is
\* collected, reported and about to be moved are paths of the machine.
THEOREM TypeCorrect == Spec => []TypeOK
<1>1. Init => EventsBounded /\ TargetIsPath
  <2> SUFFICES ASSUME Init PROVE EventsBounded /\ TargetIsPath
    OBVIOUS
  <2>1. machine.events \in Nat /\ events = 0
    BY InventoryAssumption DEF Init
  <2> QED
    BY <2>1 DEF Init, Idle, EventsBounded, TargetIsPath
<1>2. InventoryInv /\ EventsBounded /\ TargetIsPath /\ [Next]_vars => (EventsBounded /\ TargetIsPath)'
  <2> SUFFICES ASSUME InventoryInv, EventsBounded, TargetIsPath, [Next]_vars
               PROVE  (EventsBounded /\ TargetIsPath)'
    OBVIOUS
  <2>1. CASE Next
    BY <2>1, EventsStep, TargetStep DEF InventoryInv
  <2>2. CASE UNCHANGED vars
    BY <2>2 DEF vars, world, EventsBounded, TargetIsPath, Path
  <2> QED
    BY <2>1, <2>2
<1>3. InventoryInv /\ EventsBounded /\ TargetIsPath => TypeOK
  <2> SUFFICES ASSUME InventoryInv, EventsBounded, TargetIsPath PROVE TypeOK
    OBVIOUS
  <2>1. /\ machine \in Layout /\ file \in machine.policies /\ events \in 0 .. machine.events
        /\ version \in [Path -> Nat] /\ work \subseteq Path /\ at \in [Holder -> Spot \cup {Nowhere}]
        /\ plan # None => inv # None
    BY DEF InventoryInv, Typed, WorldTypes, StoreTypes, EventsBounded
  <2>2. pc \in {"idle", "walk", "bind", "move"} \cup DOMAIN Gatherers
    BY DEF InventoryInv, Typed, ObsTypes, Stages, Gatherers
  <2>3. obs.unread \subseteq Holder /\ obs.entries \subseteq Entry
    BY ObservationHas DEF InventoryInv, Typed, ObsTypes
  <2>4. obs.target \in Path \cup {<<>>}
    BY DEF TargetIsPath
  <2>5. obs.reported \subseteq Path /\ \A e \in obs.entries : e.path \in Path
    BY DEF InventoryInv, Entries, EntryTells
  <2>6. \A e \in obs.entries : e.git.kind \in {"none", "primary", "linked"}
    BY <2>3 DEF Entry
  <2> QED
    BY <2>1, <2>2, <2>3, <2>4, <2>5, <2>6 DEF TypeOK
<1> QED
  BY <1>1, <1>2, <1>3, InventoryInvariant, PTL DEF Spec

=============================================================================
