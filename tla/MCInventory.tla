---------------------------- MODULE MCInventory ----------------------------
(***************************************************************************)
(* Machines for the inventory and planning model.  Each is small and has   *)
(* one difficulty: projects that want one place, rules that disagree,      *)
(* names that protect, stores, repositories, overlapping roots, archives,  *)
(* holders that come and go.                                               *)
(***************************************************************************)
EXTENDS Inventory, TLC

NameLists == [evidence |-> {"logs"}, operational |-> {"ops"}, backup |-> {"bak"}, worktree |-> {"wt"},
          generated |-> {"build"}, cache |-> {"cache", ".cache"}, sensitive |-> {"id_rsa"}]
Stores == {<<"npm", "_cacache">>}
LocalStores == {<<".uv-cache">>}
Outputs == {"dist"}
Collections == {"repos"}
Sources == {"src"}
Opaques == {"dist", ".cache"}
Dotted == {".cache", ".uv-cache"}

Nobody == [h \in Holder |-> Nowhere]
HolderKind == [proc |-> "process", reg |-> "agent", svc |-> "unit", cron |-> "definition",
           pipe |-> "pipeline", hand |-> "stagehand", job |-> "job"]
Using == [h \in Holder |-> HolderKind[h]]

Spots == {<<"ws">>, <<"ws", "build">>, <<"ws", "build", "x">>, <<"ws", "hub", "x">>}

-----------------------------------------------------------------------------
(* Entities, policies and machines, by what distinguishes them *)

Dir == [present |-> TRUE, kind |-> "dir", mount |-> FALSE, marker |-> FALSE, database |-> FALSE, deep |-> TRUE, size |-> 2,
        age |-> 5, lowerBound |-> FALSE, foreign |-> FALSE, git |-> "none", idle |-> FALSE, to |-> <<>>]
File == [Dir EXCEPT !.kind = "file"]
Absent == [Dir EXCEPT !.present = FALSE]
Project == [Dir EXCEPT !.marker = TRUE]
Primary == [Dir EXCEPT !.git = "primary"]
Worktree == [Dir EXCEPT !.git = "linked", !.idle = TRUE]
LinkTo(p) == [Dir EXCEPT !.kind = "symlink", !.to = p]

Root(p, d) == [path |-> p, depth |-> d, reportOnly |-> FALSE, archiveOnly |-> FALSE, follow |-> TRUE, cross |-> FALSE]
Rule(p, action, max, ttl, ord) ==
    [path |-> p, action |-> action, maxBytes |-> max, ttl |-> ttl, ord |-> ord, retention |-> 3]
Released(p, expiry, category) == [path |-> p, expiry |-> expiry, category |-> category]

Default == [protect |-> {}, own |-> {<<"state">>}, target |-> "same", copies |-> FALSE, space |-> 1, home |-> {},
            recovery |-> {}, canonical |-> {}, caches |-> {}, released |-> {}, foreign |-> TRUE, retention |-> 2,
            roots |-> <<Root(<<"ws">>, 2)>>]

Machine(entity, policies) ==
    [entity |-> entity, policies |-> policies, events |-> 0, scans |-> 1, at |-> Nobody, spots |-> [h \in Holder |-> {}],
     written |-> {}, sealed |-> [p \in DOMAIN entity |-> 0]]

W(name) == <<"ws", name>>
WW(dir, name) == <<"ws", dir, name>>

\* Two projects of one name for one canonical root, whose place may be taken.
Projects ==
    [Machine((W("app") :> Project) @@ (W("old") :> Dir) @@ (WW("old", "app") :> Primary)
                @@ (<<"src", "app">> :> Absent),
             {[Default EXCEPT !.roots = <<Root(<<"ws">>, 2), Root(<<"src">>, 1)>>,
                              !.canonical = {[class |-> "primary_project", path |-> c]}]
                : c \in {<<"src">>, WW("old", "app")}})
        EXCEPT !.written = {<<"src", "app">>}, !.events = 1, !.scans = 2]

\* The place a project belongs in is taken.
Taken ==
    Machine((W("app") :> Project) @@ (<<"src", "app">> :> Dir),
            {[Default EXCEPT !.roots = <<Root(<<"ws">>, 1), Root(<<"src">>, 1)>>,
                             !.canonical = {[class |-> "primary_project", path |-> <<"src">>]}]})

\* Rules that disagree, on every side of their bounds.
Caches ==
    {Machine((W("blob") :> [Dir EXCEPT !.size = size, !.age = age, !.deep = deep, !.lowerBound = low])
                @@ (W("build") :> Dir) @@ (W("cache") :> Dir),
             {[Default EXCEPT !.caches = rules] : rules \in {
                {Rule(W("blob"), "quarantine", 1, 0, 1), Rule(<<"ws">>, "keep", 0, 9, 2)},
                {Rule(W("blob"), "delete_candidate", 1, 4, 1), Rule(W("blob"), "quarantine", 0, 0, 2)}}})
        : size \in {1, 2}, age \in {-1, 3, 5}, deep \in BOOLEAN, low \in BOOLEAN}

\* Names, files, links and stores that are kept, and protected paths around them.
Names ==
    Machine((W("a") :> Dir) @@ (WW("a", "logs") :> Dir) @@ (WW("a", "ops") :> Dir) @@ (WW("a", "bak") :> Dir)
                @@ (W("b") :> Dir) @@ (WW("b", "id_rsa") :> File) @@ (WW("b", "db") :> [File EXCEPT !.database = TRUE])
                @@ (WW("b", "far") :> LinkTo(<<"etc">>))
                @@ (W("build") :> [Dir EXCEPT !.foreign = TRUE]) @@ (WW("build", "x") :> Dir)
                @@ (WW("build", "near") :> LinkTo(W("a"))),
            {Default, [Default EXCEPT !.protect = {WW("build", "x")}],
             [Default EXCEPT !.target = "other", !.copies = TRUE, !.caches = {Rule(<<"ws">>, "quarantine", 0, 0, 1)}],
             [Default EXCEPT !.caches = {Rule(<<"ws">>, "quarantine", 0, 0, 1)}, !.foreign = FALSE],
             [Default EXCEPT !.canonical = {[class |-> "generated_artifact", path |-> WW("build", "x")]},
                             !.foreign = FALSE]})

StoresAndTrees ==
    Machine((W("npm") :> Dir) @@ (WW("npm", "_cacache") :> Dir)
                @@ (W("repos") :> Dir) @@ (WW("repos", "p") :> Project) @@ (WW("repos", "p") \o <<".uv-cache">> :> Dir)
                @@ (WW("repos", "p") \o <<"dist">> :> Dir) @@ (W("hub") :> Dir) @@ (WW("hub", "x") :> Worktree)
                @@ (WW("hub", "wt") :> Dir),
            {[Default EXCEPT !.roots = <<Root(<<"ws">>, 3)>>, !.home = home] : home \in {{}, {W("hub")}}})

\* A directory longer than the bound on listings.
Crowded ==
    Machine((W("build") :> Dir) @@ (W("cache") :> Dir) @@ (W("wt") :> Worktree) @@ (W("dist") :> Dir), {Default})

\* One root inside another, of which one only reports.
Inner(p, d) == [Root(p, d) EXCEPT !.reportOnly = TRUE]
ReportedTree(below) ==
    [Machine((W("rep") :> Dir) @@ (WW("rep", "tree") :> Worktree) @@ (WW("rep", "tree") \o <<"wt">> :> Worktree),
             {[Default EXCEPT !.roots = r] : r \in
                IF below THEN {<<Root(<<"ws">>, 3), Inner(W("rep"), 1)>>}
                ELSE {<<Inner(<<"ws">>, 2), Root(W("rep"), 2)>>, <<Root(W("rep"), 2), Inner(<<"ws">>, 2)>>,
                      <<Root(<<"ws">>, 2), Inner(W("rep"), 2)>>}})
        EXCEPT !.written = {WW("rep", "tree")}, !.events = 2, !.scans = 2]

\* A tree sealed in an archive, under a root that only archives may empty, and a worktree
\* there that only the outer root reaches.
Sealed ==
    [Machine((W("tank") :> Dir) @@ (WW("tank", "old") :> Dir) @@ (W("tank") \o <<"hub", "x">> :> Worktree)
                @@ (WW("tank", "hub") :> Dir),
             {[Default EXCEPT !.roots = <<Root(<<"ws">>, 3), [Root(W("tank"), 1) EXCEPT !.archiveOnly = TRUE]>>,
                              !.released = {Released(WW("tank", "old"), expiry, category)}]
                : expiry \in BOOLEAN, category \in BOOLEAN})
        EXCEPT !.written = {WW("tank", "old")}, !.sealed = [@ EXCEPT ![WW("tank", "old")] = 1],
               !.events = 2, !.scans = 2]

\* Holders of every kind, around a tree that would be quarantined.
Held ==
    [Machine((W("build") :> Worktree) @@ (WW("build", "x") :> Dir), {Default})
        EXCEPT !.spots = [h \in Holder |-> {Nowhere} \cup
                    IF Uses[h] = "job" THEN {W("build")} ELSE IF Uses[h] = "stagehand" THEN {<<"ws">>}
                    ELSE {WW("build", "x")}],
               !.written = {W("build")}, !.events = 3]

\* A cache with an owner whose work is elsewhere, and another filesystem below a root.
Owned ==
    [Machine((W("build") :> [Dir EXCEPT !.mount = TRUE]) @@ (WW("build", "x") :> Worktree) @@ (W("cache") :> Dir),
             {[Default EXCEPT !.roots = <<[Root(<<"ws">>, 2) EXCEPT !.cross = cross]>>, !.recovery = {W("cache")}]
                : cross \in BOOLEAN})
        EXCEPT !.spots = [h \in Holder |-> IF Uses[h] = "job" THEN {Nowhere, WW("hub", "x")} ELSE {}],
               !.events = 2]

Machines ==
    Caches \cup {Projects, Taken, Names, StoresAndTrees, Crowded, ReportedTree(FALSE), Sealed, Held, Owned}
Reporting == {ReportedTree(TRUE)}

=============================================================================
