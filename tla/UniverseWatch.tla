----------------------------- MODULE UniverseWatch -----------------------------
(***************************************************************************)
(* How a running maker follows the match trees (universe.py, __main__.py,  *)
(* tree_builder.write_tree): a builder per sport replaces its file, the    *)
(* heartbeat compares the files' times with the ones it committed, loads   *)
(* the trees, admits the nearest games, and hands the universe to the      *)
(* quote driver and its instruments to the feeds.                          *)
(*                                                                         *)
(* A game stands for its markets and their instruments; a rebuilt tree     *)
(* that gives a game another instrument lists another game.  The time of a *)
(* file is the number of its version.                                      *)
(***************************************************************************)
EXTENDS Integers, FiniteSets, FiniteSetsExt

CONSTANTS
    Fixtures,     \* the games the trees may list: [sport, kick, id]
    MaxBuilds,    \* bound: the times the files are written
    MaxEnded,     \* bound: the games that end
    MaxGames,     \* max_games
    PerSport,     \* max_games_per_sport, one number for every sport
    TreeSlips     \* what a run lets happen: "unreadable", "between"

VARIABLES
    file,        \* sport |-> the version of its tree on disk and its games
    locked,      \* the sports whose file cannot be read or parsed now
    watch,       \* where the process is
    mtimes,      \* the times committed
    statted,     \* the times this heartbeat read
    trees,       \* sport |-> the tree the process holds
    universe,    \* the games it quotes
    subscribed,  \* the games its sockets carry
    resting,     \* the games with an order or a shadow quote
    ended,       \* the games beyond their horizon
    unread       \* history: the sports whose committed version was not read

watchVars == <<file, locked, watch, mtimes, statted, trees, universe, subscribed, resting,
               ended, unread>>
-----------------------------------------------------------------------------
Sports == {g.sport : g \in Fixtures}
GamesOf(s) == {g \in Fixtures : g.sport = s}
NoTree == [at |-> 0, games |-> {}]

TypeOK ==
    /\ file \in [Sports -> [at : 0..MaxBuilds, games : SUBSET Fixtures]]
    /\ locked \subseteq Sports
    /\ watch \in {"off", "loaded", "looping", "statted"}
    /\ mtimes \in [Sports -> 0..MaxBuilds] /\ statted \in [Sports -> 0..MaxBuilds]
    /\ trees \in [Sports -> [at : 0..MaxBuilds, games : SUBSET Fixtures]]
    /\ universe \subseteq Fixtures /\ subscribed \subseteq Fixtures
    /\ resting \subseteq Fixtures /\ ended \subseteq Fixtures /\ unread \subseteq Sports

Times == [s \in Sports |-> file[s].at]
Unknown == [s \in Sports |-> 0]

Init ==
    /\ file = [s \in Sports |-> NoTree] /\ locked = {}
    /\ watch = "off" /\ mtimes = Unknown /\ statted = Unknown
    /\ trees = [s \in Sports |-> NoTree]
    /\ universe = {} /\ subscribed = {} /\ resting = {} /\ ended = {} /\ unread = {}
-----------------------------------------------------------------------------
\* load_trees: a file that cannot be read leaves what was held of its sport; one
\* that is absent is no tree.
LoadTrees(held) == [s \in Sports |-> IF s \in locked /\ file[s].at # 0 THEN held[s] ELSE file[s]]

NotRead == {s \in locked : file[s].at # 0}

\* select_games: the nearest of each sport, and of those the nearest of all.
Nearest(S) ==
    LET first == {g \in S : Cardinality({h \in S : h.sport = g.sport /\ h.kick < g.kick}) < PerSport}
    IN  {g \in first : Cardinality({h \in first : h.kick < g.kick}) < MaxGames}

\* build_universe
BuildUniverse(t) == Nearest((UNION {t[s].games : s \in Sports}) \ ended)

\* driver.set_universe: what rests for a game that is gone is cancelled.
SetUniverse(u) == universe' = u /\ resting' = resting \cap u
-----------------------------------------------------------------------------
\* write_tree: one replacement of the file, whatever the discovery found.
WriteTree(s) ==
    /\ MapThenSumSet(LAMBDA t : file[t].at, Sports) < MaxBuilds
    /\ "between" \in TreeSlips \/ watch # "loaded"
    /\ \E G \in SUBSET GamesOf(s) : file' = [file EXCEPT ![s] = [at |-> @.at + 1, games |-> G]]
    /\ locked' = locked \ {s}
    /\ UNCHANGED <<watch, mtimes, statted, trees, universe, subscribed, resting, ended, unread>>

\* Another program holds the file, or it is damaged; and it is whole again.
Lock(s) ==
    /\ "unreadable" \in TreeSlips /\ file[s].at # 0
    /\ locked' = IF s \in locked THEN locked \ {s} ELSE locked \cup {s}
    /\ UNCHANGED <<file, watch, mtimes, statted, trees, universe, subscribed, resting, ended, unread>>

\* The start loads the trees, and spawns the feeds.
Start ==
    /\ watch = "off" /\ watch' = "loaded"
    /\ trees' = LoadTrees([s \in Sports |-> NoTree]) /\ unread' = NotRead
    /\ universe' = BuildUniverse(trees') /\ subscribed' = universe'
    /\ UNCHANGED <<file, locked, mtimes, statted, resting, ended>>

\* The files' times are read after that.
Commit ==
    /\ watch = "loaded" /\ watch' = "looping"
    /\ mtimes' = Times
    /\ UNCHANGED <<file, locked, statted, trees, universe, subscribed, resting, ended, unread>>

\* A heartbeat finds other times than the committed ones.
Changed ==
    /\ watch = "looping" /\ Times # mtimes
    /\ watch' = "statted" /\ statted' = Times
    /\ UNCHANGED <<file, locked, mtimes, trees, universe, subscribed, resting, ended, unread>>

\* A rebuild that leaves nothing of a universe is not adopted, and is tried again.
Refuses(u) == u = {} /\ universe # {}

\* It loads, builds and adopts; the sockets are respawned for other instruments.
Reload ==
    /\ watch = "statted" /\ watch' = "looping"
    /\ LET t == LoadTrees(trees)
           u == BuildUniverse(t)
       IN  IF Refuses(u)
           THEN UNCHANGED <<mtimes, trees, universe, subscribed, resting, unread>>
           ELSE /\ mtimes' = statted /\ trees' = t /\ unread' = NotRead
                /\ SetUniverse(u) /\ subscribed' = u
    /\ statted' = Unknown
    /\ UNCHANGED <<file, locked, ended>>

\* The rebuild raises: the universe stays, and it is tried again.
ReloadFails ==
    /\ watch = "statted" /\ watch' = "looping" /\ statted' = Unknown
    /\ UNCHANGED <<file, locked, mtimes, trees, universe, subscribed, resting, ended, unread>>

\* A pass of the quotes.
Quote(g) ==
    /\ watch = "looping" /\ g \in universe \ (resting \cup ended)
    /\ resting' = resting \cup {g}
    /\ UNCHANGED <<file, locked, watch, mtimes, statted, trees, universe, subscribed, ended, unread>>

\* A game is over.
Ends(g) ==
    /\ g \notin ended /\ Cardinality(ended) < MaxEnded
    /\ ended' = ended \cup {g} /\ resting' = resting \ {g}
    /\ UNCHANGED <<file, locked, watch, mtimes, statted, trees, universe, subscribed, unread>>

\* The process ends, and its orders with it; the next knows nothing.
Exit ==
    /\ watch # "off" /\ watch' = "off" /\ mtimes' = Unknown /\ statted' = Unknown
    /\ trees' = [s \in Sports |-> NoTree] /\ unread' = {}
    /\ universe' = {} /\ subscribed' = {} /\ resting' = {}
    /\ UNCHANGED <<file, locked, ended>>

Next ==
    \/ \E s \in Sports : WriteTree(s) \/ Lock(s)
    \/ Start \/ Commit \/ Changed \/ Reload \/ ReloadFails \/ Exit
    \/ \E g \in Fixtures : Quote(g) \/ Ends(g)

Spec == Init /\ [][Next]_watchVars
-----------------------------------------------------------------------------
\* What rests is of the universe, the universe is of the trees, and the sockets
\* carry it.
FeedsFollow ==
    /\ resting \subseteq universe /\ subscribed = universe
    /\ universe \subseteq UNION {trees[s].games : s \in Sports}

\* Of every sport the process holds a version no older than the one it committed,
\* unless that one could not be read.
Fresh ==
    watch \in {"looping", "statted"} =>
        \A s \in Sports \ unread : trees[s].at >= mtimes[s]

\* A game is left out only for nearer ones: of its sport, or of all.
NearestFirst ==
    \A s \in Sports : \A h \in trees[s].games \ (universe \cup ended) :
        LET nearer == {g \in universe : g.kick < h.kick}
        IN  \/ Cardinality({g \in nearer : g.sport = s}) >= PerSport
            \/ Cardinality(nearer) >= MaxGames

\* The maker quotes and hears the nearest games of the trees it last committed,
\* and nothing rests for a game that left them.
WatchKept == FeedsFollow /\ Fresh /\ NearestFirst
=============================================================================
