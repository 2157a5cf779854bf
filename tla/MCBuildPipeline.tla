--------------------------- MODULE MCBuildPipeline ---------------------------
(***************************************************************************)
(* A project that imports the plugin fabrique, which imports contrib.  Its *)
(* values have an app, a second one (api), a database and jobs.            *)
(***************************************************************************)
EXTENDS BuildPipeline, TLC

ASSUME PlainJobs

F == <<"project", "fabrique">>
C == F \o <<"contrib">>

MCCharts ==
  <<"project">> :> "unset" @@ F :> "unset" @@ C :> "unset"
  @@ C \o <<"contrib-helpers">> :> "yes" @@ C \o <<"rancher-namespace">> :> "no"
  @@ C \o <<"app">> :> "no" @@ C \o <<"job">> :> "no" @@ C \o <<"jobs">> :> "no" @@ F \o <<"pg">> :> "no"

MCOrder ==
  <<<<"project">>, F, C, C \o <<"app">>, C \o <<"contrib-helpers">>,
    C \o <<"job">>, C \o <<"jobs">>, C \o <<"rancher-namespace">>, F \o <<"pg">> >>

MCGlobal == {C \o <<"rancher-namespace">>}

MCKinds ==
  [app |-> {"Deployment", "Service"}, pg |-> {"Cluster", "NetworkPolicy"}]
  @@ "rancher-namespace" :> {"Namespace", "Config"}

MCDependencies == {F, C}
MCCustomWaitableKinds == {"Cluster"}

Run(use, needs) == [use |-> use, needs |-> needs, stage |-> <<>>]
MCUses ==
  F :> [image |-> [checkout |-> Run("", {}), build |-> Run("", {<<"checkout">>})]]
  @@ C :> [image |-> [kaniko |-> Run("", {})], psql |-> [psql |-> Run("", {})]]

Asked ==
  [entries |-> <<>>, select |-> {}, set |-> <<>>, changed |-> {}, disabled |-> {},
   noValidate |-> FALSE, spread |-> "none"]

-----------------------------------------------------------------------------
(* Which entries are built.                                                 *)

Flags == {"unset", "yes", "no"}
OneRun == [migrate |-> Run("", {})]

Selections ==
  {[Asked EXCEPT
      !.entries = [app |-> [Blank EXCEPT !.enabled = flags[1]],
                   api |-> [Blank EXCEPT !.enabled = flags[2], !.chart = "app",
                                         !.groups = {"back"}],
                   db |-> [Blank EXCEPT !.enabled = flags[3], !.chart = "pg",
                                        !.groups = {"back"}],
                   jobs |-> [Blank EXCEPT !.enabled = flags[4], !.runs = OneRun]],
      !.select = select, !.set = set]
   : flags \in Flags \X Flags \X Flags \X Flags,
     select \in {{}, {"api"}, {"jobs"}, {"back"}, {"db", "ghost"}, {"pg"}},
     set \in {<<>>, [api |-> "no"], [jobs |-> "yes"]}}

-----------------------------------------------------------------------------
(* Needs, changed paths and the ways to wait.                               *)

Waits ==
  {[Asked EXCEPT
      !.entries = [app |-> [Blank EXCEPT !.needs = needs[1]],
                   api |-> [Blank EXCEPT !.chart = "app", !.needs = needs[2]],
                   db |-> [Blank EXCEPT !.chart = "pg", !.paths = {"sql"}, !.needs = db[3],
                                        !.annotate = db[1], !.rule = db[2]],
                   jobs |-> [Blank EXCEPT !.runs = [migrate |-> Run("", needs[3])]]],
      !.select = select, !.changed = changed, !.spread = spread]
   : needs \in {{}, {<<"api">>}, {<<"migrate">>, <<"jobs">>}}
                 \X {{}, {<<"db">>}, {<<"jobs">>, <<"db">>}} \X {{}, {<<"db">>}},
     db \in BOOLEAN \X {"", "cascade", "drop"} \X {{}, {<<"api">>}},
     select \in {{}, {"app", "api", "jobs"}},
     changed \in {{}, {"sql"}, {"js"}},
     spread \in {"none", "waves", "init"}}

\* Steps that are disabled.
Disabled ==
  {[w EXCEPT !.disabled = {s}] : w \in {v \in Waits : v.spread = "none" /\ v.changed = {}},
                                 s \in {"patches", "post-renderer", "validators"}}
  \union {[w EXCEPT !.noValidate = TRUE] : w \in {v \in Waits : v.changed = {"js"}}}

-----------------------------------------------------------------------------
(* Runs that use a job of a plugin.                                         *)

Used ==
  {[Asked EXCEPT
      !.entries = [jobs |-> [Blank EXCEPT !.runs =
                     [image |-> Run("image", needs[1]), again |-> Run("image", needs[2]),
                      checkout |-> Run("", {}), deploy |-> Run("", needs[3])]]],
      !.spread = spread]
   : needs \in {{}, {<<"checkout">>}} \X {{}, {<<"image">>}, {<<"checkout">>}}
                 \X {{<<"image">>}, {<<"again">>, <<"checkout">>}, {<<"again", "", "build">>}},
     spread \in {"none", "waves"}}

\* An entry that is a job itself, needed by the runs of another.
Singles ==
  {[Asked EXCEPT
      !.entries = [db |-> [Blank EXCEPT !.chart = "pg"],
                   seed |-> [Blank EXCEPT !.chart = "job", !.use = use, !.enabled = flag,
                                          !.needs = needs[1]],
                   jobs |-> [Blank EXCEPT !.runs =
                     [check |-> Run("psql", needs[2]), other |-> Run("", {})]]],
      !.select = select, !.spread = spread]
   : use \in {"", "image", "ghost"}, flag \in {"unset", "no"},
     needs \in {{}, {<<"db">>}}
                 \X {{<<"other">>}, {<<"seed">>, <<"other">>}, {<<"seed", "", "build">>}},
     select \in {{}, {"seed", "jobs"}, {"db", "seed"}},
     spread \in {"none", "waves"}}

\* Needs in a circle, of entries, of runs or of both.
Circles ==
  {[Asked EXCEPT
      !.entries = [app |-> [Blank EXCEPT !.needs = {<<"api">>}],
                   api |-> [Blank EXCEPT !.chart = "app", !.needs = needs[1]],
                   jobs |-> [Blank EXCEPT !.runs =
                     [migrate |-> Run("", {<<"seed">>}), seed |-> Run("", needs[2]),
                      image |-> Run("image", needs[3])]]],
      !.select = select, !.spread = spread]
   : needs \in {{}, {<<"app">>}, {<<"seed">>}} \X {{}, {<<"migrate">>}, {<<"app">>}}
                 \X {{}, {<<"image">>}},
     select \in {{}, {"app", "jobs"}},
     spread \in {"none", "waves", "init"}}

MCScenarios ==
  Selections \union Waits \union Disabled \union Used \union Singles \union Circles

=============================================================================
