----------------------------- MODULE ConfigLoad ------------------------------
(***************************************************************************)
(* loadConfig() of common/config/load-config.js, with the passes of        *)
(* utils/load-structured-config.js, load-dependencies.js, load-git-org-    *)
(* config.js and merge-projects-and-organizations.js.                      *)
(*                                                                         *)
(* One configuration object is filled by several layers and re-read: the   *)
(* function calls itself (reloadConfig) up to five times, on the same      *)
(* object and with the same configMeta, so that values that were defaults  *)
(* are computed again once their sources have changed.  Each call goes     *)
(* through the same steps; stack holds the calls in progress.              *)
(*                                                                         *)
(* A value is abstracted to the layer it comes from; a computed one also   *)
(* to the values it was computed from, so that a stale one shows.          *)
(***************************************************************************)
EXTENDS ConfigTable, PipelinePod, SequencesExt

CONSTANTS
  Scenarios,  \* the values that may be given together: sets of <<layer, key>>
  MaxDepth    \* calls in progress the model tells apart

\* A call and the one it makes are told apart.
ASSUME DepthType == MaxDepth \in Nat /\ MaxDepth >= 2

\* Where a user or an operator gives a value: the inline configurations of a
\* caller, ~/.kontinuous, the workspace, projects.<projectName>, the process,
\* --inline-config and --config-set, the git organization and the "config:"
\* of a dependency.
Layer == {"remote", "home", "workspace", "project", "env", "option",
          "inline", "set", "org", "extends"}

Table == RootTable \o MainTable
RootKey == {RootTable[i].key : i \in DOMAIN RootTable}
TableKey == {Table[i].key : i \in DOMAIN Table}
\* Keys without a row: read by the code, never defaulted.
PlainKey == {"webhook", "dependencies"}
Key == TableKey \union PlainKey
PlaceOf == [k \in TableKey |-> CHOOSE i \in DOMAIN Table : Table[i].key = k]
RowOf == [k \in TableKey |-> Table[PlaceOf[k]]]

VARIABLES
  given,      \* <<layer, key>>: the values given, fixed from the start
  org,        \* whether the organization has a repository that can be read
  cfg,        \* the configuration object
  isDefault,  \* configMeta[key].isDefault
  known,      \* the keys of configMeta
  loaded,     \* the dependencies are downloaded and their files merged
  stack,      \* the calls of loadConfig, the innermost last
  status      \* of the outermost call

vars == <<given, org, cfg, isDefault, known, loaded, stack, status>>
scenario == <<given, org>>

Nothing == [by |-> "nothing", from |-> <<>>]
Given(l) == [by |-> l, from |-> <<>>]

Gives(l, k) == <<l, k>> \in given

\* The keys of layer l take its value.
Merge(l, c) == [k \in Key |-> IF Gives(l, k) THEN Given(l) ELSE c[k]]

\* lodash.defaultsdeep: only what is undefined.
FillIn(l, c) ==
  [k \in Key |-> IF Gives(l, k) /\ c[k] = Nothing THEN Given(l) ELSE c[k]]

LookedUp(r, otherwise) ==
  IF "option" \in r.in /\ Gives("option", r.key) THEN Given("option")
  ELSE IF "env" \in r.in /\ Gives("env", r.key) THEN Given("env") ELSE otherwise

\* What the default, or the default function, of row r returns.
Fallback(r, c) ==
  LET computed == [by |-> "fallback", from |-> [s \in r.reads |-> c[s]]] IN
  IF \E s \in r.needs : c[s] = Nothing THEN Nothing
  ELSE IF r.by = "asking" THEN LookedUp(r, computed) ELSE computed

\* Faulty variants of the definitions below, each a slip this code could
\* contain: the places are looked up for what is undefined only; a default is
\* not computed again; the environment is read again after the files.
FoundIfUndefined(k, c) ==
  IF RowOf[k].by = "asking" \/ c[k] # Nothing THEN c[k]
  ELSE LookedUp(RowOf[k], Nothing)
DefaultedOnce(k, c) ==
  RowOf[k].by \in {"value", "function", "asking"} /\ c[k] = Nothing
     /\ (RowOf[k].by = "asking" \/ LookedUp(RowOf[k], Nothing) = Nothing)
EnvironmentAgain(c) ==
  LET files == IF c["projectName"] = Nothing THEN c ELSE Merge("project", c) IN
  [k \in Key |->
     IF k \in TableKey THEN LookedUp(RowOf[k], files[k]) ELSE files[k]]

\* What the places of k say before its default is considered.
Found(k, c) == IF RowOf[k].by = "asking" THEN c[k] ELSE LookedUp(RowOf[k], c[k])

\* The default applies to what is undefined, and again to what it gave.
Defaulted(k, c) ==
  /\ RowOf[k].by \in {"value", "function", "asking"}
  /\ Found(k, c) = Nothing \/ (isDefault[k] /\ ~RowOf[k].keep)

\* A transform of something undefined gives a value as a default does.
FallsBack(k, c) ==
  Defaulted(k, c) \/ (RowOf[k].by = "shape" /\ Found(k, c) = Nothing)

\* A key after a pass over keys: a fallback reads the keys above its own as
\* this pass leaves them, the others as they were.
After(k, keys, c, pass) ==
  IF k \notin keys THEN c[k]
  ELSE IF FallsBack(k, c)
    THEN Fallback(RowOf[k],
           [s \in RowOf[k].reads |->
              IF s \in keys /\ PlaceOf[s] < PlaceOf[k] THEN pass[s] ELSE c[s]])
    ELSE Found(k, c)

\* A pass over the keys of one table, in its order.
Override(keys, c) ==
  LET pass[k \in Key] == After(k, keys, c, pass) IN [k \in Key |-> pass[k]]

Marked(keys, c) ==
  [k \in Key |-> isDefault[k] \/ (k \in keys /\ Defaulted(k, c))]

-----------------------------------------------------------------------------
Init ==
  /\ given \in Scenarios
  /\ org \in {"absent", "present"}
  /\ cfg = [k \in Key |-> Nothing]
  /\ isDefault = [k \in Key |-> FALSE]
  /\ known = {}
  /\ loaded = FALSE
  /\ stack = << [reloading |-> FALSE, at |-> "root"] >>
  /\ status = "loading"

Top == Last(stack)
At(step) == status = "loading" /\ Top.at = step
Frames(step) == [stack EXCEPT ![Len(stack)].at = step]
Go(step) == stack' = Frames(step) /\ UNCHANGED status

\* Call loadConfig again, and go on at step when it returns.  A call more
\* than MaxDepth deep forgets the outermost one.
Reload(step) ==
  LET deeper == Append(Frames(step), [reloading |-> TRUE, at |-> "root"]) IN
  /\ stack' = IF Len(stack) < MaxDepth THEN deeper ELSE Tail(deeper)
  /\ UNCHANGED status

Fail == status' = "failed" /\ UNCHANGED stack

\* The caller's inline configurations, then the keys the others depend on.
RootPass ==
  /\ At("root")
  /\ cfg' = Override(RootKey, Merge("remote", cfg))
  /\ isDefault' = Marked(RootKey, Merge("remote", cfg))
  /\ known' = known \union RootKey
  /\ Go("main")
  /\ UNCHANGED <<scenario, loaded>>

\* projects[projectName], once the name is known.  The organizations and the
\* repositories of that file give the same keys in the same place (merge-projects-
\* and-organizations.js:7-16); the project stands for them.
WithProject(c) == IF c["projectName"] = Nothing THEN c ELSE Merge("project", c)

\* The two configuration files, the project, then the other keys.
MainPass ==
  /\ At("main")
  /\ LET files == WithProject(Merge("workspace", Merge("home", cfg))) IN
     /\ cfg' = Override(TableKey \ RootKey, files)
     /\ isDefault' = Marked(TableKey \ RootKey, files)
  /\ known' = known \union TableKey
  /\ Go("inline")
  /\ UNCHANGED <<scenario, loaded>>

InlineKeys == {k \in Key : Gives("inline", k) \/ Gives("set", k)}

\* --inline-config, then --config-set; their keys are marked as defaults.
InlinePass ==
  /\ At("inline")
  /\ cfg' = Merge("set", Merge("inline", cfg))
  /\ isDefault' = [k \in Key |-> isDefault[k] \/ k \in InlineKeys]
  /\ known' = known \union InlineKeys
  /\ IF ~Top.reloading /\ InlineKeys # {} THEN Reload("again") ELSE Go("again")
  /\ UNCHANGED <<scenario, loaded>>

ReloadOnce ==
  /\ At("again")
  /\ IF Top.reloading THEN Go("org") ELSE Reload("org")
  /\ UNCHANGED <<scenario, cfg, isDefault, known, loaded>>

\* Faulty variant: the dependencies are loaded in every call.
AlwaysLoads == TRUE

\* configMeta.__reloadDependencies
LoadsDependencies == ~Top.reloading \/ "dependencies" \in InlineKeys

SkipDependencies ==
  /\ At("org") /\ ~LoadsDependencies
  /\ Go("extends")
  /\ UNCHANGED <<scenario, cfg, isDefault, known, loaded>>

\* The organization's configuration fills in what is undefined.
GitOrg ==
  /\ At("org") /\ LoadsDependencies
  /\ \/ org = "present" /\ cfg' = FillIn("org", cfg) /\ Reload("download")
     \/ /\ org = "absent" /\ UNCHANGED cfg
        /\ IF cfg["gitOrgRequired"] = Nothing THEN Go("download") ELSE Fail
  /\ UNCHANGED <<scenario, isDefault, known, loaded>>

Download ==
  /\ At("download")
  /\ \/ loaded' = TRUE /\ Go("extends")
     \/ loaded' = loaded /\ Fail
  /\ UNCHANGED <<scenario, cfg, isDefault, known>>

\* The "config:" of a dependency replaces what is undefined or marked as a
\* default, objects being values like others here (load-config.js:1040-1041 fills
\* them in); a key that configMeta does not know throws.
Extended == IF loaded THEN {k \in Key : Gives("extends", k)} ELSE {}
Replaced == {k \in Extended : cfg[k] = Nothing \/ isDefault[k]}

ExtendConfig ==
  /\ At("extends")
  /\ IF Extended \subseteq known
       THEN /\ cfg' = [k \in Key |->
                         IF k \in Replaced THEN Given("extends") ELSE cfg[k]]
            /\ isDefault' = [k \in Key |-> isDefault[k] /\ k \notin Replaced]
            /\ IF Extended # {} /\ ~Top.reloading
                 THEN Reload("return") ELSE Go("return")
       ELSE UNCHANGED <<cfg, isDefault>> /\ Fail
  /\ UNCHANGED <<scenario, known, loaded>>

\* deployWith plugins are enabled after deployWithPlugin, and the call ends.
Return ==
  /\ At("return")
  /\ IF Len(stack) > 1
       THEN stack' = Front(stack) /\ UNCHANGED status
       ELSE status' = "loaded" /\ UNCHANGED stack
  /\ UNCHANGED <<scenario, cfg, isDefault, known, loaded>>

Next ==
  \/ RootPass \/ MainPass \/ InlinePass \/ ReloadOnce \/ SkipDependencies
  \/ GitOrg \/ Download \/ ExtendConfig \/ Return

Spec == Init /\ [][Next]_vars /\ WF_vars(Next)

-----------------------------------------------------------------------------
HasFallback(k) == k \in TableKey /\ RowOf[k].by \notin {"none", "shape"}

\* The layers merged after the pass that computes k and its readers.
Afterwards(k) ==
  {"inline", "set"} \union
  (IF k \in RootKey THEN {"home", "workspace", "project"} ELSE {})

\* The last call had given k another value before that layer was merged.
Late(k) ==
  \/ /\ cfg[k].by \in Afterwards(k)
     /\ HasFallback(k) \/ \E l \in Layer \ {cfg[k].by} : Gives(l, k)
  \/ cfg[k].by = "extends" /\ k \in InlineKeys
  \/ Gives("remote", k) /\ cfg[k].by # "remote"
  \/ /\ cfg[k].by = "project"
     /\ ~\E l \in {"remote", "home", "workspace"} : Gives(l, "projectName")

\* A computed value agrees with the final values it was computed from: the
\* reloads reach every reader of a value that arrived late.  The exception is
\* a value merged after its readers in each of the passes.
DerivedFollowsItsSources ==
  status = "loaded" =>
    \A k \in TableKey :
      /\ isDefault[k] /\ cfg[k].by \in {"fallback", "nothing"}
      /\ HasFallback(k) /\ ~RowOf[k].keep
      /\ \A s \in RowOf[k].reads : ~Late(s)
      => cfg[k] = Fallback(RowOf[k], cfg)

\* What a user gives on the command line or in the environment is what the
\* program uses, whatever the files, the organization and the dependencies
\* say - for the keys of the second table.
UserHasTheLastWord ==
  status = "loaded" =>
    \A k \in TableKey \ RootKey :
      /\ k \notin InlineKeys
      /\ LookedUp(RowOf[k], Nothing) # Nothing
      => cfg[k] = LookedUp(RowOf[k], Nothing)

\* The pod of a deployment handed to the webhook posts its status where the
\* client looks for it, under the repository, the branch and the commit of the
\* client's configuration, though its environment names the hash and a commit
\* of zeros: the file is merged after those variables were looked up
\* (load-config.js:908-937, deploy-on-webhook.js:52-74, pipeline.job.js:179-205).
PodReportsToItsClient ==
  /\ status = "loaded"
  /\ \E f \in SUBSET Feature : given = CustomPodGives(f)
  => \A k \in {"gitRepositoryUrl", "gitBranch", "gitSha"} :
       cfg["statusUrl"].from[k] = Given("workspace")

\* An organization's configuration, and dependencies given on the command
\* line: each call makes another before it loads them.
Endless == org = "present" /\ "dependencies" \in InlineKeys

\* Loading ends, except with that combination: then it goes on for ever, as long
\* as the organization's repository answers (load-config.js:939-981, 1011-1020).
LoadEnds == <>[](status = "loading" <=> Endless)

=============================================================================
