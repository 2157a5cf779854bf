---------------------------- MODULE BuildPipeline ----------------------------
(***************************************************************************)
(* `kontinuous build` (packages/kontinuous/src/build): from the user's     *)
(* values to the manifests, through the steps of the lifecycle.  Steps go  *)
(* one after the other; what interleaves with them is the abort signal,    *)
(* that each looks at when it starts and not later.                        *)
(*                                                                         *)
(* What is asked for is fixed from the start: a scenario.  Its values are  *)
(* what the project's values files give once merged, so that they do not   *)
(* tell a file from the one for the environment.                           *)
(***************************************************************************)
EXTENDS Manifests

CONSTANT BuildScenarios

\* An entry of the values files has the fields of Blank.
IsEntry(e) ==
  /\ DOMAIN e = DOMAIN Blank /\ AreRuns(e.runs)
  /\ e.needs \subseteq Seq(STRING)

ASSUME BuildScenariosType ==
  \A a \in BuildScenarios :
    /\ IsFiniteSet(DOMAIN a.entries) /\ IsFiniteSet(a.select) /\ IsFiniteSet(DOMAIN a.set)
    /\ DOMAIN a.entries \union a.select \union DOMAIN a.set \subseteq STRING
    /\ \A k \in DOMAIN a.entries : IsEntry(a.entries[k])

Steps == <<"dependencies", "values-compilers", "helm template", "patches",
           "post-renderer", "write", "validators", "debug-manifests", "end">>

\* What is asked of a key, in the files or by an option.
KeysOf(a) == DOMAIN a.entries \union a.select \union DOMAIN a.set
EntryOf(a, k) == IF k \in DOMAIN a.entries THEN a.entries[k] ELSE Blank

\* The entries are of charts of plugins that are not disabled, have no charts of
\* their own and go by no global flag.
ASSUME LeavesType ==
  \A a \in BuildScenarios :
    /\ \A k \in DOMAIN a.set : a.set[k] \in {"yes", "no"}
    /\ \A k \in KeysOf(a) : HasChart(k, EntryOf(a, k)) =>
         LET p == Instance(k, EntryOf(a, k)) IN
         /\ Len(p) > 2 /\ p \notin Global
         /\ \A q \in Path :
              /\ ~Below(p, q)
              /\ Below(q, p) => Charts[q] # "no" /\ q \notin Global

\* Names are not empty.
ASSUME NamesType ==
  /\ \A a \in BuildScenarios : \A k \in KeysOf(a) :
       k # "" /\ \A r \in DOMAIN Runs(k, EntryOf(a, k)) : r # ""
  /\ \A job \in PluginJob : \A r \in DOMAIN RunsIn(job) : r # ""

VARIABLES
  asked,     \* [entries, select, set, changed, disabled, noValidate, spread]
  step,      \* the step that comes next
  entries,   \* the values of the project's files, by key
  tree,      \* the values of the charts, by path
  manifests, \* what is rendered so far
  defined,   \* manifests is not undefined
  written,   \* manifests.yaml: none, or its content
  aborted,   \* the abort signal was given
  outcome    \* how the build ends: running, built, failed, aborted

buildVars == <<asked, step, entries, tree, manifests, defined, written, aborted, outcome>>

hasAll == asked.select = {}

Following(s) == Steps[1 + CHOOSE i \in DOMAIN Steps : Steps[i] = s]

BuildInit ==
  /\ asked \in BuildScenarios
  /\ step = Steps[1]
  /\ entries = asked.entries
  /\ tree = ChartTree
  /\ manifests = {} /\ defined = FALSE /\ written = <<>>
  /\ aborted = FALSE /\ outcome = "running"

-----------------------------------------------------------------------------
AtStep(s) == outcome = "running" /\ step = s
\* A step of the lifecycle starts: abortSignal.throwIfAborted().
Starts(s) == AtStep(s) /\ ~aborted
GoesOn(s) == step' = Following(s) /\ outcome' = "running"
Throws == step' = step /\ outcome' = "failed"

DependenciesStep ==
  /\ Starts("dependencies")
  /\ GoesOn("dependencies")
  /\ UNCHANGED <<asked, entries, tree, manifests, defined, written, aborted>>

\* before-merge-project-values
MergeProjectValues(values) ==
  [k \in DOMAIN values |-> [values[k] EXCEPT !.project = TRUE]]

\* 05-jobs comes when the charts are in place and looks at those enabled only;
\* the others have no manifest, so that Templates can compile the runs.
CompileValues ==
  LET given == OverrideValues(
                 EnableStandalone(MergeProjectValues(entries), asked.select),
                 asked.set)
      placed == ImplicitEnabled(ResolveAliasOf(given, tree)) IN
  /\ Starts("values-compilers")
  /\ IF Unknown(placed) # {}
       THEN Throws /\ UNCHANGED <<entries, tree>>
       ELSE /\ GoesOn("values-compilers")
            /\ entries' = Remaining(given) /\ tree' = RemoveNotEnabled(placed)
  /\ UNCHANGED <<asked, manifests, defined, written, aborted>>

\* What fetches the dependencies fails, or helm, or the loading of what it gave.
ToolFails ==
  /\ \E s \in {"dependencies", "helm template"} : Starts(s)
  /\ Throws
  /\ UNCHANGED <<asked, entries, tree, manifests, defined, written, aborted>>

HelmTemplate ==
  /\ Starts("helm template")
  /\ manifests' = Template(tree, hasAll) /\ defined' = TRUE
  /\ GoesOn("helm template")
  /\ UNCHANGED <<asked, entries, tree, written, aborted>>

\* The patches that are disabled give nothing back.  With sync waves or init
\* containers a need is looked up before the validators know of it; the search
\* for waves exhausts the stack when needs go in a circle, and an init container
\* asked of what has no pods is a TypeError.
ApplyPatches ==
  LET labelled == ValuesPatches(manifests, tree)
      left == OnChanged(labelled, asked.changed)
      spread == IF asked.spread = "waves" THEN SyncWaves(left) ELSE left IN
  /\ Starts("patches")
  /\ IF "patches" \in asked.disabled
       THEN manifests' = {} /\ defined' = FALSE /\ GoesOn("patches")
     ELSE IF \/ \E m \in labelled : BadRule(m, asked.changed)
             \/ asked.spread # "none" /\ Unmet(left) # {}
             \/ asked.spread = "waves" /\ Circular(left)
             \/ asked.spread = "init" /\ NoPods(left) # {}
       THEN Throws /\ UNCHANGED <<manifests, defined>>
     ELSE manifests' = WithoutKapp(spread) /\ GoesOn("patches") /\ UNCHANGED defined
  /\ UNCHANGED <<asked, entries, tree, written, aborted>>

\* No post-renderer in the project: the manifests as they are.
PostRenderer ==
  /\ Starts("post-renderer")
  /\ IF "post-renderer" \in asked.disabled
       THEN manifests' = {} /\ defined' = FALSE
       ELSE UNCHANGED <<manifests, defined>>
  /\ GoesOn("post-renderer")
  /\ UNCHANGED <<asked, entries, tree, written, aborted>>

\* dumpAll goes through an array: undefined is an error.
WriteManifests ==
  /\ AtStep("write")
  /\ IF defined THEN written' = <<manifests>> /\ GoesOn("write")
                ELSE Throws /\ UNCHANGED written
  /\ UNCHANGED <<asked, entries, tree, manifests, defined, aborted>>

Validators ==
  /\ Starts("validators")
  /\ IF /\ ~asked.noValidate /\ "validators" \notin asked.disabled
        /\ Unmet(manifests) # {} \/ Duplicates(manifests) # {}
       THEN Throws ELSE GoesOn("validators")
  /\ UNCHANGED <<asked, entries, tree, manifests, defined, written, aborted>>

DebugManifests ==
  /\ Starts("debug-manifests")
  /\ step' = "end" /\ outcome' = "built"
  /\ UNCHANGED <<asked, entries, tree, manifests, defined, written, aborted>>

\* The signal handler of the command (common/utils/ctx-abort).
Abort ==
  /\ outcome = "running" /\ ~aborted
  /\ aborted' = TRUE
  /\ UNCHANGED <<asked, step, entries, tree, manifests, defined, written, outcome>>

ThrowIfAborted ==
  /\ outcome = "running" /\ aborted /\ step # "write"
  /\ outcome' = "aborted"
  /\ UNCHANGED <<asked, step, entries, tree, manifests, defined, written, aborted>>

Ended == outcome # "running" /\ UNCHANGED buildVars

BuildNext ==
  \/ DependenciesStep \/ CompileValues \/ ToolFails \/ HelmTemplate
  \/ ApplyPatches \/ PostRenderer \/ WriteManifests \/ Validators \/ DebugManifests
  \/ Abort \/ ThrowIfAborted \/ Ended

BuildSpec == BuildInit /\ [][BuildNext]_buildVars

-----------------------------------------------------------------------------
(* What is asked for, said without the steps.                               *)

Keys == KeysOf(asked)
Entry(k) == EntryOf(asked, k)
RunsAsked(k) == Runs(k, Entry(k))

\* --set has the last word on an entry, then --chart, then the values file.
Wanted(k) ==
  /\ HasChart(k, Entry(k))
  /\ IF k \in DOMAIN asked.set THEN asked.set[k] = "yes"
     ELSE IF ~hasAll THEN Selected(k, Entry(k), asked.select)
     ELSE Entry(k).enabled # "no"

Of(k) == {m \in manifests : m.path = Instance(k, Entry(k))}
GivesManifests(k) == RunsAsked(k) # <<>> \/ KindsOf(Searched(k, Entry(k))) # {}

\* Selection.  What helm renders of the entries of the project is what the
\* options and the files ask for together: a chart left out by --chart is out
\* with what it is made of, one asked for is there whatever its plugin, its
\* group or the entry next to it say (values-enable-standalone-charts.js,
\* values-override.js, 01-unfold-charts.js to remove-not-enabled-values.js).
SelectedIsBuilt ==
  step = "patches" =>
    \A k \in Keys : HasChart(k, Entry(k)) /\ GivesManifests(k) => (Wanted(k) <=> Of(k) # {})

\* The runs made from run r of the jobs of entry k.
MadeFrom(k, r) == {m \in Of(k) : m.kind = "Job" /\ m.name[1] = r}

UsesJob(k, r) == RunsAsked(k)[r].use # "" /\ Locations(RunsAsked(k)[r].use) # {}

\* What the plugins bring: the runs of a job use no other job, and need one
\* another, in no circle.
PlainJobs ==
  \A job \in PluginJob :
    LET runs == RunsIn(job) IN
    /\ \A r \in DOMAIN runs : runs[r].use = "" /\ runs[r].needs \subseteq {<<s>> : s \in DOMAIN runs}
    /\ \A circle \in SUBSET DOMAIN runs : circle # {} =>
         \E r \in circle : \A s \in circle : <<s>> \notin runs[r].needs

Stages ==
  (UNION {{RunsAsked(k)[r].stage : r \in DOMAIN RunsAsked(k)} : k \in Keys})
  \union (UNION {{RunsIn(job)[r].stage : r \in DOMAIN RunsIn(job)} : job \in PluginJob})

\* How a name starts that goes by the place of a chart, a kind or a stage.
Elsewhere ==
  {"Job"} \union (UNION {Kinds[chart] : chart \in DOMAIN Kinds})
  \union (UNION {{p[i] : i \in 1..(Len(p) - 1)} : p \in Path})
  \union {stage[1] : stage \in Stages \ {<<>>}}

\* Entry k needs nothing of its own; its runs need "r" or "r..b", and not the
\* whole of it.
NamesItsRuns(k) ==
  LET runs == RunsAsked(k) IN
  /\ DOMAIN runs \cap Elsewhere = {}
  /\ \A n \in UNION {runs[r].needs : r \in DOMAIN runs} :
       /\ n[1] \notin {k} \union Elsewhere
       /\ Len(n) = 1 \/ (Len(n) = 3 /\ n[2] = "")
  /\ \A n \in Entry(k).needs : n[1] \notin {k} \union DOMAIN runs \union Elsewhere

\* "k..b" is run b of the job that run k uses.
Meant(d, n) == Len(n) = 1 \/ (Len(d.name) = 2 /\ d.name[2] = n[3])

\* Runs.  A run that needs another one waits for every Job made of it and for
\* no other Job of its entry; inside a job that is used, the siblings meant are
\* those of that use, even if a run of the project has the same name
\* (05-jobs.js:290, get-needs-deps.js).
NeedsReachTheirRuns ==
  step = "validators" =>
    \A k \in {e \in DOMAIN asked.entries : Wanted(e) /\ NamesItsRuns(e)} :
      LET runs == RunsAsked(k) IN
      \A r \in DOMAIN runs : \A m \in MadeFrom(k, r) :
        LET outer == UNION {{d \in MadeFrom(k, n[1]) : Meant(d, n)} : n \in runs[r].needs}
            inner == IF runs[r].use = "" THEN {}
                     ELSE {d \in MadeFrom(k, r) :
                             \E n \in RunsOf(runs[r].use)[m.name[2]].needs :
                               d.name[2] = n[1]} IN
        NeedsOf(m, manifests) \cap Of(k) = outer \union inner

\* What can be waited for of entry k, besides its runs.
WaitableOf(k) ==
  KindsOf(Searched(k, Entry(k)))
    \cap ({"Deployment", "StatefulSet", "Job"} \union CustomWaitableKinds)

\* Nothing that entry k depends on has changed.
LeftAlone(k) ==
  Entry(k).paths # {} /\ asked.changed # {} /\ Entry(k).paths \cap asked.changed = {}

\* What goes by the name n is built: an entry that can be waited for, a run, or
\* run b of a job that is used, "r.b" or "r..b".
Answered(n) ==
  \E k \in Keys :
    /\ Wanted(k) /\ (~LeftAlone(k) \/ Entry(k).annotate)
    /\ \/ n = <<k>> /\ (WaitableOf(k) \ {"Config"} # {} \/ RunsAsked(k) # <<>>)
       \/ \E r \in DOMAIN RunsAsked(k) :
            \/ n = <<r>>
            \/ /\ UsesJob(k, r)
               /\ \E b \in DOMAIN RunsOf(RunsAsked(k)[r].use) : n \in {<<r, b>>, <<r, "", b>>}

\* The entries that can wait and the runs, with what each needs.
Asker ==
  UNION {{<<k>> : kind \in WaitableOf(k)} \union {<<k, r>> : r \in DOMAIN RunsAsked(k)}
           : k \in {e \in Keys : Wanted(e)}}

AskedBy(x) ==
  IF Len(x) = 1 \/ RunsAsked(x[1])[x[2]].needs = {} THEN Entry(x[1]).needs
  ELSE RunsAsked(x[1])[x[2]].needs

\* x needs y by the name of its entry or run, or by a name that y might have;
\* inside a used job names start with that of the run, which another entry may
\* have as well.
MayNeed(x, y) ==
  \/ \E n \in AskedBy(x) : n[1] \in {y[i] : i \in DOMAIN y} \union Elsewhere
  \/ /\ Len(x) = 2 /\ UsesJob(x[1], x[2])
     /\ \/ x[2] \in Elsewhere
        \/ x # y /\ x[2] \in {y[i] : i \in DOMAIN y}

CircleAsked ==
  \E circle \in SUBSET Asker :
    circle # {} /\ \A x \in circle : \E y \in circle : MayNeed(x, y)

\* The charts that the plugins enable themselves, those of the plugins that the
\* project imports, which go by no condition, and those of the entries.
Built ==
  {p \in Path : Charts[p] # "no" \/ p \in Global \/ Len(p) <= 2}
  \union {Instance(k, Entry(k)) : k \in {e \in Keys : Wanted(e)}}

\* What is built of entry k needs something, is waited for and has no pods.
NeedsWithoutPods(k) ==
  /\ Wanted(k) /\ (~LeftAlone(k) \/ Entry(k).annotate)
  /\ Entry(k).needs # {} /\ WaitableOf(k) \ Templated # {}

\* Refusal.  A build none of whose steps is disabled fails where a tool it calls
\* does, or for a reason the user can see in what was asked: an entry that is
\* built, or a run of it, needs what is not built, or left out as unchanged, or
\* a run its job does not have, an onChangedNeeds that is not a rule, a run that
\* uses a job of no plugin, two charts of one name, with sync waves needs in a
\* circle, with init containers the needs of what has no pods; and never
\* otherwise, whatever the kind of what is needed (builder.js:34-63, needs-
\* require.js, resources-uniqness.js, 04-on-changed.js, 05-jobs.js:118,
\* 05.1-needs-using-initcontainers.js:24-49).
FailureHasReason ==
  outcome = "failed" /\ asked.disabled = {} =>
    \/ step \in {"dependencies", "helm template"}
    \/ asked.spread = "waves" /\ CircleAsked
    \/ asked.spread = "init" /\ \E k \in Keys : NeedsWithoutPods(k)
    \/ \E p, q \in Built : p # q /\ Name(p) = Name(q)
    \/ \E x \in Asker : \E n \in AskedBy(x) : ~Answered(n)
    \/ \E k \in Keys :
         /\ Wanted(k)
         /\ \/ LeftAlone(k) /\ Entry(k).rule \notin {"", "unbind", "cascade"}
            \/ Missing(RunsAsked(k))

\* Waves.  With sync waves, what a manifest needs of another component is in
\* an earlier wave than its own (05.1-needs-using-argocd-sync-waves.js).
WavesFollowNeeds ==
  step = "validators" /\ asked.spread = "waves" =>
    \A m \in manifests : Waitable(m) =>
      \A d \in NeedsOf(m, manifests) : DepName(d) # DepName(m) => d.wave < m.wave

=============================================================================
