------------------------------ MODULE Manifests ------------------------------
(***************************************************************************)
(* Manifests and the patches and validators that go through them           *)
(* (kontinuous/src/build/load-manifests.js, plugins/contrib/patches,       *)
(* plugins/contrib/validators, plugins/contrib/lib/get-needs-deps.js).     *)
(*                                                                         *)
(* A manifest is where its chart is (chartPath), its kind and name, the    *)
(* names it can be needed by, and what the plugins read in its             *)
(* annotations: plugin.needs, plugin.onChangedPaths...                     *)
(***************************************************************************)
EXTENDS JobRuns

CONSTANTS
  Kinds,        \* the kinds of manifests of each chart, but Jobs
  CustomWaitableKinds

ASSUME KindsType ==
  \A chart \in DOMAIN Kinds : IsFiniteSet(Kinds[chart]) /\ Kinds[chart] \cap {"", "Job"} = {}

KindsOf(chart) == IF chart \in DOMAIN Kinds THEN Kinds[chart] ELSE {}

Manifest(p, kind) ==
  [path |-> p, kind |-> kind, name |-> <<Name(p)>>, needs |-> {}, stage |-> <<>>, paths |-> {}, annotate |-> FALSE, rule |-> "",
   wave |-> 0]

\* A Job is named by its run, and its own needs are in its template; its
\* changed paths are too, under a key that nothing reads.
Job(p, r) ==
  [Manifest(p, "Job") EXCEPT !.name = r.name, !.needs = r.needs, !.stage = r.stage]

\* What the templates of the chart at p give, for runs without "if" and "enabled".
Templates(p, node) ==
  {Manifest(p, kind) : kind \in KindsOf(Searched(Name(p), node))}
  \union {Job(p, r) : r \in Compile(Runs(Name(p), node))}

Template(tree, hasAll) ==
  UNION {Templates(p, tree[p]) : p \in {q \in DOMAIN tree : Rendered(q, tree, hasAll)}}

-----------------------------------------------------------------------------
(* The names a manifest can be needed by.                                   *)

\* Faulty variant: without the kinds given as an option.
BuiltinWaitable(m) == m.kind \in {"Deployment", "StatefulSet", "Job"}

Waitable(m) ==
  m.kind \in {"Deployment", "StatefulSet", "Job"} \union CustomWaitableKinds

\* The path of the chart without the project and the plugins it came with.
TopParts(p) ==
  LET plugins == {i \in 1..Len(p) : \A j \in 2..i : SubSeq(p, 1, j) \in Dependencies}
      last == CHOOSE i \in plugins : \A j \in plugins : j <= i IN
  SubSeq(p, last + 1, Len(p))

\* "a.b.c" can be needed as "a" and "a.b" too; "a..c" as "a".
NamePrefixes(name) ==
  LET cut(n) == IF n[Len(n)] = "" THEN SubSeq(n, 1, Len(n) - 1) ELSE n IN
  {cut(SubSeq(name, 1, i)) : i \in 1..Len(name)}

NeedKeys(m) ==
  LET chart == <<Name(m.path)>>
      kind == <<m.kind>>
      top == TopParts(m.path)
      names == UNION {NamePrefixes(n) : n \in {m.name} \union Scopes(m.name)} IN
  {chart, m.path}
  \union (UNION {{m.path \o kind \o n, m.path \o n, chart \o kind \o n,
                  chart \o n, kind \o n, n} : n \in names})
  \union (IF top = <<>> THEN {} ELSE {<<top[1]>>, top})
  \union (IF m.stage = <<>> THEN {} ELSE {m.stage})

Matching(need, manifests) ==
  {d \in manifests : Waitable(d) /\ need \in NeedKeys(d)}

\* What m waits for: the deployer, the init container and the waves read it.
NeedsOf(m, manifests) ==
  UNION {Matching(need, manifests) : need \in m.needs}

\* needs-require
Unmet(manifests) ==
  {m \in manifests :
     Waitable(m) /\ \E need \in m.needs : Matching(need, manifests) = {}}

-----------------------------------------------------------------------------
(* The patches.                                                             *)

\* 00.0-values-patches: the ~ keys of the values down the path of the chart,
\* the first one met and the annotation of the template winning.
FirstOf(p, tree, Field(_), none) ==
  LET saying == {i \in 1..Len(p) :
                   SubSeq(p, 1, i) \in DOMAIN tree
                   /\ Field(tree[SubSeq(p, 1, i)]) # none} IN
  IF saying = {} THEN none
  ELSE Field(tree[SubSeq(p, 1, CHOOSE i \in saying : \A j \in saying : i <= j)])

ValuesPatches(manifests, tree) ==
  LET needs(n) == n.needs
      paths(n) == n.paths
      rule(n) == n.rule
      annotate(n) == n.annotate IN
  {[m EXCEPT !.needs = IF @ = {} THEN FirstOf(m.path, tree, needs, {}) ELSE @,
             !.paths = FirstOf(m.path, tree, paths, {}),
             !.rule = FirstOf(m.path, tree, rule, ""),
             !.annotate = FirstOf(m.path, tree, annotate, FALSE)]
     : m \in manifests}

\* 04-on-changed.  Nothing was pushed before: nothing is known to be unchanged.
Unchanged(m, changedPaths) ==
  m.paths # {} /\ changedPaths # {} /\ m.paths \cap changedPaths = {}

\* "unbind" and "cascade" go by annotations of kapp that a later patch sets.
BadRule(m, changedPaths) ==
  Unchanged(m, changedPaths) /\ m.rule \notin {"", "unbind", "cascade"}

OnChanged(manifests, changedPaths) ==
  {m \in manifests : m.annotate \/ ~Unchanged(m, changedPaths)}

\* get-needs-dep-name, as 05.0-needs prepares it.
DepName(m) ==
  LET top == TopParts(m.path) IN
  <<IF top = <<>> THEN "" ELSE top[1], IF m.kind = "Job" THEN m.name ELSE <<>> >>

\* Faulty variant: what is needed is not deeper than what needs it.
SameLevel(level) == level
OneDeeper(level) == level + 1

\* What m needs of another component, where it can wait.
NeedsBeyond(m, manifests) ==
  IF Waitable(m) THEN {d \in NeedsOf(m, manifests) : DepName(d) # DepName(m)} ELSE {}

\* Needs that go in a circle: the search for the deepest has no end.
Circular(manifests) ==
  LET needy == {m \in manifests : NeedsBeyond(m, manifests) # {}} IN
  \E circle \in SUBSET needy : circle # {} /\ \A m \in circle :
    NeedsBeyond(m, manifests) \cap circle # {}

\* 05.1-needs-using-argocd-sync-waves: how deep the needs of m go.
Deepness(m, manifests, level) ==
  LET levels == {0} \union {OneDeeper(level[d]) : d \in NeedsBeyond(m, manifests)} IN
  CHOOSE l \in levels : \A k \in levels : k <= l

Level(manifests) ==
  LET level[m \in manifests] == Deepness(m, manifests, level) IN level

SyncWaves(manifests) ==
  LET level == Level(manifests) IN
  {[m EXCEPT !.wave = level[m]] : m \in manifests}

\* 05.1-needs-using-initcontainers: what has no pods cannot wait in one of their
\* containers, and the template of its pods is looked for all the same.
Templated == {"Deployment", "StatefulSet", "DaemonSet", "Job"}
NoPods(manifests) ==
  {m \in manifests : Waitable(m) /\ m.needs # {} /\ m.kind \notin Templated}

\* 06-filter-disable-kapp
WithoutKapp(manifests) == {m \in manifests : m.kind # "Config"}

\* resources-uniqness
Duplicates(manifests) ==
  {m \in manifests : \E d \in manifests \ {m} :
     d.kind = m.kind /\ d.name = m.name /\ (m.kind = "Job" => d.path = m.path)}

=============================================================================
