------------------------------- MODULE JobRuns -------------------------------
(***************************************************************************)
(* The runs of the charts jobs and job (values-compilers/05-jobs).  A run  *)
(* that uses a job defined by a plugin is replaced by the runs of that     *)
(* job, which carry the names by which other manifests may need them.      *)
(*                                                                         *)
(* A dotted name is the sequence of its parts: "k..t" is <<"k", "", "t">>. *)
(***************************************************************************)
EXTENDS ChartValues

CONSTANTS
  Dependencies, \* the paths of the imported plugins (config.dependencies)
  Uses          \* Uses[p]: the jobs of plugin p, each with its runs (use.yaml)

-----------------------------------------------------------------------------
(* Where a job is found.                                                    *)

Locations(use) == {p \in Dependencies : use \in DOMAIN Uses[p]}

\* A plugin is looked into before its own dependencies, and these before the
\* plugin after it.
Sooner(p, q) ==
  LET n == CHOOSE i \in 0..Len(p) :
             /\ i <= Len(q) /\ SubSeq(p, 1, i) = SubSeq(q, 1, i)
             /\ i = Len(p) \/ i = Len(q) \/ p[i + 1] # q[i + 1] IN
  n = Len(p) \/ (n < Len(q) /\ Rank(SubSeq(p, 1, n + 1)) < Rank(SubSeq(q, 1, n + 1)))

Located(use) ==
  CHOOSE p \in Locations(use) : \A q \in Locations(use) : q = p \/ Sooner(p, q)

PluginJob == UNION {{<<p, use>> : use \in DOMAIN Uses[p]} : p \in Dependencies}
JobFor(use) == <<Located(use), use>>
RunsIn(job) == Uses[job[1]][job[2]]
RunsOf(use) == RunsIn(JobFor(use))

\* The runs of a job or of an entry.
AreRuns(runs) ==
  /\ runs = [k \in DOMAIN runs |-> runs[k]]
  /\ IsFiniteSet(DOMAIN runs) /\ DOMAIN runs \subseteq STRING
  /\ \A k \in DOMAIN runs : runs[k].needs \subseteq Seq(STRING) /\ runs[k].stage \in Seq(STRING)

\* Jobs that use one another in a circle are copied for ever: there are none.
ASSUME UsesType ==
  /\ \A p \in Dependencies : \A use \in DOMAIN Uses[p] : Located(use) \in Locations(use)
  /\ \A job \in PluginJob : AreRuns(RunsIn(job)) /\ RunsIn(job) # <<>>
  /\ \A circle \in SUBSET PluginJob : circle # {} =>
       \E job \in circle : \A k \in DOMAIN RunsIn(job) :
         LET use == RunsIn(job)[k].use IN
         use = "" \/ Locations(use) = {} \/ JobFor(use) \notin circle

\* A job that is in no plugin is an error, wherever it is used.
Lacks(runs, lacking) ==
  \E k \in DOMAIN runs :
    LET use == runs[k].use IN
    use # "" /\ (Locations(use) = {} \/ lacking[JobFor(use)])

Missing(runs) ==
  LET lacking[job \in PluginJob] == Lacks(RunsIn(job), lacking) IN
  Lacks(runs, lacking)

-----------------------------------------------------------------------------
(* The runs of an entry.                                                    *)

\* The values of the chart job are those of its one run.
Single(key, entry) ==
  [k \in {key} |-> [use |-> entry.use, needs |-> entry.needs, stage |-> <<>>]]

Runs(key, entry) ==
  IF Searched(key, entry) = "job" THEN Single(key, entry) ELSE entry.runs

\* Charts that are not enabled are left as they are.
Unknown(tree) ==
  {p \in DOMAIN tree : tree[p].enabled = "yes" /\ Missing(Runs(Name(p), tree[p]))}

\* Faulty variant: the needs of a used job keep their short names.
NotLifted(first, needs) == needs

\* Inside a used job a need names a sibling: it becomes "<first>..<sibling>".
Lifted(first, needs) == {<<first, "">> \o n : n \in needs}

\* What is made of run k inside run first of the entry, where inside gives what
\* is made of the runs of a job.  The placeholder that keeps a replaced run's
\* key is disabled: left out, as is a job that Unknown refuses.
CompileRun(first, k, run, inside) ==
  IF run.use = ""
    THEN {[name |-> <<k>>, needs |-> run.needs, stage |-> run.stage]}
  ELSE IF Locations(run.use) = {} THEN {}
  ELSE {[r EXCEPT
           !.name = <<k>> \o @,
           !.needs = Lifted(first, @) \union run.needs,
           !.stage = IF run.stage # <<>> THEN run.stage ELSE @]
          : r \in inside[JobFor(run.use)]}

Inside(first) ==
  LET inside[job \in PluginJob] ==
        UNION {CompileRun(first, k, RunsIn(job)[k], inside) : k \in DOMAIN RunsIn(job)} IN
  inside

Compile(runs) ==
  UNION {CompileRun(k, k, runs[k], Inside(k)) : k \in DOMAIN runs}

\* The path of a run, every prefix of it, and its first and last names.
Scopes(name) ==
  {SubSeq(name, 1, i) : i \in 1..Len(name)}
  \union (IF Len(name) > 1 THEN {<<name[1], "", name[Len(name)]>>} ELSE {})

=============================================================================
