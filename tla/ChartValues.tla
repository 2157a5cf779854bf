----------------------------- MODULE ChartValues -----------------------------
(***************************************************************************)
(* The values given to helm (kontinuous/src/build/load-dependencies/       *)
(* compile-values.js and the values compilers of plugins/contrib): which   *)
(* entries of the user's values files become which charts, and which of    *)
(* those are enabled.                                                      *)
(*                                                                         *)
(* Values are the entries at the top level of the files, by key, and the   *)
(* tree of the charts, by path from "project".  Of an entry or a chart     *)
(* only what decides its fate is kept: the enabled flag, the ~chart and    *)
(* ~chart-group it names, and the needs, runs and changed paths that the   *)
(* patches read.                                                           *)
(***************************************************************************)
EXTENDS Sequences, FiniteSets, Naturals

CONSTANTS
  Charts,  \* the enabled flag of each chart, by path, as its plugin sets it
  Order,   \* all the charts, so that those of a directory are as they are read
  Global   \* charts enabled by a global flag when all is built (06-global-defaults)

Path == DOMAIN Charts

Parent(p) == SubSeq(p, 1, Len(p) - 1)
Below(p, q) == Len(q) > Len(p) /\ SubSeq(q, 1, Len(p)) = p
Name(p) == p[Len(p)]

\* An entry of which nothing is said.
Blank == [enabled |-> "unset", chart |-> "", groups |-> {}, project |-> FALSE,
          isChart |-> FALSE, needs |-> {}, paths |-> {}, annotate |-> FALSE,
          rule |-> "", runs |-> <<>>, use |-> ""]

\* values.yaml of the charts, and of the plugins that set their flags.
ChartTree == [p \in Path |-> [Blank EXCEPT !.enabled = Charts[p], !.isChart = TRUE]]

-----------------------------------------------------------------------------
(* --chart and --set.                                                       *)

Selected(key, entry, select) == key \in select \/ entry.groups \cap select # {}

\* Faulty variant: what is not selected is left as it was.
OnlyAdded(key, entry, select) ==
  [entry EXCEPT !.enabled = IF Selected(key, entry, select) THEN "yes" ELSE @]

Choice(key, entry, select) ==
  [entry EXCEPT !.enabled = IF Selected(key, entry, select) THEN "yes" ELSE "no"]

\* With --chart the rest is disabled; a key that is not there is created.
EnableStandalone(entries, select) ==
  IF select = {} THEN entries
  ELSE [k \in DOMAIN entries \union select |->
          Choice(k, IF k \in DOMAIN entries THEN entries[k] ELSE Blank, select)]

\* --set <key>.enabled=<flag>
OverrideValues(entries, set) ==
  [k \in DOMAIN entries \union DOMAIN set |->
     LET e == IF k \in DOMAIN entries THEN entries[k] ELSE Blank IN
     IF k \in DOMAIN set THEN [e EXCEPT !.enabled = set[k]] ELSE e]

-----------------------------------------------------------------------------
(* 01-unfold-charts and 03-resolve-alias-of.                                *)

Rank(p) == CHOOSE i \in DOMAIN Order : Order[i] = p

\* A chart of a directory is looked for in the directory itself, then in its
\* charts one after the other: p is met before q.
Met(p, q) ==
  LET n == CHOOSE i \in 0..Len(p) :
             /\ i <= Len(q) /\ SubSeq(p, 1, i) = SubSeq(q, 1, i)
             /\ i = Len(p) \/ i = Len(q) \/ p[i + 1] # q[i + 1] IN
  CASE n = Len(p) \/ Len(p) = n + 1 -> TRUE
    [] Len(q) = n + 1 -> FALSE
    [] OTHER -> Rank(SubSeq(p, 1, n + 1)) < Rank(SubSeq(q, 1, n + 1))

Named(search) == {p \in Path : Len(p) > 1 /\ Name(p) = search}

\* Of the charts of one name, one is met before the others.
ASSUME ChartsType ==
  /\ IsFiniteSet(Path) /\ Path \subseteq Seq(STRING) \ {<<>>}
  /\ \A p \in Path : Named(Name(p)) # {} =>
       \E q \in Named(Name(p)) : \A r \in Named(Name(p)) : r = q \/ Met(q, r)

Searched(key, entry) == IF entry.chart = "" THEN key ELSE entry.chart
HasChart(key, entry) == Named(Searched(key, entry)) # {}
ChartOf(key, entry) ==
  CHOOSE p \in Named(Searched(key, entry)) :
    \A q \in Named(Searched(key, entry)) : q = p \/ Met(p, q)

\* Where the entry ends up: next to its chart, under its own key.
Instance(key, entry) == Append(Parent(ChartOf(key, entry)), key)

\* The entry over the chart, or over a copy of it: "~enabled" unless it says no.
Placed(entry) ==
  [entry EXCEPT !.isChart = TRUE, !.enabled = IF @ = "no" THEN "no" ELSE "yes"]

Unfolded(entries) == {k \in DOMAIN entries : HasChart(k, entries[k])}

ResolveAliasOf(entries, tree) ==
  LET at == [k \in Unfolded(entries) |-> Instance(k, entries[k])] IN
  [p \in DOMAIN tree \union {at[k] : k \in DOMAIN at} |->
     IF \E k \in DOMAIN at : at[k] = p
       THEN Placed(entries[CHOOSE k \in DOMAIN at : at[k] = p])
       ELSE tree[p]]

\* Entries of which the charts are not known stay where they are.
Remaining(entries) ==
  [k \in DOMAIN entries \ Unfolded(entries) |-> entries[k]]

-----------------------------------------------------------------------------
(* 04-implicit-enabled, remove-not-enabled-values and helm's conditions.    *)

ImplicitEnabled(tree) ==
  [p \in DOMAIN tree |->
     IF tree[p].project /\ tree[p].enabled # "no"
       THEN [tree[p] EXCEPT !.enabled = "yes"] ELSE tree[p]]

\* p is enabled, or becomes so because a chart below it is, with nothing in
\* between that says no.
Kept(p, tree) ==
  \E q \in DOMAIN tree :
    /\ q = p \/ Below(p, q)
    /\ tree[q].isChart /\ tree[q].enabled = "yes"
    /\ \A r \in DOMAIN tree : (r = p \/ Below(p, r)) /\ Below(r, q)
         => tree[r].enabled # "no"

RemoveNotEnabled(tree) ==
  [p \in {q \in DOMAIN tree :
            \A r \in DOMAIN tree : Below(r, q) => Kept(r, tree)} |->
     [tree[p] EXCEPT !.enabled = IF Kept(p, tree) THEN "yes" ELSE "no"]]

\* What helm renders: the conditions of Chart.yaml, or the global flag, hold
\* all the way down; the plugins imported by the project have none.
Rendered(p, tree, hasAll) ==
  /\ p \in DOMAIN tree
  /\ \A r \in DOMAIN tree :
       (r = p \/ Below(r, p)) /\ Len(r) > 2 =>
         IF r \in Global THEN hasAll ELSE tree[r].enabled = "yes"

=============================================================================
