----------------------------- MODULE BuildProofs -----------------------------
(***************************************************************************)
(* The configuration and the build that follows it.                        *)
(*                                                                         *)
(* The configuration.  For any values given together, in any layers, and   *)
(* any number of reloads: the environment and the options have the last    *)
(* word over the keys of the second table, and a pod reports where its     *)
(* client looks.  A pass is a recursion on the places of the table.        *)
(* OverrideIs shows that it is well founded: going down the table, the     *)
(* first n keys have their value whatever follows (PassExists).  The rest  *)
(* is about the calls: what a pass found at its places is replaced by no   *)
(* later layer, since such a key is no default and "home", "workspace" and *)
(* "project" are merged before the next pass (AskedStands); and in a pod   *)
(* the three values of git come from the file of the workspace before any  *)
(* status URL is computed from them that is kept (PodReports).             *)
(*                                                                         *)
(* A default that was computed from other keys agrees with their final     *)
(* values (DefaultsFollow).  A pass leaves what it computes so, for a row  *)
(* reads keys above its own or of the other table (RowReadsAbove,          *)
(* PassComputes).  Between passes, what is read changes only by a layer    *)
(* merged after its readers; the invariant says which values have settled  *)
(* by then (Settled), and at which step of which call the defaults agree   *)
(* (Derived): a call makes at most one other, unless loading is endless    *)
(* (Calls), so that the last call is known.                                *)
(*                                                                         *)
(* The build.  For any charts, plugins and values: what is selected is     *)
(* rendered, since an entry's chart is alone between the charts above it,  *)
(* that are not disabled, and its manifests (Alone); and with sync waves   *)
(* what a manifest needs of another component is in an earlier wave.  A    *)
(* wave is defined by those of what is needed: LevelIs shows that there is *)
(* one for each manifest when needs are in no circle, since manifests are  *)
(* finitely many, which takes a second recursion, on the jobs that runs    *)
(* use (InsideIs).  BuildInv says what each step has made of what was      *)
(* asked, and RefusalInv what it was refused for.                          *)
(*                                                                         *)
(* When the jobs of the plugins are plain, the runs of an entry are known  *)
(* one by one (CompileIsFlat), and so is what is rendered: the kinds and   *)
(* the runs of the entries that are sought, and what bare charts give      *)
(* (LabelledAre).  ShapeKeys says which names these can be needed by.      *)
(* With them a need reaches the runs it means (RunsAreReached), and each   *)
(* refusal is traced back to what was asked (RefusalsHaveReasons).         *)
(***************************************************************************)
EXTENDS ConfigLoad, BuildPipeline, SequenceTheorems, FiniteSetTheorems,
        WellFoundedInduction, TLAPS

-----------------------------------------------------------------------------
(* The table.                                                               *)

RowsOf(s, n) == {s[i] : i \in 1..n}

\* All the rows.
AnyRow ==
  RowsOf(WorkspaceKeys, 6)
  \union RowsOf(GitKeys, 12)
  \union RowsOf(PipelineKeys, 3)
  \union RowsOf(BuildKeys, 11)
  \union RowsOf(LabelKeys, 8)
  \union RowsOf(WebhookKeys, 12)
  \union RowsOf(ClusterKeys, 9)
  \union RowsOf(LinkKeys, 4)
  \union RowsOf(SecretKeys, 8)
  \union RowsOf(DiffKeys, 4)
  \union RowsOf(RunKeys, 10)
  \union RowsOf(OrgKeys, 6)

\* Each table is a sequence of so many rows.
LEMMA Joined ==
  ASSUME NEW S, NEW s \in Seq(S), NEW t \in Seq(S)
  PROVE  /\ s \o t \in Seq(S) /\ Len(s \o t) = Len(s) + Len(t)
         /\ \A i \in 1..Len(s) : (s \o t)[i] = s[i]
         /\ \A i \in 1..Len(t) : (s \o t)[Len(s) + i] = t[i]
<1>1. /\ s \o t \in Seq(S) /\ Len(s \o t) = Len(s) + Len(t)
      /\ \A i \in 1..Len(s) + Len(t) :
           (s \o t)[i] = IF i <= Len(s) THEN s[i] ELSE t[i - Len(s)]
  BY ConcatProperties
<1>2. Len(s) \in Nat /\ Len(t) \in Nat
  OBVIOUS
<1>3. ASSUME NEW i \in 1..Len(s)
      PROVE  (s \o t)[i] = s[i]
  BY <1>1, <1>2
<1>4. ASSUME NEW i \in 1..Len(t)
      PROVE  (s \o t)[Len(s) + i] = t[i]
  <2>1. /\ Len(s) + i \in 1..Len(s) + Len(t) /\ ~(Len(s) + i <= Len(s))
        /\ Len(s) + i - Len(s) = i
    BY <1>2
  <2>. QED
    BY <1>1, <2>1
<1>. QED
  BY <1>1, <1>3, <1>4

\* The tables of the code, one after the other: what they hold and how long
\* they are.
LEMMA WorkspaceKeysAre == WorkspaceKeys \in Seq(AnyRow) /\ Len(WorkspaceKeys) = 6
<1>1. ASSUME NEW S, \A i \in 1..6 : WorkspaceKeys[i] \in S
      PROVE  WorkspaceKeys \in Seq(S) /\ Len(WorkspaceKeys) = 6
  BY <1>1 DEF WorkspaceKeys
<1>2. \A i \in 1..6 : WorkspaceKeys[i] \in AnyRow
  BY DEF AnyRow, RowsOf
<1>. QED
  BY <1>1, <1>2

LEMMA GitKeysAre == GitKeys \in Seq(AnyRow) /\ Len(GitKeys) = 12
<1>1. ASSUME NEW S, \A i \in 1..12 : GitKeys[i] \in S
      PROVE  GitKeys \in Seq(S) /\ Len(GitKeys) = 12
  BY <1>1 DEF GitKeys
<1>2. \A i \in 1..12 : GitKeys[i] \in AnyRow
  BY DEF AnyRow, RowsOf
<1>. QED
  BY <1>1, <1>2

LEMMA PipelineKeysAre == PipelineKeys \in Seq(AnyRow) /\ Len(PipelineKeys) = 3
<1>1. ASSUME NEW S, \A i \in 1..3 : PipelineKeys[i] \in S
      PROVE  PipelineKeys \in Seq(S) /\ Len(PipelineKeys) = 3
  BY <1>1 DEF PipelineKeys
<1>2. \A i \in 1..3 : PipelineKeys[i] \in AnyRow
  BY DEF AnyRow, RowsOf
<1>. QED
  BY <1>1, <1>2

LEMMA BuildKeysAre == BuildKeys \in Seq(AnyRow) /\ Len(BuildKeys) = 11
<1>1. ASSUME NEW S, \A i \in 1..11 : BuildKeys[i] \in S
      PROVE  BuildKeys \in Seq(S) /\ Len(BuildKeys) = 11
  BY <1>1 DEF BuildKeys
<1>2. \A i \in 1..11 : BuildKeys[i] \in AnyRow
  BY DEF AnyRow, RowsOf
<1>. QED
  BY <1>1, <1>2

LEMMA LabelKeysAre == LabelKeys \in Seq(AnyRow) /\ Len(LabelKeys) = 8
<1>1. ASSUME NEW S, \A i \in 1..8 : LabelKeys[i] \in S
      PROVE  LabelKeys \in Seq(S) /\ Len(LabelKeys) = 8
  BY <1>1 DEF LabelKeys
<1>2. \A i \in 1..8 : LabelKeys[i] \in AnyRow
  BY DEF AnyRow, RowsOf
<1>. QED
  BY <1>1, <1>2

LEMMA WebhookKeysAre == WebhookKeys \in Seq(AnyRow) /\ Len(WebhookKeys) = 12
<1>1. ASSUME NEW S, \A i \in 1..12 : WebhookKeys[i] \in S
      PROVE  WebhookKeys \in Seq(S) /\ Len(WebhookKeys) = 12
  BY <1>1 DEF WebhookKeys
<1>2. \A i \in 1..12 : WebhookKeys[i] \in AnyRow
  BY DEF AnyRow, RowsOf
<1>. QED
  BY <1>1, <1>2

LEMMA ClusterKeysAre == ClusterKeys \in Seq(AnyRow) /\ Len(ClusterKeys) = 9
<1>1. ASSUME NEW S, \A i \in 1..9 : ClusterKeys[i] \in S
      PROVE  ClusterKeys \in Seq(S) /\ Len(ClusterKeys) = 9
  BY <1>1 DEF ClusterKeys
<1>2. \A i \in 1..9 : ClusterKeys[i] \in AnyRow
  BY DEF AnyRow, RowsOf
<1>. QED
  BY <1>1, <1>2

LEMMA LinkKeysAre == LinkKeys \in Seq(AnyRow) /\ Len(LinkKeys) = 4
<1>1. ASSUME NEW S, \A i \in 1..4 : LinkKeys[i] \in S
      PROVE  LinkKeys \in Seq(S) /\ Len(LinkKeys) = 4
  BY <1>1 DEF LinkKeys
<1>2. \A i \in 1..4 : LinkKeys[i] \in AnyRow
  BY DEF AnyRow, RowsOf
<1>. QED
  BY <1>1, <1>2

LEMMA SecretKeysAre == SecretKeys \in Seq(AnyRow) /\ Len(SecretKeys) = 8
<1>1. ASSUME NEW S, \A i \in 1..8 : SecretKeys[i] \in S
      PROVE  SecretKeys \in Seq(S) /\ Len(SecretKeys) = 8
  BY <1>1 DEF SecretKeys
<1>2. \A i \in 1..8 : SecretKeys[i] \in AnyRow
  BY DEF AnyRow, RowsOf
<1>. QED
  BY <1>1, <1>2

LEMMA DiffKeysAre == DiffKeys \in Seq(AnyRow) /\ Len(DiffKeys) = 4
<1>1. ASSUME NEW S, \A i \in 1..4 : DiffKeys[i] \in S
      PROVE  DiffKeys \in Seq(S) /\ Len(DiffKeys) = 4
  BY <1>1 DEF DiffKeys
<1>2. \A i \in 1..4 : DiffKeys[i] \in AnyRow
  BY DEF AnyRow, RowsOf
<1>. QED
  BY <1>1, <1>2

LEMMA RunKeysAre == RunKeys \in Seq(AnyRow) /\ Len(RunKeys) = 10
<1>1. ASSUME NEW S, \A i \in 1..10 : RunKeys[i] \in S
      PROVE  RunKeys \in Seq(S) /\ Len(RunKeys) = 10
  BY <1>1 DEF RunKeys
<1>2. \A i \in 1..10 : RunKeys[i] \in AnyRow
  BY DEF AnyRow, RowsOf
<1>. QED
  BY <1>1, <1>2

LEMMA OrgKeysAre == OrgKeys \in Seq(AnyRow) /\ Len(OrgKeys) = 6
<1>1. ASSUME NEW S, \A i \in 1..6 : OrgKeys[i] \in S
      PROVE  OrgKeys \in Seq(S) /\ Len(OrgKeys) = 6
  BY <1>1 DEF OrgKeys
<1>2. \A i \in 1..6 : OrgKeys[i] \in AnyRow
  BY DEF AnyRow, RowsOf
<1>. QED
  BY <1>1, <1>2

\* What a row is that neither serves a URL nor asks.
Plain(r) ==
  /\ r.key \notin {"webhookToken", "webhookUri", "statusUrl"}
  /\ r.by # "asking"

\* The tables whose rows are plain.
LEMMA BuildKeysPlain == \A i \in 1..11 : Plain(BuildKeys[i])
BY DEF BuildKeys, Lookup, Constant, Computed, Shaped, Row, Plain

LEMMA LabelKeysPlain == \A i \in 1..8 : Plain(LabelKeys[i])
BY DEF LabelKeys, Lookup, Constant, Computed, Shaped, Row, Plain

LEMMA ClusterKeysPlain == \A i \in 1..9 : Plain(ClusterKeys[i])
BY DEF ClusterKeys, Lookup, Computed, Optional, Shaped, Row, Plain

LEMMA LinkKeysPlain == \A i \in 1..4 : Plain(LinkKeys[i])
BY DEF LinkKeys, Lookup, Constant, Shaped, Row, Plain

LEMMA SecretKeysPlain == \A i \in 1..8 : Plain(SecretKeys[i])
BY DEF SecretKeys, Lookup, Constant, Computed, Optional, Row, Plain

LEMMA DiffKeysPlain == \A i \in 1..4 : Plain(DiffKeys[i])
BY DEF DiffKeys, Computed, Row, Plain

LEMMA RunKeysPlain == \A i \in 1..10 : Plain(RunKeys[i])
BY DEF RunKeys, Lookup, Constant, Computed, Row, Plain

LEMMA OrgKeysPlain == \A i \in 1..6 : Plain(OrgKeys[i])
BY DEF OrgKeys, Lookup, Constant, Row, Plain

\* The rows of the second table that serve the URL of a status, in place.
HasWebhook(s) ==
  /\ s \in Seq(AnyRow) /\ Len(s) >= 31
  /\ s[20] = Optional("webhookToken", Either, {"webhook"}, {})
  /\ s[21] = Optional("webhookUri", Either, {"webhook"}, {})
  /\ s[31] = Optional("statusUrl", Either, Served, Query)
  /\ \A i \in 1..Len(s) : s[i].by # "asking" /\ (i \notin {20, 21, 31} => Plain(s[i]))

\* Where the rows of the webhook are in the second table,
LEMMA Webhook == HasWebhook(BuildKeys \o LabelKeys \o WebhookKeys)
<1>. DEFINE s == BuildKeys \o LabelKeys
<1>1. /\ BuildKeys \in Seq(AnyRow) /\ Len(BuildKeys) = 11
      /\ LabelKeys \in Seq(AnyRow) /\ Len(LabelKeys) = 8
      /\ WebhookKeys \in Seq(AnyRow) /\ Len(WebhookKeys) = 12
  BY BuildKeysAre, LabelKeysAre, WebhookKeysAre
<1>2. /\ s \in Seq(AnyRow) /\ Len(s) = 19 /\ \A i \in 1..19 : Plain(s[i])
  <2>0. BuildKeys \in Seq(AnyRow) /\ LabelKeys \in Seq(AnyRow)
    BY <1>1
  <2>1. /\ s \in Seq(AnyRow) /\ Len(s) = Len(BuildKeys) + Len(LabelKeys)
        /\ \A i \in 1..Len(BuildKeys) : s[i] = BuildKeys[i]
        /\ \A i \in 1..Len(LabelKeys) : s[Len(BuildKeys) + i] = LabelKeys[i]
    BY <2>0, Joined
  <2>. HIDE DEF s
  <2>2. \A i \in 1..11 : Plain(s[i])
    BY <1>1, <2>1, BuildKeysPlain
  <2>3. ASSUME NEW i \in 12..19
        PROVE  Plain(s[i])
    <3>1. i - 11 \in 1..8 /\ 11 + (i - 11) = i
      OBVIOUS
    <3>2. s[i] = LabelKeys[i - 11]
      BY <1>1, <2>1, <3>1
    <3>. QED
      BY <3>1, <3>2, LabelKeysPlain
  <2>. QED
    BY <1>1, <2>1, <2>2, <2>3
<1>. HIDE DEF s
<1>. DEFINE t == s \o WebhookKeys
<1>3. /\ t \in Seq(AnyRow) /\ Len(t) = 31
      /\ \A i \in 1..19 : t[i] = s[i]
      /\ \A i \in 1..12 : t[19 + i] = WebhookKeys[i]
  <2>0. s \in Seq(AnyRow) /\ WebhookKeys \in Seq(AnyRow)
    BY <1>1, <1>2
  <2>1. /\ t \in Seq(AnyRow) /\ Len(t) = Len(s) + Len(WebhookKeys)
        /\ \A i \in 1..Len(s) : t[i] = s[i]
        /\ \A i \in 1..Len(WebhookKeys) : t[Len(s) + i] = WebhookKeys[i]
    BY <2>0, Joined
  <2>. HIDE DEF t
  <2>. QED
    BY <1>1, <1>2, <2>1
<1>. HIDE DEF t
<1>4. /\ WebhookKeys[1] = Optional("webhookToken", Either, {"webhook"}, {})
      /\ WebhookKeys[2] = Optional("webhookUri", Either, {"webhook"}, {})
      /\ WebhookKeys[12] = Optional("statusUrl", Either, Served, Query)
  BY DEF WebhookKeys
<1>5. \A i \in 1..12 : WebhookKeys[i].by # "asking" /\ (i \notin {1, 2, 12} => Plain(WebhookKeys[i]))
  BY DEF WebhookKeys, Lookup, Constant, Optional, Row, Plain
<1>6. t[20] = WebhookKeys[1] /\ t[21] = WebhookKeys[2] /\ t[31] = WebhookKeys[12]
  <2>1. t[19 + 1] = WebhookKeys[1] /\ t[19 + 2] = WebhookKeys[2] /\ t[19 + 12] = WebhookKeys[12]
    BY <1>3
  <2>. QED
    BY <2>1
<1>7. ASSUME NEW i \in 1..Len(t)
      PROVE  t[i].by # "asking" /\ (i \notin {20, 21, 31} => Plain(t[i]))
  <2>1. CASE i \in 1..19
    <3>1. Plain(t[i])
      BY <1>2, <1>3, <2>1
    <3>. QED
      BY <3>1 DEF Plain
  <2>2. CASE i \in 20..31
    <3>1. i - 19 \in 1..12 /\ 19 + (i - 19) = i
      BY <2>2
    <3>2. t[i] = WebhookKeys[i - 19]
      BY <1>3, <3>1
    <3>3. i \notin {20, 21, 31} => i - 19 \notin {1, 2, 12}
      BY <2>2
    <3>. QED
      BY <1>5, <3>1, <3>2, <3>3
  <2>. QED
    BY <1>3, <2>1, <2>2
<1>8. t = BuildKeys \o LabelKeys \o WebhookKeys
  BY DEF s, t
<1>9. HasWebhook(t)
  BY <1>3, <1>4, <1>6, <1>7 DEF HasWebhook
<1>. QED
  BY <1>8, <1>9

\* and still are with plain rows behind them.
LEMMA Longer ==
  ASSUME NEW s, HasWebhook(s), NEW t \in Seq(AnyRow), \A i \in 1..Len(t) : Plain(t[i])
  PROVE  HasWebhook(s \o t)
<1>1. /\ s \in Seq(AnyRow) /\ Len(s) >= 31 /\ Len(s) \in Nat /\ Len(t) \in Nat
      /\ s[20] = Optional("webhookToken", Either, {"webhook"}, {})
      /\ s[21] = Optional("webhookUri", Either, {"webhook"}, {})
      /\ s[31] = Optional("statusUrl", Either, Served, Query)
      /\ \A i \in 1..Len(s) : s[i].by # "asking" /\ (i \notin {20, 21, 31} => Plain(s[i]))
  BY DEF HasWebhook
<1>. DEFINE u == s \o t
<1>2. /\ u \in Seq(AnyRow) /\ Len(u) = Len(s) + Len(t)
      /\ \A i \in 1..Len(s) : u[i] = s[i]
      /\ \A i \in 1..Len(t) : u[Len(s) + i] = t[i]
  BY <1>1, Joined
<1>. HIDE DEF u
<1>3. u[20] = s[20] /\ u[21] = s[21] /\ u[31] = s[31]
  BY <1>1, <1>2
<1>4. ASSUME NEW i \in 1..Len(u)
      PROVE  u[i].by # "asking" /\ (i \notin {20, 21, 31} => Plain(u[i]))
  <2>1. CASE i \in 1..Len(s)
    BY <1>1, <1>2, <2>1
  <2>2. CASE i \notin 1..Len(s)
    <3>1. i - Len(s) \in 1..Len(t) /\ Len(s) + (i - Len(s)) = i
      BY <1>1, <1>2, <2>2
    <3>2. u[i] = t[i - Len(s)]
      BY <1>2, <3>1
    <3>3. Plain(u[i])
      BY <3>1, <3>2
    <3>. QED
      BY <3>3 DEF Plain
  <2>. QED
    BY <2>1, <2>2
<1>5. HasWebhook(u)
  BY <1>1, <1>2, <1>3, <1>4 DEF HasWebhook
<1>. QED
  BY <1>5 DEF u

\* The second table.
LEMMA MainRows == HasWebhook(MainTable)
<1>1. /\ HasWebhook(BuildKeys \o LabelKeys \o WebhookKeys \o ClusterKeys)
  BY Webhook, ClusterKeysAre, ClusterKeysPlain, Longer
<1>2. HasWebhook(BuildKeys \o LabelKeys \o WebhookKeys \o ClusterKeys \o LinkKeys)
  BY <1>1, LinkKeysAre, LinkKeysPlain, Longer
<1>3. HasWebhook(BuildKeys \o LabelKeys \o WebhookKeys \o ClusterKeys \o LinkKeys \o SecretKeys)
  BY <1>2, SecretKeysAre, SecretKeysPlain, Longer
<1>4. HasWebhook(BuildKeys \o LabelKeys \o WebhookKeys \o ClusterKeys \o LinkKeys
                 \o SecretKeys \o DiffKeys)
  BY <1>3, DiffKeysAre, DiffKeysPlain, Longer
<1>5. HasWebhook(BuildKeys \o LabelKeys \o WebhookKeys \o ClusterKeys \o LinkKeys
                 \o SecretKeys \o DiffKeys \o RunKeys)
  BY <1>4, RunKeysAre, RunKeysPlain, Longer
<1>6. HasWebhook(BuildKeys \o LabelKeys \o WebhookKeys \o ClusterKeys \o LinkKeys
                 \o SecretKeys \o DiffKeys \o RunKeys \o OrgKeys)
  BY <1>5, OrgKeysAre, OrgKeysPlain, Longer
<1>. QED
  BY <1>6 DEF MainTable

\* The first table has the keys of git, and none of those rows.
LEMMA RootRows ==
  /\ RootTable \in Seq(AnyRow) /\ Len(RootTable) = 21
  /\ \A i \in 1..21 : RootTable[i].key \notin {"webhookToken", "webhookUri", "statusUrl"}
  /\ RootTable[10].key = "gitRepositoryUrl" /\ RootTable[14].key = "gitBranch"
  /\ RootTable[16].key = "gitSha"
<1>. DEFINE s == WorkspaceKeys \o GitKeys
<1>1. /\ WorkspaceKeys \in Seq(AnyRow) /\ Len(WorkspaceKeys) = 6
      /\ GitKeys \in Seq(AnyRow) /\ Len(GitKeys) = 12
      /\ PipelineKeys \in Seq(AnyRow) /\ Len(PipelineKeys) = 3
  BY WorkspaceKeysAre, GitKeysAre, PipelineKeysAre
<1>2. /\ s \in Seq(AnyRow) /\ Len(s) = 18
      /\ \A i \in 1..6 : s[i] = WorkspaceKeys[i]
      /\ \A i \in 1..12 : s[6 + i] = GitKeys[i]
  <2>0. WorkspaceKeys \in Seq(AnyRow) /\ GitKeys \in Seq(AnyRow)
    BY <1>1
  <2>1. /\ s \in Seq(AnyRow) /\ Len(s) = Len(WorkspaceKeys) + Len(GitKeys)
        /\ \A i \in 1..Len(WorkspaceKeys) : s[i] = WorkspaceKeys[i]
        /\ \A i \in 1..Len(GitKeys) : s[Len(WorkspaceKeys) + i] = GitKeys[i]
    BY <2>0, Joined
  <2>. HIDE DEF s
  <2>. QED
    BY <1>1, <2>1
<1>. HIDE DEF s
<1>. DEFINE t == s \o PipelineKeys
<1>3. /\ t \in Seq(AnyRow) /\ Len(t) = 21
      /\ \A i \in 1..18 : t[i] = s[i]
      /\ \A i \in 1..3 : t[18 + i] = PipelineKeys[i]
  <2>0. s \in Seq(AnyRow) /\ PipelineKeys \in Seq(AnyRow)
    BY <1>1, <1>2
  <2>1. /\ t \in Seq(AnyRow) /\ Len(t) = Len(s) + Len(PipelineKeys)
        /\ \A i \in 1..Len(s) : t[i] = s[i]
        /\ \A i \in 1..Len(PipelineKeys) : t[Len(s) + i] = PipelineKeys[i]
    BY <2>0, Joined
  <2>. HIDE DEF t
  <2>. QED
    BY <1>1, <1>2, <2>1
<1>. HIDE DEF t
<1>. DEFINE Ours == {"webhookToken", "webhookUri", "statusUrl"}
<1>4. /\ \A i \in 1..6 : WorkspaceKeys[i].key \notin Ours
      /\ \A i \in 1..3 : PipelineKeys[i].key \notin Ours
  BY DEF WorkspaceKeys, PipelineKeys, Lookup, Computed, Constant, Row
<1>5. /\ \A i \in 1..12 : GitKeys[i].key \notin Ours
      /\ GitKeys[4].key = "gitRepositoryUrl" /\ GitKeys[8].key = "gitBranch"
      /\ GitKeys[10].key = "gitSha"
  BY DEF GitKeys, Lookup, Computed, Asking, Row
<1>. HIDE DEF Ours
<1>6. ASSUME NEW i \in 1..21
      PROVE  t[i].key \notin Ours
  <2>1. CASE i \in 1..6
    BY <1>2, <1>3, <1>4, <2>1
  <2>2. CASE i \in 7..18
    <3>1. i - 6 \in 1..12 /\ 6 + (i - 6) = i /\ i \in 1..18
      BY <2>2
    <3>2. t[i] = GitKeys[i - 6]
      BY <1>2, <1>3, <3>1
    <3>. QED
      BY <1>5, <3>1, <3>2
  <2>3. CASE i \in 19..21
    <3>1. i - 18 \in 1..3 /\ 18 + (i - 18) = i
      BY <2>3
    <3>2. t[i] = PipelineKeys[i - 18]
      BY <1>3, <3>1
    <3>. QED
      BY <1>4, <3>1, <3>2
  <2>. QED
    BY <2>1, <2>2, <2>3
<1>7. t[10] = GitKeys[4] /\ t[14] = GitKeys[8] /\ t[16] = GitKeys[10]
  <2>1. /\ s[6 + 4] = GitKeys[4] /\ s[6 + 8] = GitKeys[8] /\ s[6 + 10] = GitKeys[10]
        /\ t[10] = s[10] /\ t[14] = s[14] /\ t[16] = s[16]
    BY <1>2, <1>3
  <2>. QED
    BY <2>1
<1>8. RootTable = t
  BY DEF RootTable, s, t
<1>. QED
  BY <1>3, <1>5, <1>6, <1>7, <1>8 DEF Ours

\* Both tables together.
LEMMA TableIs ==
  /\ Table \in Seq(AnyRow) /\ Len(Table) \in Nat /\ Len(Table) >= 52
  /\ DOMAIN Table = 1..Len(Table)
  /\ \A i \in 1..21 : Table[i] = RootTable[i]
  /\ \A i \in 22..Len(Table) : /\ Table[i].by # "asking"
                               /\ i \notin {41, 42, 52} => Plain(Table[i])
  /\ Table[41] = Optional("webhookToken", Either, {"webhook"}, {})
  /\ Table[42] = Optional("webhookUri", Either, {"webhook"}, {})
  /\ Table[52] = Optional("statusUrl", Either, Served, Query)
<1>1. RootTable \in Seq(AnyRow) /\ MainTable \in Seq(AnyRow)
  BY RootRows, MainRows DEF HasWebhook
<1>2. /\ Table \in Seq(AnyRow) /\ Len(Table) = Len(RootTable) + Len(MainTable)
      /\ \A i \in 1..Len(RootTable) : Table[i] = RootTable[i]
      /\ \A i \in 1..Len(MainTable) : Table[Len(RootTable) + i] = MainTable[i]
  BY <1>1, Joined DEF Table
<1>3. /\ Len(RootTable) = 21 /\ Len(MainTable) >= 31 /\ Len(MainTable) \in Nat
      /\ MainTable[20] = Optional("webhookToken", Either, {"webhook"}, {})
      /\ MainTable[21] = Optional("webhookUri", Either, {"webhook"}, {})
      /\ MainTable[31] = Optional("statusUrl", Either, Served, Query)
      /\ \A i \in 1..Len(MainTable) :
           MainTable[i].by # "asking" /\ (i \notin {20, 21, 31} => Plain(MainTable[i]))
  BY <1>1, RootRows, MainRows DEF HasWebhook
<1>4. ASSUME NEW i \in 22..Len(Table)
      PROVE  Table[i].by # "asking" /\ (i \notin {41, 42, 52} => Plain(Table[i]))
  <2>1. /\ i - 21 \in 1..Len(MainTable) /\ 21 + (i - 21) = i
        /\ i \notin {41, 42, 52} => i - 21 \notin {20, 21, 31}
    BY <1>2, <1>3
  <2>2. Table[i] = MainTable[i - 21]
    BY <1>2, <1>3, <2>1
  <2>. QED
    BY <1>3, <2>1, <2>2
<1>5. Table[41] = MainTable[20] /\ Table[42] = MainTable[21] /\ Table[52] = MainTable[31]
  <2>1. /\ 20 \in 1..Len(MainTable) /\ 21 + 20 = 41 /\ 21 \in 1..Len(MainTable) /\ 21 + 21 = 42
        /\ 31 \in 1..Len(MainTable) /\ 21 + 31 = 52
    BY <1>3
  <2>. QED
    BY <1>2, <1>3, <2>1
<1>6. Len(Table) \in Nat /\ Len(Table) >= 52 /\ DOMAIN Table = 1..Len(Table)
  BY <1>2, <1>3
<1>7. \A i \in 1..21 : Table[i] = RootTable[i]
  BY <1>2, <1>3
<1>8. /\ Table[41] = Optional("webhookToken", Either, {"webhook"}, {})
      /\ Table[42] = Optional("webhookUri", Either, {"webhook"}, {})
      /\ Table[52] = Optional("statusUrl", Either, Served, Query)
  BY <1>3, <1>5
<1>. QED
  BY <1>2, <1>4, <1>6, <1>7, <1>8

\* The keys of the first table are keys.
LEMMA RootKeysAreKeys == RootKey \in SUBSET TableKey
<1>1. DOMAIN RootTable = 1..21 /\ DOMAIN Table = 1..Len(Table)
  BY RootRows, TableIs
<1>2. \A i \in 1..21 : i \in 1..Len(Table)
  <2>1. Len(Table) \in Nat /\ Len(Table) >= 52
    BY TableIs
  <2>. QED
    BY <2>1
<1>3. \A i \in 1..21 : Table[i] = RootTable[i]
  BY TableIs
<1>4. ASSUME NEW k \in RootKey
      PROVE  k \in TableKey
  <2>1. PICK i \in 1..21 : k = RootTable[i].key
    BY <1>1 DEF RootKey
  <2>2. i \in DOMAIN Table /\ k = Table[i].key
    BY <1>1, <1>2, <1>3, <2>1
  <2>. QED
    BY <2>2 DEF TableKey
<1>. QED
  BY <1>4

\* A key has the row at its place.
LEMMA RowIs ==
  ASSUME NEW k \in TableKey
  PROVE  /\ PlaceOf[k] \in 1..Len(Table) /\ RowOf[k] = Table[PlaceOf[k]] /\ RowOf[k].key = k
<1>1. \E i \in DOMAIN Table : Table[i].key = k
  BY DEF TableKey
<1>2. PlaceOf[k] \in DOMAIN Table /\ Table[PlaceOf[k]].key = k
  BY <1>1 DEF PlaceOf
<1>3. RowOf[k] = Table[PlaceOf[k]]
  BY DEF RowOf
<1>. QED
  BY <1>2, <1>3, TableIs

\* The keys of the second table are looked up before anything else is done.
LEMMA MainRow ==
  ASSUME NEW k \in TableKey \ RootKey
  PROVE  RowOf[k].by # "asking"
<1>1. PlaceOf[k] \in 1..Len(Table) /\ RowOf[k] = Table[PlaceOf[k]] /\ RowOf[k].key = k
  BY RowIs
<1>2. PlaceOf[k] \notin 1..21
  <2>. SUFFICES ASSUME PlaceOf[k] \in 1..21
                PROVE  FALSE
    OBVIOUS
  <2>1. RowOf[k] = RootTable[PlaceOf[k]]
    BY <1>1, TableIs
  <2>2. k \in RootKey
    BY <1>1, <2>1, RootRows DEF RootKey
  <2>. QED
    BY <2>2
<1>3. PlaceOf[k] \in 22..Len(Table)
  <2>1. PICK i \in 1..Len(Table) : i = PlaceOf[k]
    BY <1>1
  <2>2. Len(Table) \in Nat /\ i \notin 1..21
    BY <1>2, <2>1, TableIs
  <2>3. i \in 22..Len(Table)
    BY <2>2
  <2>. QED
    BY <2>1, <2>3
<1>. QED
  BY <1>1, <1>3, TableIs

\* statusUrl comes after what it is made of.
LEMMA StatusRows ==
  /\ {"webhookToken", "webhookUri", "statusUrl"} \subseteq TableKey \ RootKey
  /\ {"gitRepositoryUrl", "gitBranch", "gitSha"} \subseteq RootKey
  /\ PlaceOf["webhookToken"] < PlaceOf["statusUrl"] /\ PlaceOf["webhookUri"] < PlaceOf["statusUrl"]
  /\ RowOf["webhookToken"] = Optional("webhookToken", Either, {"webhook"}, {})
  /\ RowOf["webhookUri"] = Optional("webhookUri", Either, {"webhook"}, {})
  /\ RowOf["statusUrl"] = Optional("statusUrl", Either, Served, Query)
<1>. DEFINE Ours == {"webhookToken", "webhookUri", "statusUrl"}
<1>1. DOMAIN RootTable = 1..21
  BY RootRows
<1>2. {"gitRepositoryUrl", "gitBranch", "gitSha"} \subseteq RootKey
  <2>1. 10 \in 1..21 /\ 14 \in 1..21 /\ 16 \in 1..21
    OBVIOUS
  <2>. QED
    BY <1>1, <2>1, RootRows DEF RootKey
<1>3. Ours \cap RootKey = {}
  BY <1>1, RootRows DEF RootKey
<1>4. /\ Table[41].key = "webhookToken" /\ Table[42].key = "webhookUri"
      /\ Table[52].key = "statusUrl"
  BY TableIs DEF Optional, Row
<1>5. ASSUME NEW i \in 1..Len(Table), Table[i].key \in Ours
      PROVE  /\ Table[i].key = "webhookToken" => i = 41
             /\ Table[i].key = "webhookUri" => i = 42
             /\ Table[i].key = "statusUrl" => i = 52
  <2>1. i \notin 1..21
    BY <1>5, RootRows, TableIs
  <2>2. i \in 22..Len(Table)
    BY <2>1, TableIs
  <2>3. i \in {41, 42, 52}
    BY <1>5, <2>2, TableIs DEF Plain
  <2>. QED
    BY <1>4, <2>3
<1>6. Ours \subseteq TableKey
  <2>1. {41, 42, 52} \subseteq DOMAIN Table
    BY TableIs
  <2>. QED
    BY <1>4, <2>1 DEF TableKey
<1>7. /\ PlaceOf["webhookToken"] = 41 /\ PlaceOf["webhookUri"] = 42 /\ PlaceOf["statusUrl"] = 52
      /\ RowOf["webhookToken"] = Table[41] /\ RowOf["webhookUri"] = Table[42]
      /\ RowOf["statusUrl"] = Table[52]
  BY <1>5, <1>6, RowIs
<1>. QED
  BY <1>2, <1>3, <1>6, <1>7, TableIs

-----------------------------------------------------------------------------
(* A pass.                                                                  *)

LEMMA Induct ==
  ASSUME NEW S, 0 \in S, \A n \in Nat : n \in S => n + 1 \in S
  PROVE  Nat \subseteq S
<1>. SUFFICES ASSUME ~(Nat \subseteq S)
              PROVE  FALSE
  OBVIOUS
<1>1. IsWellFoundedOn(OpToRel(<, Nat), Nat)
  BY NatLessThanWellFounded
<1>2. OpToRel(<, Nat) = {p \in Nat \X Nat : p[1] < p[2]}
  BY DEF OpToRel
<1>3. PICK n \in Nat \ S : \A m \in Nat \ S : ~(<<m, n>> \in OpToRel(<, Nat))
  <2>1. Nat \ S \subseteq Nat /\ Nat \ S # {}
    OBVIOUS
  <2>. QED
    BY <1>1, <2>1, WFMin
<1>4. \A m \in Nat \ S : ~(m < n)
  BY <1>2, <1>3
<1>5. n # 0 /\ n - 1 \in Nat /\ n - 1 < n /\ n - 1 + 1 = n
  <2>1. n \in Nat /\ n # 0
    BY <1>3
  <2>. QED
    BY <2>1
<1>6. n - 1 \in S
  BY <1>4, <1>5
<1>. QED
  BY <1>3, <1>5, <1>6

\* What a key becomes depends on the keys above its own.
LEMMA AfterReads ==
  ASSUME NEW keys \in SUBSET TableKey, NEW c, NEW k \in Key, NEW f, NEW g,
         k \in keys => \A s \in keys : PlaceOf[s] < PlaceOf[k] => f[s] = g[s]
  PROVE  After(k, keys, c, f) = After(k, keys, c, g)
<1>. DEFINE Reads(h) == [s \in RowOf[k].reads |->
                           IF s \in keys /\ PlaceOf[s] < PlaceOf[k] THEN h[s] ELSE c[s]]
<1>1. k \in keys => Reads(f) = Reads(g)
  OBVIOUS
<1>2. k \in keys /\ FallsBack(k, c) =>
        /\ After(k, keys, c, f) = Fallback(RowOf[k], Reads(f))
        /\ After(k, keys, c, g) = Fallback(RowOf[k], Reads(g))
  BY DEF After
<1>3. k \notin keys => After(k, keys, c, f) = After(k, keys, c, g)
  BY DEF After
<1>4. k \in keys /\ ~FallsBack(k, c) => After(k, keys, c, f) = After(k, keys, c, g)
  BY DEF After
<1>. HIDE DEF Reads
<1>. QED
  BY <1>1, <1>2, <1>3, <1>4

\* There is such a pass: one goes down the table.
LEMMA PassExists ==
  ASSUME NEW keys \in SUBSET TableKey, NEW c
  PROVE  \E f : f = [k \in Key |-> After(k, keys, c, f)]
<1>. DEFINE Upto(n, k) == k \notin keys \/ PlaceOf[k] <= n
            Part(n, f) == [k \in Key |-> IF Upto(n, k) THEN After(k, keys, c, f) ELSE Nothing]
            S == {n \in Nat : \E h : h = Part(n, h)}
<1>0. \A k \in keys : PlaceOf[k] \in 1..Len(Table) /\ k \in Key
  BY RowIs DEF Key
<1>00. Len(Table) \in Nat
  BY TableIs
<1>1. 0 \in S
  <2>. DEFINE f == Part(0, Nothing)
  <2>1. ASSUME NEW k \in Key, Upto(0, k)
        PROVE  After(k, keys, c, Nothing) = After(k, keys, c, f)
    <3>1. k \notin keys
      BY <1>0, <1>00, <2>1
    <3>. QED
      BY <3>1 DEF After
  <2>. HIDE DEF Upto
  <2>2. f = Part(0, f)
    BY <2>1
  <2>. QED
    BY <2>2
<1>2. ASSUME NEW n \in Nat, n \in S
      PROVE  n + 1 \in S
  <2>1. PICK f : f = Part(n, f)
    BY <1>2
  <2>. DEFINE g == Part(n + 1, f)
  <2>2. ASSUME NEW s \in keys, PlaceOf[s] <= n
        PROVE  f[s] = g[s]
    <3>1. s \in Key /\ Upto(n, s) /\ Upto(n + 1, s)
      BY <1>0, <1>00, <2>2
    <3>2. f[s] = After(s, keys, c, f)
      BY <2>1, <3>1
    <3>3. g[s] = After(s, keys, c, f)
      BY <3>1
    <3>. QED
      BY <3>2, <3>3
  <2>3. ASSUME NEW k \in Key, Upto(n + 1, k)
        PROVE  After(k, keys, c, f) = After(k, keys, c, g)
    <3>1. ASSUME NEW s \in keys, k \in keys, PlaceOf[s] < PlaceOf[k]
          PROVE  f[s] = g[s]
      <4>1. PlaceOf[s] <= n
        BY <1>0, <1>00, <2>3, <3>1
      <4>. QED
        BY <2>2, <4>1
    <3>. HIDE DEF g
    <3>. QED
      BY <3>1, AfterReads
  <2>. HIDE DEF Upto
  <2>4. g = Part(n + 1, g)
    BY <2>3
  <2>. HIDE DEF Part
  <2>5. n + 1 \in Nat /\ \E h : h = Part(n + 1, h)
    BY <2>4
  <2>. QED
    BY <2>5
<1>3. Len(Table) \in S
  <2>. HIDE DEF S
  <2>1. Nat \subseteq S
    BY <1>1, <1>2, Induct
  <2>. QED
    BY <1>00, <2>1
<1>4. PICK f : f = Part(Len(Table), f)
  BY <1>3
<1>5. \A k \in Key : Upto(Len(Table), k)
  BY <1>0, <1>00
<1>. HIDE DEF Upto
<1>6. f = [k \in Key |-> After(k, keys, c, f)]
  BY <1>4, <1>5
<1>. QED
  BY <1>6

\* The function that a pass defines is a solution of its equation.
LEMMA OverrideIs ==
  ASSUME NEW keys \in SUBSET TableKey, NEW c
  PROVE  Override(keys, c) = [k \in Key |-> After(k, keys, c, Override(keys, c))]
<1>1. PICK f : f = [k \in Key |-> After(k, keys, c, f)]
  BY PassExists
<1>. DEFINE g == CHOOSE pass : pass = [k \in Key |-> After(k, keys, c, pass)]
<1>2. g = [k \in Key |-> After(k, keys, c, g)]
  BY <1>1
<1>3. Override(keys, c) = [k \in Key |-> g[k]]
  BY DEF Override
<1>. HIDE DEF g
<1>4. [k \in Key |-> g[k]] = g
  BY <1>2
<1>. QED
  BY <1>2, <1>3, <1>4

-----------------------------------------------------------------------------
(* The calls in progress.                                                   *)

Step == {"root", "main", "inline", "again", "org", "download", "extends", "return"}
Call == [reloading : BOOLEAN, at : Step]
StackOK == stack \in Seq(Call) /\ Len(stack) > 0

\* The calls in progress stay calls, whatever step the innermost goes to.
LEMMA FramesAre ==
  ASSUME StackOK, NEW st \in Step
  PROVE  /\ Frames(st) \in Seq(Call) /\ Len(Frames(st)) = Len(stack)
         /\ Frames(st)[Len(stack)].at = st
<1>. DEFINE n == Len(stack)
<1>1. stack \in Seq(Call) /\ n \in Nat /\ n > 0 /\ stack[n] \in Call
  BY DEF StackOK
<1>2. [stack[n] EXCEPT !.at = st] \in Call /\ [stack[n] EXCEPT !.at = st].at = st
  BY <1>1 DEF Call
<1>3. Frames(st) = [stack EXCEPT ![n] = [stack[n] EXCEPT !.at = st]]
  BY DEF Frames
<1>. HIDE DEF n, Frames
<1>4. \A r \in Call : /\ [stack EXCEPT ![n] = r] \in Seq(Call)
                      /\ Len([stack EXCEPT ![n] = r]) = Len(stack)
                      /\ [stack EXCEPT ![n] = r][n] = r
  BY <1>1 DEF n
<1>. QED
  BY <1>2, <1>3, <1>4 DEF n

\* The innermost call goes on.
LEMMA GoKeeps ==
  ASSUME StackOK, NEW st \in Step, Go(st)
  PROVE  StackOK' /\ Top'.at = st /\ status' = status
BY FramesAre DEF Go, StackOK, Top, Last

\* The innermost call makes another.
LEMMA ReloadKeeps ==
  ASSUME StackOK, NEW st \in Step, Reload(st)
  PROVE  StackOK' /\ Top'.at = "root" /\ status' = status
<1>. DEFINE r == [reloading |-> TRUE, at |-> "root"]
            s == Frames(st)
<1>1. s \in Seq(Call) /\ Len(s) \in Nat /\ Len(s) > 0
  BY FramesAre DEF StackOK
<1>2. r \in Call /\ r.at = "root"
  BY DEF Call, Step
<1>3. (stack' = Append(s, r) \/ stack' = Tail(Append(s, r))) /\ status' = status
  BY DEF Reload
<1>. HIDE DEF r, s
<1>4. /\ Append(s, r) \in Seq(Call) /\ Len(Append(s, r)) = Len(s) + 1
      /\ Append(s, r)[Len(s) + 1] = r
  BY <1>1, <1>2
<1>5. /\ Tail(Append(s, r)) \in Seq(Call) /\ Len(Tail(Append(s, r))) = Len(s)
      /\ Tail(Append(s, r))[Len(s)] = r
  <2>. DEFINE t == Append(s, r)
  <2>1. t \in Seq(Call) /\ Len(t) = Len(s) + 1 /\ t[Len(s) + 1] = r
    BY <1>4
  <2>. HIDE DEF t
  <2>2. t # <<>>
    BY <1>1, <2>1
  <2>3. /\ Tail(t) \in Seq(Call) /\ Len(Tail(t)) = Len(t) - 1
        /\ \A i \in 1..Len(Tail(t)) : Tail(t)[i] = t[i + 1]
    BY <2>1, <2>2, HeadTailProperties
  <2>4. Len(t) - 1 = Len(s) /\ Len(s) \in 1..Len(s)
    BY <1>1, <2>1
  <2>5. Tail(t)[Len(s)] = t[Len(s) + 1]
    BY <2>3, <2>4
  <2>. QED
    BY <2>1, <2>3, <2>4, <2>5 DEF t
<1>6. Len(s) + 1 > 0
  BY <1>1
<1>. QED
  BY <1>1, <1>2, <1>3, <1>4, <1>5, <1>6 DEF StackOK, Top, Last

\* There is always a call in progress.
LEMMA StackStays == StackOK /\ [Next]_vars => StackOK'
<1>. SUFFICES ASSUME StackOK, [Next]_vars
              PROVE  StackOK'
  OBVIOUS
<1>1. \A st \in Step : Go(st) \/ Reload(st) => StackOK'
  BY GoKeeps, ReloadKeeps
<1>2. \A st \in {"main", "inline", "again", "org", "download", "extends", "return"} :
        st \in Step
  BY DEF Step
<1>3. Fail => StackOK'
  BY DEF Fail, StackOK
<1>4. CASE Return
  <2>1. CASE Len(stack) > 1
    <3>1. stack' = SubSeq(stack, 1, Len(stack) - 1)
      BY <1>4, <2>1 DEF Return, Front
    <3>2. stack \in Seq(Call) /\ Len(stack) \in Nat
      BY DEF StackOK
    <3>3. /\ SubSeq(stack, 1, Len(stack) - 1) \in Seq(Call)
          /\ Len(SubSeq(stack, 1, Len(stack) - 1)) = Len(stack) - 1
      BY <2>1, <3>2
    <3>4. Len(stack) - 1 > 0
      BY <2>1, <3>2
    <3>. QED
      BY <3>1, <3>3, <3>4 DEF StackOK
  <2>. QED
    BY <1>4, <2>1 DEF Return, StackOK
<1>5. CASE RootPass \/ MainPass
  BY <1>1, <1>2, <1>5 DEF RootPass, MainPass
<1>6. CASE InlinePass \/ ReloadOnce \/ SkipDependencies
  BY <1>1, <1>2, <1>6 DEF InlinePass, ReloadOnce, SkipDependencies
<1>7. CASE GitOrg \/ Download \/ ExtendConfig
  BY <1>1, <1>2, <1>3, <1>7 DEF GitOrg, Download, ExtendConfig
<1>8. CASE UNCHANGED vars
  BY <1>8 DEF vars, StackOK
<1>. QED
  BY <1>4, <1>5, <1>6, <1>7, <1>8 DEF Next


-----------------------------------------------------------------------------
(* The user's word.                                                         *)

\* The keys given on the command line or in the environment that nothing is
\* to replace.
Asked == {k \in TableKey \ RootKey : k \notin InlineKeys /\ LookedUp(RowOf[k], Nothing) # Nothing}

\* What the second pass found stays, and is no default.
AskedStands ==
  \A k \in Asked :
    /\ ~isDefault[k]
    /\ \/ status = "loading" /\ Top.at \in {"root", "main"}
       \/ cfg[k] = LookedUp(RowOf[k], Nothing)

\* What an option or a variable says of a key is found first.
LEMMA AskedAreFound ==
  ASSUME NEW k \in Asked, NEW c
  PROVE  Found(k, c) = LookedUp(RowOf[k], Nothing) /\ Found(k, c) # Nothing
<1>1. RowOf[k].by # "asking"
  BY MainRow DEF Asked
<1>2. LookedUp(RowOf[k], c[k]) = LookedUp(RowOf[k], Nothing)
  BY DEF Asked, LookedUp
<1>. QED
  BY <1>1, <1>2 DEF Found, Asked

\* A pass leaves it so.
LEMMA AskedIsKept ==
  ASSUME NEW k \in Asked, ~isDefault[k], NEW keys \in SUBSET TableKey, NEW c
  PROVE  /\ ~Marked(keys, c)[k]
         /\ k \in keys => Override(keys, c)[k] = LookedUp(RowOf[k], Nothing)
         /\ k \notin keys => Override(keys, c)[k] = c[k]
<1>1. k \in Key
  BY DEF Asked, Key
<1>2. Found(k, c) = LookedUp(RowOf[k], Nothing) /\ Found(k, c) # Nothing
  BY AskedAreFound
<1>3. ~Defaulted(k, c) /\ ~FallsBack(k, c)
  BY <1>2 DEF Defaulted, FallsBack
<1>4. Override(keys, c)[k] = After(k, keys, c, Override(keys, c))
  BY <1>1, OverrideIs
<1>5. ~Marked(keys, c)[k]
  BY <1>1, <1>3 DEF Marked
<1>6. k \in keys => After(k, keys, c, Override(keys, c)) = Found(k, c)
  BY <1>3 DEF After
<1>7. k \notin keys => After(k, keys, c, Override(keys, c)) = c[k]
  BY DEF After
<1>. QED
  BY <1>2, <1>4, <1>5, <1>6, <1>7

\* Every step leaves it so.
LEMMA AskedStays == StackOK /\ AskedStands /\ [Next]_vars => AskedStands'
<1>. SUFFICES ASSUME StackOK, AskedStands, [Next]_vars, NEW k \in Asked'
              PROVE  /\ ~isDefault'[k]
                     /\ \/ status' = "loading" /\ Top'.at \in {"root", "main"}
                        \/ cfg'[k] = LookedUp(RowOf[k], Nothing)'
  BY DEF AskedStands
<1>1. given' = given
  BY DEF Next, RootPass, MainPass, InlinePass, ReloadOnce, SkipDependencies, GitOrg,
         Download, ExtendConfig, Return, scenario, vars
<1>2. /\ k \in Asked /\ k \in Key /\ k \in TableKey /\ k \notin RootKey
      /\ LookedUp(RowOf[k], Nothing)' = LookedUp(RowOf[k], Nothing)
  BY <1>1 DEF Asked, InlineKeys, LookedUp, Gives, Key
<1>3. ~isDefault[k] /\ LookedUp(RowOf[k], Nothing) # Nothing
  BY <1>2 DEF AskedStands, Asked
<1>4. At("root") \/ At("main") \/ cfg[k] = LookedUp(RowOf[k], Nothing)
  BY <1>2 DEF AskedStands, At
<1>5. CASE RootPass
  <2>1. isDefault' = Marked(RootKey, Merge("remote", cfg))
    BY <1>5 DEF RootPass
  <2>3. ~isDefault'[k]
    BY <1>2, <1>3, <2>1, RootKeysAreKeys, AskedIsKept
  <2>4. status' = "loading" /\ Top'.at = "main"
    BY <1>5, GoKeeps DEF RootPass, At, Step
  <2>. QED
    BY <2>3, <2>4
<1>6. CASE MainPass
  <2>1. PICK c : /\ cfg' = Override(TableKey \ RootKey, c)
                 /\ isDefault' = Marked(TableKey \ RootKey, c)
    BY <1>6 DEF MainPass
  <2>2. k \in TableKey \ RootKey /\ TableKey \ RootKey \in SUBSET TableKey
    BY <1>2
  <2>. QED
    BY <1>2, <1>3, <2>1, <2>2, AskedIsKept
<1>7. CASE InlinePass
  <2>1. cfg[k] = LookedUp(RowOf[k], Nothing)
    BY <1>4, <1>7 DEF InlinePass, At
  <2>2. k \notin InlineKeys
    BY <1>2 DEF Asked
  <2>3. cfg'[k] = cfg[k] /\ ~isDefault'[k]
    BY <1>2, <1>3, <1>7, <2>2 DEF InlinePass, Merge, InlineKeys
  <2>. QED
    BY <1>2, <1>3, <2>1, <2>3
<1>8. CASE GitOrg
  <2>1. cfg[k] = LookedUp(RowOf[k], Nothing)
    BY <1>4, <1>8 DEF GitOrg, At
  <2>2. cfg'[k] = cfg[k] /\ isDefault' = isDefault
    BY <1>2, <1>3, <1>8, <2>1 DEF GitOrg, FillIn
  <2>. QED
    BY <1>2, <1>3, <2>1, <2>2
<1>9. CASE ExtendConfig
  <2>1. cfg[k] = LookedUp(RowOf[k], Nothing)
    BY <1>4, <1>9 DEF ExtendConfig, At
  <2>2. k \notin Replaced
    BY <1>3, <2>1 DEF Replaced
  <2>3. cfg'[k] = cfg[k] /\ ~isDefault'[k]
    <3>1. CASE Extended \subseteq known
      BY <1>2, <1>3, <1>9, <2>2, <3>1 DEF ExtendConfig
    <3>2. CASE ~(Extended \subseteq known)
      BY <1>3, <1>9, <3>2 DEF ExtendConfig
    <3>. QED
      BY <3>1, <3>2
  <2>. QED
    BY <1>2, <1>3, <2>1, <2>3
<1>10. CASE ReloadOnce \/ SkipDependencies \/ Download \/ Return
  <2>1. cfg[k] = LookedUp(RowOf[k], Nothing)
    BY <1>4, <1>10 DEF ReloadOnce, SkipDependencies, Download, Return, At
  <2>2. cfg' = cfg /\ isDefault' = isDefault
    BY <1>10 DEF ReloadOnce, SkipDependencies, Download, Return
  <2>. QED
    BY <1>2, <1>3, <2>1, <2>2
<1>11. CASE UNCHANGED vars
  BY <1>2, <1>3, <1>4, <1>11 DEF vars, Top, At
<1>. QED
  BY <1>5, <1>6, <1>7, <1>8, <1>9, <1>10, <1>11 DEF Next

-----------------------------------------------------------------------------
(* The pod's report.                                                        *)

Git == {"gitRepositoryUrl", "gitBranch", "gitSha"}

PodGiven == \E f \in SUBSET Feature : given = CustomPodGives(f)

\* The URL is a default computed by the second pass, out of what it read.
PodReports ==
  PodGiven =>
    /\ cfg["statusUrl"] = Nothing \/ isDefault["statusUrl"]
    /\ \/ status = "loading" /\ Top.at \in {"root", "main"}
       \/ \A k \in Git : cfg["statusUrl"].from[k] = Given("workspace")

\* What such a pod is given, and by whom.
LEMMA PodLayers ==
  ASSUME PodGiven
  PROVE  /\ \A l \in {"remote", "home", "project", "option", "inline", "set", "org", "extends"},
               k \in Key : ~Gives(l, k)
         /\ Gives("env", "webhookToken") /\ Gives("env", "webhookUri")
         /\ ~Gives("env", "statusUrl") /\ ~Gives("workspace", "statusUrl")
         /\ \A k \in Git : Gives("workspace", k)
BY DEF PodGiven, CustomPodGives, PodGives, Always, Sometimes, DeployConfig, Gives, Git

\* What the pod of a deployment is given leaves statusUrl to be computed.
LEMMA PodAsked ==
  ASSUME PodGiven
  PROVE  /\ {"webhookToken", "webhookUri"} \subseteq Asked
         /\ InlineKeys = {}
         /\ \A x : LookedUp(RowOf["statusUrl"], x) = x
<1>1. /\ {"webhookToken", "webhookUri", "statusUrl"} \subseteq TableKey \ RootKey
      /\ RowOf["webhookToken"].key = "webhookToken" /\ RowOf["webhookToken"].in = Either
      /\ RowOf["webhookUri"].key = "webhookUri" /\ RowOf["webhookUri"].in = Either
      /\ RowOf["statusUrl"].key = "statusUrl" /\ RowOf["statusUrl"].in = Either
  BY StatusRows DEF Optional, Row
<1>2. {"webhookToken", "webhookUri", "statusUrl"} \subseteq Key
  BY <1>1 DEF Key
<1>3. InlineKeys = {}
  BY PodLayers DEF InlineKeys
<1>4. \A k \in {"webhookToken", "webhookUri"} : LookedUp(RowOf[k], Nothing) = Given("env")
  BY <1>1, <1>2, PodLayers DEF LookedUp, Either
<1>5. Given("env") # Nothing
  BY DEF Given, Nothing
<1>6. \A x : LookedUp(RowOf["statusUrl"], x) = x
  BY <1>1, <1>2, PodLayers DEF LookedUp
<1>. QED
  BY <1>1, <1>3, <1>4, <1>5, <1>6 DEF Asked

\* The second pass computes the URL again, out of what the file says.
LEMMA PodComputes ==
  ASSUME PodGiven, AskedStands, cfg["statusUrl"] = Nothing \/ isDefault["statusUrl"],
         NEW c, c["statusUrl"] = cfg["statusUrl"],
         \A k \in Git : c[k] = Given("workspace")
  PROVE  /\ Marked(TableKey \ RootKey, c)["statusUrl"]
         /\ \A k \in Git : Override(TableKey \ RootKey, c)["statusUrl"].from[k] = Given("workspace")
<1>. DEFINE keys == TableKey \ RootKey
            o == Override(keys, c)
            r == RowOf["statusUrl"]
<1>1. /\ r.by = "function" /\ r.needs = Served /\ r.reads = Served \union Query
      /\ ~r.keep /\ "statusUrl" \in keys /\ "statusUrl" \in Key /\ keys \in SUBSET TableKey
  <2>1. r = Optional("statusUrl", Either, Served, Query)
    BY StatusRows
  <2>. HIDE DEF r
  <2>2. /\ r.by = "function" /\ r.needs = Served /\ r.reads = Served \union Query
        /\ ~r.keep
    BY <2>1 DEF Optional, Row
  <2>. QED
    BY <2>2, StatusRows DEF Key
<1>2. Defaulted("statusUrl", c)
  <2>1. Found("statusUrl", c) = cfg["statusUrl"]
    BY <1>1, PodAsked DEF Found
  <2>. QED
    BY <1>1, <2>1 DEF Defaulted
<1>3. Marked(keys, c)["statusUrl"]
  BY <1>1, <1>2 DEF Marked
<1>4. ASSUME NEW s \in Served
      PROVE  s \in keys /\ PlaceOf[s] < PlaceOf["statusUrl"] /\ o[s] # Nothing
  <2>1. s \in Asked /\ s \in keys /\ PlaceOf[s] < PlaceOf["statusUrl"]
    BY PodAsked, StatusRows DEF Served
  <2>2. ~isDefault[s] /\ LookedUp(RowOf[s], Nothing) # Nothing
    BY <2>1 DEF AskedStands, Asked
  <2>3. o[s] = LookedUp(RowOf[s], Nothing)
    BY <1>1, <2>1, <2>2, AskedIsKept
  <2>. QED
    BY <2>1, <2>2, <2>3
<1>. DEFINE read == [s \in r.reads |->
                       IF s \in keys /\ PlaceOf[s] < PlaceOf["statusUrl"] THEN o[s] ELSE c[s]]
<1>5. o["statusUrl"] = Fallback(r, read)
  <2>1. o["statusUrl"] = After("statusUrl", keys, c, o)
    BY <1>1, OverrideIs
  <2>2. FallsBack("statusUrl", c)
    BY <1>2 DEF FallsBack
  <2>. HIDE DEF o
  <2>. QED
    BY <1>1, <2>1, <2>2 DEF After
<1>6. \A s \in Served : read[s] # Nothing
  BY <1>1, <1>4
<1>7. ASSUME NEW k \in Git
      PROVE  k \in r.reads /\ read[k] = Given("workspace")
  <2>1. k \in RootKey /\ k \in Query
    BY StatusRows DEF Git, Query
  <2>. QED
    BY <1>1, <2>1
<1>. HIDE DEF o, read, r
<1>8. Fallback(r, read) = [by |-> "fallback", from |-> [s \in r.reads |-> read[s]]]
  BY <1>1, <1>6 DEF Fallback
<1>9. \A k \in Git : o["statusUrl"].from[k] = Given("workspace")
  BY <1>5, <1>7, <1>8
<1>. QED
  BY <1>3, <1>9 DEF o

\* Every step leaves the url of the status as the file says.
LEMMA PodStays == StackOK /\ AskedStands /\ PodReports /\ [Next]_vars => PodReports'
<1>. SUFFICES ASSUME StackOK, AskedStands, PodReports, [Next]_vars, PodGiven'
              PROVE  /\ cfg'["statusUrl"] = Nothing \/ isDefault'["statusUrl"]
                     /\ \/ status' = "loading" /\ Top'.at \in {"root", "main"}
                        \/ \A k \in Git : cfg'["statusUrl"].from[k] = Given("workspace")
  BY DEF PodReports
<1>1. given' = given
  BY DEF Next, RootPass, MainPass, InlinePass, ReloadOnce, SkipDependencies, GitOrg,
         Download, ExtendConfig, Return, scenario, vars
<1>2. PodGiven
  BY <1>1 DEF PodGiven
<1>3. cfg["statusUrl"] = Nothing \/ isDefault["statusUrl"]
  BY <1>2 DEF PodReports
<1>4. At("root") \/ At("main") \/ \A k \in Git : cfg["statusUrl"].from[k] = Given("workspace")
  BY <1>2 DEF PodReports, At
<1>5. /\ "statusUrl" \in Key /\ "statusUrl" \notin RootKey /\ "statusUrl" \in TableKey
      /\ Git \subseteq RootKey /\ RootKey \in SUBSET TableKey /\ Git \subseteq Key
  BY RootKeysAreKeys, StatusRows DEF Key, Git
<1>6. CASE RootPass
  <2>1. PICK c : /\ c = Merge("remote", cfg) /\ cfg' = Override(RootKey, c)
                 /\ isDefault' = Marked(RootKey, c)
    BY <1>6 DEF RootPass
  <2>2. cfg'["statusUrl"] = cfg["statusUrl"]
    <3>1. c["statusUrl"] = cfg["statusUrl"]
      BY <1>2, <1>5, <2>1, PodLayers DEF Merge
    <3>2. Override(RootKey, c)["statusUrl"] = After("statusUrl", RootKey, c, Override(RootKey, c))
      BY <1>5, OverrideIs
    <3>3. After("statusUrl", RootKey, c, Override(RootKey, c)) = c["statusUrl"]
      BY <1>5 DEF After
    <3>. QED
      BY <2>1, <3>1, <3>2, <3>3
  <2>3. isDefault["statusUrl"] => isDefault'["statusUrl"]
    BY <1>5, <2>1 DEF Marked
  <2>4. status' = "loading" /\ Top'.at = "main"
    BY <1>6, GoKeeps DEF RootPass, At, Step
  <2>. QED
    BY <1>3, <2>2, <2>3, <2>4
<1>7. CASE MainPass
  <2>1. PICK c : /\ c = WithProject(Merge("workspace", Merge("home", cfg)))
                 /\ cfg' = Override(TableKey \ RootKey, c)
                 /\ isDefault' = Marked(TableKey \ RootKey, c)
    BY <1>7 DEF MainPass
  <2>2. ASSUME NEW k \in Key
        PROVE  c[k] = IF Gives("workspace", k) THEN Given("workspace") ELSE cfg[k]
    BY <1>2, <2>1, PodLayers DEF WithProject, Merge
  <2>3. c["statusUrl"] = cfg["statusUrl"] /\ \A k \in Git : c[k] = Given("workspace")
    BY <1>2, <1>5, <2>2, PodLayers
  <2>. QED
    BY <1>2, <1>3, <2>1, <2>3, PodComputes
<1>8. CASE InlinePass
  <2>1. cfg'["statusUrl"] = cfg["statusUrl"]
    BY <1>2, <1>5, <1>8, PodLayers DEF InlinePass, Merge
  <2>2. isDefault["statusUrl"] => isDefault'["statusUrl"]
    BY <1>5, <1>8 DEF InlinePass
  <2>. QED
    BY <1>3, <1>4, <1>8, <2>1, <2>2 DEF InlinePass, At
<1>9. CASE GitOrg
  <2>1. cfg'["statusUrl"] = cfg["statusUrl"] /\ isDefault' = isDefault
    BY <1>2, <1>5, <1>9, PodLayers DEF GitOrg, FillIn
  <2>. QED
    BY <1>3, <1>4, <1>9, <2>1 DEF GitOrg, At
<1>10. CASE ExtendConfig
  <2>1. Extended = {} /\ Replaced = {}
    BY <1>2, PodLayers DEF Extended, Replaced
  <2>2. cfg'["statusUrl"] = cfg["statusUrl"] /\ isDefault["statusUrl"] => isDefault'["statusUrl"]
    BY <1>5, <1>10, <2>1 DEF ExtendConfig
  <2>3. cfg'["statusUrl"] = cfg["statusUrl"]
    BY <1>5, <1>10, <2>1 DEF ExtendConfig
  <2>. QED
    BY <1>3, <1>4, <1>10, <2>2, <2>3 DEF ExtendConfig, At
<1>11. CASE ReloadOnce \/ SkipDependencies \/ Download \/ Return
  <2>1. cfg' = cfg /\ isDefault' = isDefault
    BY <1>11 DEF ReloadOnce, SkipDependencies, Download, Return
  <2>2. ~At("root") /\ ~At("main")
    BY <1>11 DEF ReloadOnce, SkipDependencies, Download, Return, At
  <2>. QED
    BY <1>3, <1>4, <2>1, <2>2
<1>12. CASE UNCHANGED vars
  BY <1>3, <1>4, <1>12 DEF vars, Top, At
<1>. QED
  BY <1>6, <1>7, <1>8, <1>9, <1>10, <1>11, <1>12 DEF Next

-----------------------------------------------------------------------------
\* The inductive invariant of loading.
LEMMA LoadStarts == Init => StackOK /\ AskedStands /\ PodReports
<1>. SUFFICES ASSUME Init
              PROVE  StackOK /\ AskedStands /\ PodReports
  OBVIOUS
<1>. DEFINE r == [reloading |-> FALSE, at |-> "root"]
<1>1. r \in Call /\ r.at = "root" /\ stack = <<r>> /\ status = "loading"
  BY DEF Init, Call, Step
<1>. HIDE DEF r
<1>2. StackOK /\ Top.at = "root"
  BY <1>1 DEF StackOK, Top, Last
<1>3. Asked \subseteq Key /\ "statusUrl" \in Key
  BY StatusRows DEF Asked, Key
<1>4. (\A k \in Asked : ~isDefault[k]) /\ cfg["statusUrl"] = Nothing
  BY <1>3 DEF Init
<1>. QED
  BY <1>1, <1>2, <1>4 DEF AskedStands, PodReports

\* The invariant of a load: its calls, what is asked, what a pod reports.
LEMMA LoadInvariant == Spec => [](StackOK /\ AskedStands /\ PodReports)
BY LoadStarts, StackStays, AskedStays, PodStays, PTL DEF Spec

\* Whatever is given together, an option or a variable of the second table is
\* what the program uses (load-structured-config.js:45-121).
THEOREM TheUsersWord == Spec => []UserHasTheLastWord
<1>1. AskedStands => UserHasTheLastWord
  BY DEF AskedStands, Asked, UserHasTheLastWord
<1>. QED
  BY <1>1, LoadInvariant, PTL

\* Every Job of custom manifests, whatever its features and whatever else is
\* loaded, reports to the client that asked for it.
THEOREM PodsReport == Spec => []PodReportsToItsClient
<1>1. PodReports => PodReportsToItsClient
  BY DEF PodReports, PodGiven, PodReportsToItsClient, Git
<1>. QED
  BY <1>1, LoadInvariant, PTL

-----------------------------------------------------------------------------
(* What the rows read.                                                      *)

\* What the recomputation of a default relies on: a row needs no more than it
\* reads, and "chart" and "projectName" are looked up only.
Usual(r) ==
  /\ r.by \in {"none", "value", "function", "asking", "shape"}
  /\ r.needs \in SUBSET r.reads
  /\ r.key \in {"chart", "projectName"} => r.by = "none"

LEMMA RowsAreUsual == \A r \in AnyRow : Usual(r)
<1>1. \A i \in 1..6 : Usual(WorkspaceKeys[i])
  BY DEF WorkspaceKeys, Lookup, Computed, Constant, Row, Usual
<1>2. \A i \in 1..12 : Usual(GitKeys[i])
  BY DEF GitKeys, Lookup, Computed, Asking, Row, Usual
<1>3. \A i \in 1..3 : Usual(PipelineKeys[i])
  BY DEF PipelineKeys, Computed, Constant, Row, Usual
<1>4. \A i \in 1..11 : Usual(BuildKeys[i])
  BY DEF BuildKeys, Lookup, Computed, Constant, Shaped, Row, Usual
<1>5. \A i \in 1..8 : Usual(LabelKeys[i])
  BY DEF LabelKeys, Lookup, Computed, Constant, Shaped, Row, Usual
<1>6. \A i \in 1..12 : Usual(WebhookKeys[i])
  BY DEF WebhookKeys, Lookup, Constant, Optional, Row, Usual
<1>7. \A i \in 1..9 : Usual(ClusterKeys[i])
  BY DEF ClusterKeys, Lookup, Computed, Optional, Shaped, Row, Usual
<1>8. \A i \in 1..4 : Usual(LinkKeys[i])
  BY DEF LinkKeys, Lookup, Constant, Shaped, Row, Usual
<1>9. \A i \in 1..8 : Usual(SecretKeys[i])
  BY DEF SecretKeys, Lookup, Computed, Constant, Optional, Row, Usual
<1>10. \A i \in 1..4 : Usual(DiffKeys[i])
  BY DEF DiffKeys, Computed, Row, Usual
<1>11. \A i \in 1..10 : Usual(RunKeys[i])
  BY DEF RunKeys, Lookup, Computed, Constant, Row, Usual
<1>12. \A i \in 1..6 : Usual(OrgKeys[i])
  BY DEF OrgKeys, Lookup, Constant, Row, Usual
<1>. QED
  BY <1>1, <1>2, <1>3, <1>4, <1>5, <1>6, <1>7, <1>8, <1>9, <1>10, <1>11, <1>12
     DEF AnyRow, RowsOf

RowKeys(t) == {t[i].key : i \in 1..Len(t)}
RowReads(t) == UNION {t[i].reads : i \in 1..Len(t)}

\* A table is in order when its rows read none of its keys but those above.
InOrder(t) == \A i, j \in 1..Len(t) : t[j].key \in t[i].reads => j < i

\* A table in order, of rows, with the keys in K and the reads within R.
Ordered(t, K, R) ==
  t \in Seq(AnyRow) /\ InOrder(t) /\ K \subseteq RowKeys(t) /\ RowReads(t) \subseteq R

\* A table without what the tables above it read.
Apart(t, R) == RowKeys(t) \cap R = {}

LEMMA OrderedJoin ==
  ASSUME NEW s, NEW K1, NEW R1, Ordered(s, K1, R1),
         NEW t, NEW K2, NEW R2, Ordered(t, K2, R2),
         Apart(t, R1)
  PROVE  Ordered(s \o t, K1 \union K2, R1 \union R2) /\ RowKeys(s \o t) = RowKeys(s) \union RowKeys(t)
<1>. DEFINE u == s \o t
<1>1. /\ s \in Seq(AnyRow) /\ t \in Seq(AnyRow) /\ Len(s) \in Nat /\ Len(t) \in Nat
      /\ InOrder(s) /\ InOrder(t) /\ K1 \subseteq RowKeys(s) /\ K2 \subseteq RowKeys(t)
      /\ RowReads(s) \subseteq R1 /\ RowReads(t) \subseteq R2
  BY DEF Ordered
<1>2. /\ u \in Seq(AnyRow) /\ Len(u) = Len(s) + Len(t)
      /\ \A i \in 1..Len(s) : u[i] = s[i]
      /\ \A i \in 1..Len(t) : u[Len(s) + i] = t[i]
  BY <1>1, Joined
<1>. HIDE DEF u
<1>3. ASSUME NEW i \in 1..Len(u)
      PROVE  \/ i \in 1..Len(s) /\ u[i] = s[i]
             \/ i > Len(s) /\ i - Len(s) \in 1..Len(t) /\ u[i] = t[i - Len(s)]
  <2>1. CASE i \in 1..Len(s)
    BY <1>2, <2>1
  <2>2. CASE i \notin 1..Len(s)
    <3>1. i > Len(s) /\ i - Len(s) \in 1..Len(t) /\ Len(s) + (i - Len(s)) = i
      BY <1>1, <1>2, <2>2
    <3>. QED
      BY <1>2, <3>1
  <2>. QED
    BY <2>1, <2>2
<1>4. InOrder(u)
  <2>. SUFFICES ASSUME NEW i \in 1..Len(u), NEW j \in 1..Len(u), u[j].key \in u[i].reads
                PROVE  j < i
    BY DEF InOrder
  <2>1. \A n \in 1..Len(s) : s[n].reads \subseteq R1
    BY <1>1 DEF RowReads
  <2>2. \A n \in 1..Len(t) : t[n].key \notin R1
    BY DEF Apart, RowKeys
  <2>3. CASE i \in 1..Len(s) /\ u[i] = s[i]
    <3>1. j \in 1..Len(s) /\ u[j] = s[j]
      BY <1>3, <2>1, <2>2, <2>3
    <3>. QED
      BY <1>1, <2>3, <3>1 DEF InOrder
  <2>4. CASE i > Len(s) /\ i - Len(s) \in 1..Len(t) /\ u[i] = t[i - Len(s)]
    <3>1. CASE j > Len(s) /\ j - Len(s) \in 1..Len(t) /\ u[j] = t[j - Len(s)]
      <4>1. j - Len(s) < i - Len(s)
        BY <1>1, <2>4, <3>1 DEF InOrder
      <4>. QED
        BY <1>1, <4>1
    <3>2. CASE j \in 1..Len(s)
      BY <1>1, <2>4, <3>2
    <3>. QED
      BY <1>3, <3>1, <3>2
  <2>. QED
    BY <1>3, <2>3, <2>4
<1>5. \A i \in 1..Len(s) : i \in 1..Len(u) /\ u[i] = s[i]
  BY <1>1, <1>2
<1>6. \A i \in 1..Len(t) : Len(s) + i \in 1..Len(u) /\ u[Len(s) + i] = t[i]
  BY <1>1, <1>2
<1>7. RowKeys(u) = RowKeys(s) \union RowKeys(t)
  BY <1>3, <1>5, <1>6 DEF RowKeys
<1>8. RowReads(u) \subseteq RowReads(s) \union RowReads(t)
  BY <1>3 DEF RowReads
<1>. QED
  BY <1>1, <1>2, <1>4, <1>7, <1>8 DEF Ordered, u

WorkspaceNames == {"workspacePath", "workspaceSubPath", "actionCommandName"}
GitNames == {"git", "gitRepositoryUrl", "gitRepository", "gitDefaultBranch", "gitSha",
             "gitBranchRetrieveDefaultFromRemote", "gitBranch", "gitRepositoryName",
             "repositoryName"}
PipelineNames == {"deploymentLabelForceNewDeploy", "pipelineId"}
RootNames == WorkspaceNames \union GitNames \union PipelineNames

\* The sections of the first table,
LEMMA WorkspaceOrdered == Ordered(WorkspaceKeys, WorkspaceNames, WorkspaceNames)
<1>1. Len(WorkspaceKeys) = 6 /\ WorkspaceKeys \in Seq(AnyRow)
  BY WorkspaceKeysAre
<1>2. \A i, j \in 1..6 : WorkspaceKeys[j].key \in WorkspaceKeys[i].reads => j < i
  BY DEF WorkspaceKeys, Lookup, Computed, Constant, Row
<1>3. \A i \in 1..6 : WorkspaceKeys[i].reads \subseteq WorkspaceNames
  BY DEF WorkspaceKeys, Lookup, Computed, Constant, Row, WorkspaceNames
<1>4. \A s \in WorkspaceNames : \E i \in 1..6 : WorkspaceKeys[i].key = s
  <2>1. /\ WorkspaceKeys[4].key = "workspacePath" /\ WorkspaceKeys[5].key = "workspaceSubPath"
        /\ WorkspaceKeys[1].key = "actionCommandName"
    BY DEF WorkspaceKeys, Lookup, Computed, Constant, Row
  <2>. QED
    BY <2>1 DEF WorkspaceNames
<1>. QED
  BY <1>1, <1>2, <1>3, <1>4 DEF Ordered, InOrder, RowKeys, RowReads

LEMMA GitOrdered == Ordered(GitKeys, GitNames, WorkspaceNames \union GitNames)
<1>1. Len(GitKeys) = 12 /\ GitKeys \in Seq(AnyRow)
  BY GitKeysAre
<1>2. \A i, j \in 1..12 : GitKeys[j].key \in GitKeys[i].reads => j < i
  BY DEF GitKeys, Lookup, Computed, Asking, Row
<1>3. \A i \in 1..12 : GitKeys[i].reads \subseteq WorkspaceNames \union GitNames
  BY DEF GitKeys, Lookup, Computed, Asking, Row, WorkspaceNames, GitNames
<1>4. \A s \in GitNames : \E i \in 1..12 : GitKeys[i].key = s
  <2>1. /\ GitKeys[1].key = "git" /\ GitKeys[4].key = "gitRepositoryUrl"
        /\ GitKeys[5].key = "gitRepository" /\ GitKeys[6].key = "gitDefaultBranch"
        /\ GitKeys[7].key = "gitBranchRetrieveDefaultFromRemote"
        /\ GitKeys[8].key = "gitBranch" /\ GitKeys[10].key = "gitSha"
        /\ GitKeys[11].key = "gitRepositoryName" /\ GitKeys[12].key = "repositoryName"
    BY DEF GitKeys, Lookup, Computed, Asking, Row
  <2>. QED
    BY <2>1 DEF GitNames
<1>. QED
  BY <1>1, <1>2, <1>3, <1>4 DEF Ordered, InOrder, RowKeys, RowReads

LEMMA PipelineOrdered == Ordered(PipelineKeys, PipelineNames, RootNames \union {"chart"})
<1>1. Len(PipelineKeys) = 3 /\ PipelineKeys \in Seq(AnyRow)
  BY PipelineKeysAre
<1>2. \A i, j \in 1..3 : PipelineKeys[j].key \in PipelineKeys[i].reads => j < i
  BY DEF PipelineKeys, Computed, Constant, Row
<1>3. \A i \in 1..3 : PipelineKeys[i].reads \subseteq RootNames \union {"chart"}
  BY DEF PipelineKeys, Computed, Constant, Row, RootNames, GitNames, PipelineNames
<1>4. \A s \in PipelineNames : \E i \in 1..3 : PipelineKeys[i].key = s
  <2>1. /\ PipelineKeys[1].key = "deploymentLabelForceNewDeploy"
        /\ PipelineKeys[2].key = "pipelineId"
    BY DEF PipelineKeys, Computed, Constant, Row
  <2>. QED
    BY <2>1 DEF PipelineNames
<1>. QED
  BY <1>1, <1>2, <1>3, <1>4 DEF Ordered, InOrder, RowKeys, RowReads

\* The keys of each section of the second table that rows read, and what its
\* own rows read.
BuildNames == {"chart", "buildRootPath", "buildPath"}
BuildReads ==
  {"buildRootPath", "buildPath"}
LabelNames == {"environmentPatterns", "environment", "projectName"}
LabelReads ==
  {"gitBranch", "environmentPatterns", "repositoryName", "chart",
   "environment"}
WebhookNames == {"webhookToken", "webhookUri"}
WebhookReads ==
  {"webhook", "webhookToken", "webhookUri", "projectName",
   "gitRepositoryUrl", "gitBranch", "gitSha"}
ClusterNames == {"ci", "clusterEnvironments", "ciNamespaceDefaultFallback"}
ClusterReads ==
  {"ci", "environment", "clusterEnvironments",
   "ciNamespaceDefaultFallback", "projectName", "repositoryName"}
SecretNames == {"private", "deployKeyFile"}
SecretReads ==
  {"private"}
DiffNames == {"gitDiffEnabled", "gitDiffBranch", "gitDiffCommits"}
DiffReads ==
  {"actionCommandName", "gitBranch", "gitDiffEnabled",
   "workspacePath", "gitRepositoryUrl", "deployKeyFile",
   "gitDiffBranch", "gitDiffCommits"}
RunNames == {"sentryDSN"}
RunReads ==
  {"sentryDSN"}

\* The keys of the first table.
FirstKeys ==
  RootNames \union
  {"debug", "kontinuousHomeDir", "workspaceKsPath", "gitDisableWarning", "gitRequired",
   "gitBranchSlug32", "deploymentLabelValue"}

\* A table in order that has none of these.
Second(t, K, R) == Ordered(t, K, R) /\ RowKeys(t) \cap FirstKeys = {}

LEMMA SecondJoin ==
  ASSUME NEW s, NEW K1, NEW R1, Second(s, K1, R1),
         NEW t, NEW K2, NEW R2, Second(t, K2, R2),
         Apart(t, R1)
  PROVE  Second(s \o t, K1 \union K2, R1 \union R2)
<1>1. Ordered(s, K1, R1)
  BY DEF Second
<1>2. Ordered(t, K2, R2)
  BY DEF Second
<1>3. /\ Ordered(s \o t, K1 \union K2, R1 \union R2)
      /\ RowKeys(s \o t) = RowKeys(s) \union RowKeys(t)
  BY <1>1, <1>2, OrderedJoin
<1>. QED
  BY <1>3 DEF Second

\* The sections of the second table: none has a key that those before it read.
LEMMA BuildOrdered ==
  /\ Second(BuildKeys, BuildNames, BuildReads)
<1>1. Len(BuildKeys) = 11 /\ BuildKeys \in Seq(AnyRow)
  BY BuildKeysAre
<1>2. \A i, j \in 1..11 : BuildKeys[j].key \in BuildKeys[i].reads => j < i
  BY DEF BuildKeys, Lookup, Computed, Constant, Shaped, Row
<1>3. \A i \in 1..11 : BuildKeys[i].reads \subseteq BuildReads
  BY DEF BuildKeys, Lookup, Computed, Constant, Shaped, Row, BuildReads
<1>4. \A i \in 1..11 : BuildKeys[i].key \notin FirstKeys
  BY DEF BuildKeys, Lookup, Computed, Constant, Shaped, Row,
     FirstKeys, RootNames, WorkspaceNames, GitNames, PipelineNames
<1>6. \A s \in BuildNames : \E i \in 1..11 : BuildKeys[i].key = s
  <2>1. /\ BuildKeys[3].key = "chart"
        /\ BuildKeys[9].key = "buildRootPath"
        /\ BuildKeys[10].key = "buildPath"
    BY DEF BuildKeys, Lookup, Computed, Constant, Shaped, Row
  <2>. QED
    BY <2>1 DEF BuildNames
<1>. QED
  BY <1>1, <1>2, <1>3, <1>4, <1>6 DEF Second, Apart, Ordered, InOrder, RowKeys, RowReads

LEMMA LabelOrdered ==
  /\ Second(LabelKeys, LabelNames, LabelReads)
  /\ Apart(LabelKeys, BuildReads)
<1>1. Len(LabelKeys) = 8 /\ LabelKeys \in Seq(AnyRow)
  BY LabelKeysAre
<1>2. \A i, j \in 1..8 : LabelKeys[j].key \in LabelKeys[i].reads => j < i
  BY DEF LabelKeys, Lookup, Computed, Constant, Shaped, Row
<1>3. \A i \in 1..8 : LabelKeys[i].reads \subseteq LabelReads
  BY DEF LabelKeys, Lookup, Computed, Constant, Shaped, Row, LabelReads
<1>4. \A i \in 1..8 : LabelKeys[i].key \notin FirstKeys
  BY DEF LabelKeys, Lookup, Computed, Constant, Shaped, Row,
     FirstKeys, RootNames, WorkspaceNames, GitNames, PipelineNames
<1>5. \A i \in 1..8 :
        LabelKeys[i].key \notin
          BuildReads
  BY DEF LabelKeys, Lookup, Computed, Constant, Shaped, Row,
     BuildReads
<1>6. \A s \in LabelNames : \E i \in 1..8 : LabelKeys[i].key = s
  <2>1. /\ LabelKeys[1].key = "environmentPatterns"
        /\ LabelKeys[2].key = "environment"
        /\ LabelKeys[3].key = "projectName"
    BY DEF LabelKeys, Lookup, Computed, Constant, Shaped, Row
  <2>. QED
    BY <2>1 DEF LabelNames
<1>. QED
  BY <1>1, <1>2, <1>3, <1>4, <1>5, <1>6 DEF Second, Apart, Ordered, InOrder, RowKeys, RowReads

LEMMA WebhookOrdered ==
  /\ Second(WebhookKeys, WebhookNames, WebhookReads)
  /\ Apart(WebhookKeys, BuildReads \union LabelReads)
<1>1. Len(WebhookKeys) = 12 /\ WebhookKeys \in Seq(AnyRow)
  BY WebhookKeysAre
<1>2. \A i, j \in 1..12 : WebhookKeys[j].key \in WebhookKeys[i].reads => j < i
  BY DEF WebhookKeys, Lookup, Constant, Optional, Served, Query, Row
<1>3. \A i \in 1..12 : WebhookKeys[i].reads \subseteq WebhookReads
  BY DEF WebhookKeys, Lookup, Constant, Optional, Served, Query, Row, WebhookReads
<1>4. \A i \in 1..12 : WebhookKeys[i].key \notin FirstKeys
  BY DEF WebhookKeys, Lookup, Constant, Optional, Served, Query, Row,
     FirstKeys, RootNames, WorkspaceNames, GitNames, PipelineNames
<1>5. \A i \in 1..12 :
        WebhookKeys[i].key \notin
          BuildReads \union LabelReads
  BY DEF WebhookKeys, Lookup, Constant, Optional, Served, Query, Row,
     BuildReads, LabelReads
<1>6. \A s \in WebhookNames : \E i \in 1..12 : WebhookKeys[i].key = s
  <2>1. /\ WebhookKeys[1].key = "webhookToken"
        /\ WebhookKeys[2].key = "webhookUri"
    BY DEF WebhookKeys, Lookup, Constant, Optional, Served, Query, Row
  <2>. QED
    BY <2>1 DEF WebhookNames
<1>. QED
  BY <1>1, <1>2, <1>3, <1>4, <1>5, <1>6 DEF Second, Apart, Ordered, InOrder, RowKeys, RowReads

LEMMA ClusterOrdered ==
  /\ Second(ClusterKeys, ClusterNames, ClusterReads)
  /\ Apart(ClusterKeys, BuildReads \union LabelReads \union WebhookReads)
<1>1. Len(ClusterKeys) = 9 /\ ClusterKeys \in Seq(AnyRow)
  BY ClusterKeysAre
<1>2. \A i, j \in 1..9 : ClusterKeys[j].key \in ClusterKeys[i].reads => j < i
  BY DEF ClusterKeys, Lookup, Computed, Optional, Shaped, Row
<1>3. \A i \in 1..9 : ClusterKeys[i].reads \subseteq ClusterReads
  BY DEF ClusterKeys, Lookup, Computed, Optional, Shaped, Row, ClusterReads
<1>4. \A i \in 1..9 : ClusterKeys[i].key \notin FirstKeys
  BY DEF ClusterKeys, Lookup, Computed, Optional, Shaped, Row,
     FirstKeys, RootNames, WorkspaceNames, GitNames, PipelineNames
<1>5. \A i \in 1..9 :
        ClusterKeys[i].key \notin
          BuildReads \union LabelReads \union WebhookReads
  BY DEF ClusterKeys, Lookup, Computed, Optional, Shaped, Row,
     BuildReads, LabelReads, WebhookReads
<1>6. \A s \in ClusterNames : \E i \in 1..9 : ClusterKeys[i].key = s
  <2>1. /\ ClusterKeys[1].key = "ci"
        /\ ClusterKeys[4].key = "clusterEnvironments"
        /\ ClusterKeys[8].key = "ciNamespaceDefaultFallback"
    BY DEF ClusterKeys, Lookup, Computed, Optional, Shaped, Row
  <2>. QED
    BY <2>1 DEF ClusterNames
<1>. QED
  BY <1>1, <1>2, <1>3, <1>4, <1>5, <1>6 DEF Second, Apart, Ordered, InOrder, RowKeys, RowReads

LEMMA LinkOrdered ==
  /\ Second(LinkKeys, {}, {})
  /\ Apart(LinkKeys, BuildReads \union LabelReads \union WebhookReads
                     \union ClusterReads)
<1>1. Len(LinkKeys) = 4 /\ LinkKeys \in Seq(AnyRow)
  BY LinkKeysAre
<1>2. \A i, j \in 1..4 : LinkKeys[j].key \in LinkKeys[i].reads => j < i
  BY DEF LinkKeys, Lookup, Constant, Shaped, Row
<1>3. \A i \in 1..4 : LinkKeys[i].reads \subseteq {}
  BY DEF LinkKeys, Lookup, Constant, Shaped, Row
<1>4. \A i \in 1..4 : LinkKeys[i].key \notin FirstKeys
  BY DEF LinkKeys, Lookup, Constant, Shaped, Row,
     FirstKeys, RootNames, WorkspaceNames, GitNames, PipelineNames
<1>5. \A i \in 1..4 :
        LinkKeys[i].key \notin
          BuildReads \union LabelReads \union WebhookReads \union ClusterReads
  BY DEF LinkKeys, Lookup, Constant, Shaped, Row,
     BuildReads, LabelReads, WebhookReads, ClusterReads
<1>. QED
  BY <1>1, <1>2, <1>3, <1>4, <1>5 DEF Second, Apart, Ordered, InOrder, RowKeys, RowReads

LEMMA SecretOrdered ==
  /\ Second(SecretKeys, SecretNames, SecretReads)
  /\ Apart(SecretKeys, BuildReads \union LabelReads \union WebhookReads
                     \union ClusterReads)
<1>1. Len(SecretKeys) = 8 /\ SecretKeys \in Seq(AnyRow)
  BY SecretKeysAre
<1>2. \A i, j \in 1..8 : SecretKeys[j].key \in SecretKeys[i].reads => j < i
  BY DEF SecretKeys, Lookup, Computed, Constant, Optional, Row
<1>3. \A i \in 1..8 : SecretKeys[i].reads \subseteq SecretReads
  BY DEF SecretKeys, Lookup, Computed, Constant, Optional, Row, SecretReads
<1>4. \A i \in 1..8 : SecretKeys[i].key \notin FirstKeys
  BY DEF SecretKeys, Lookup, Computed, Constant, Optional, Row,
     FirstKeys, RootNames, WorkspaceNames, GitNames, PipelineNames
<1>5. \A i \in 1..8 :
        SecretKeys[i].key \notin
          BuildReads \union LabelReads \union WebhookReads \union ClusterReads
  BY DEF SecretKeys, Lookup, Computed, Constant, Optional, Row,
     BuildReads, LabelReads, WebhookReads, ClusterReads
<1>6. \A s \in SecretNames : \E i \in 1..8 : SecretKeys[i].key = s
  <2>1. /\ SecretKeys[1].key = "private"
        /\ SecretKeys[2].key = "deployKeyFile"
    BY DEF SecretKeys, Lookup, Computed, Constant, Optional, Row
  <2>. QED
    BY <2>1 DEF SecretNames
<1>. QED
  BY <1>1, <1>2, <1>3, <1>4, <1>5, <1>6 DEF Second, Apart, Ordered, InOrder, RowKeys, RowReads

LEMMA DiffOrdered ==
  /\ Second(DiffKeys, DiffNames, DiffReads)
  /\ Apart(DiffKeys, BuildReads \union LabelReads \union WebhookReads
                     \union ClusterReads \union SecretReads)
<1>1. Len(DiffKeys) = 4 /\ DiffKeys \in Seq(AnyRow)
  BY DiffKeysAre
<1>2. \A i, j \in 1..4 : DiffKeys[j].key \in DiffKeys[i].reads => j < i
  BY DEF DiffKeys, Computed, Row
<1>3. \A i \in 1..4 : DiffKeys[i].reads \subseteq DiffReads
  BY DEF DiffKeys, Computed, Row, DiffReads
<1>4. \A i \in 1..4 : DiffKeys[i].key \notin FirstKeys
  BY DEF DiffKeys, Computed, Row,
     FirstKeys, RootNames, WorkspaceNames, GitNames, PipelineNames
<1>5. \A i \in 1..4 :
        DiffKeys[i].key \notin
          BuildReads \union LabelReads \union WebhookReads \union ClusterReads
          \union SecretReads
  BY DEF DiffKeys, Computed, Row,
     BuildReads, LabelReads, WebhookReads, ClusterReads, SecretReads
<1>6. \A s \in DiffNames : \E i \in 1..4 : DiffKeys[i].key = s
  <2>1. /\ DiffKeys[1].key = "gitDiffEnabled"
        /\ DiffKeys[2].key = "gitDiffBranch"
        /\ DiffKeys[3].key = "gitDiffCommits"
    BY DEF DiffKeys, Computed, Row
  <2>. QED
    BY <2>1 DEF DiffNames
<1>. QED
  BY <1>1, <1>2, <1>3, <1>4, <1>5, <1>6 DEF Second, Apart, Ordered, InOrder, RowKeys, RowReads

LEMMA RunOrdered ==
  /\ Second(RunKeys, RunNames, RunReads)
  /\ Apart(RunKeys, BuildReads \union LabelReads \union WebhookReads
                     \union ClusterReads \union SecretReads \union DiffReads)
<1>1. Len(RunKeys) = 10 /\ RunKeys \in Seq(AnyRow)
  BY RunKeysAre
<1>2. \A i, j \in 1..10 : RunKeys[j].key \in RunKeys[i].reads => j < i
  BY DEF RunKeys, Lookup, Computed, Constant, Row
<1>3. \A i \in 1..10 : RunKeys[i].reads \subseteq RunReads
  BY DEF RunKeys, Lookup, Computed, Constant, Row, RunReads
<1>4. \A i \in 1..10 : RunKeys[i].key \notin FirstKeys
  BY DEF RunKeys, Lookup, Computed, Constant, Row,
     FirstKeys, RootNames, WorkspaceNames, GitNames, PipelineNames
<1>5. \A i \in 1..10 :
        RunKeys[i].key \notin
          BuildReads \union LabelReads \union WebhookReads \union ClusterReads
          \union SecretReads \union DiffReads
  BY DEF RunKeys, Lookup, Computed, Constant, Row,
     BuildReads, LabelReads, WebhookReads, ClusterReads, SecretReads, DiffReads
<1>6. \A s \in RunNames : \E i \in 1..10 : RunKeys[i].key = s
  <2>1. /\ RunKeys[7].key = "sentryDSN"
    BY DEF RunKeys, Lookup, Computed, Constant, Row
  <2>. QED
    BY <2>1 DEF RunNames
<1>. QED
  BY <1>1, <1>2, <1>3, <1>4, <1>5, <1>6 DEF Second, Apart, Ordered, InOrder, RowKeys, RowReads

LEMMA OrgOrdered ==
  /\ Second(OrgKeys, {}, {})
  /\ Apart(OrgKeys, BuildReads \union LabelReads \union WebhookReads
                     \union ClusterReads \union SecretReads \union DiffReads
                     \union RunReads)
<1>1. Len(OrgKeys) = 6 /\ OrgKeys \in Seq(AnyRow)
  BY OrgKeysAre
<1>2. \A i, j \in 1..6 : OrgKeys[j].key \in OrgKeys[i].reads => j < i
  BY DEF OrgKeys, Lookup, Constant, Row
<1>3. \A i \in 1..6 : OrgKeys[i].reads \subseteq {}
  BY DEF OrgKeys, Lookup, Constant, Row
<1>4. \A i \in 1..6 : OrgKeys[i].key \notin FirstKeys
  BY DEF OrgKeys, Lookup, Constant, Row,
     FirstKeys, RootNames, WorkspaceNames, GitNames, PipelineNames
<1>5. \A i \in 1..6 :
        OrgKeys[i].key \notin
          BuildReads \union LabelReads \union WebhookReads \union ClusterReads
          \union SecretReads \union DiffReads \union RunReads
  BY DEF OrgKeys, Lookup, Constant, Row,
     BuildReads, LabelReads, WebhookReads, ClusterReads, SecretReads, DiffReads, RunReads
<1>. QED
  BY <1>1, <1>2, <1>3, <1>4, <1>5 DEF Second, Apart, Ordered, InOrder, RowKeys, RowReads

\* The second table is in order, and reads what there is.
LEMMA MainOrdered ==
  /\ MainTable \in Seq(AnyRow) /\ InOrder(MainTable)
  /\ {"chart", "projectName"} \subseteq RowKeys(MainTable)
  /\ RowReads(MainTable) \subseteq RootNames \union RowKeys(MainTable) \union {"webhook"}
  /\ RowKeys(MainTable) \cap FirstKeys = {}
<1>1. Second(BuildKeys \o LabelKeys,
             BuildNames \union LabelNames,
             BuildReads \union LabelReads)
  BY BuildOrdered, LabelOrdered, SecondJoin
<1>2. Second(BuildKeys \o LabelKeys \o WebhookKeys,
             BuildNames \union LabelNames \union WebhookNames,
             BuildReads \union LabelReads \union WebhookReads)
  BY <1>1, WebhookOrdered, SecondJoin
<1>3. Second(BuildKeys \o LabelKeys \o WebhookKeys \o ClusterKeys,
             BuildNames \union LabelNames \union WebhookNames \union ClusterNames,
             BuildReads \union LabelReads \union WebhookReads \union ClusterReads)
  BY <1>2, ClusterOrdered, SecondJoin
<1>4. Second(BuildKeys \o LabelKeys \o WebhookKeys \o ClusterKeys \o LinkKeys,
             BuildNames \union LabelNames \union WebhookNames \union ClusterNames,
             BuildReads \union LabelReads \union WebhookReads \union ClusterReads)
  <2>. DEFINE N == BuildNames \union LabelNames \union WebhookNames
                   \union ClusterNames
              R == BuildReads \union LabelReads \union WebhookReads
                   \union ClusterReads
  <2>1. N \union {} = N /\ R \union {} = R
    OBVIOUS
  <2>2. Second(BuildKeys \o LabelKeys \o WebhookKeys \o ClusterKeys \o LinkKeys, N \union {}, R \union {})
    BY <1>3, LinkOrdered, SecondJoin
  <2>. QED
    BY <2>1, <2>2
<1>5. Second(BuildKeys \o LabelKeys \o WebhookKeys \o ClusterKeys \o LinkKeys
             \o SecretKeys,
             BuildNames \union LabelNames \union WebhookNames \union ClusterNames
             \union SecretNames,
             BuildReads \union LabelReads \union WebhookReads \union ClusterReads
             \union SecretReads)
  BY <1>4, SecretOrdered, SecondJoin
<1>6. Second(BuildKeys \o LabelKeys \o WebhookKeys \o ClusterKeys \o LinkKeys
             \o SecretKeys \o DiffKeys,
             BuildNames \union LabelNames \union WebhookNames \union ClusterNames
             \union SecretNames \union DiffNames,
             BuildReads \union LabelReads \union WebhookReads \union ClusterReads
             \union SecretReads \union DiffReads)
  BY <1>5, DiffOrdered, SecondJoin
<1>7. Second(BuildKeys \o LabelKeys \o WebhookKeys \o ClusterKeys \o LinkKeys
             \o SecretKeys \o DiffKeys \o RunKeys,
             BuildNames \union LabelNames \union WebhookNames \union ClusterNames
             \union SecretNames \union DiffNames \union RunNames,
             BuildReads \union LabelReads \union WebhookReads \union ClusterReads
             \union SecretReads \union DiffReads \union RunReads)
  BY <1>6, RunOrdered, SecondJoin
<1>8. Second(BuildKeys \o LabelKeys \o WebhookKeys \o ClusterKeys \o LinkKeys
             \o SecretKeys \o DiffKeys \o RunKeys \o OrgKeys,
             BuildNames \union LabelNames \union WebhookNames \union ClusterNames
             \union SecretNames \union DiffNames \union RunNames,
             BuildReads \union LabelReads \union WebhookReads \union ClusterReads
             \union SecretReads \union DiffReads \union RunReads)
  <2>. DEFINE N == BuildNames \union LabelNames \union WebhookNames
                   \union ClusterNames \union SecretNames \union DiffNames
                   \union RunNames
              R == BuildReads \union LabelReads \union WebhookReads
                   \union ClusterReads \union SecretReads \union DiffReads
                   \union RunReads
  <2>1. N \union {} = N /\ R \union {} = R
    OBVIOUS
  <2>2. Second(BuildKeys \o LabelKeys \o WebhookKeys \o ClusterKeys \o LinkKeys
               \o SecretKeys \o DiffKeys \o RunKeys \o OrgKeys, N \union {}, R \union {})
    BY <1>7, OrgOrdered, SecondJoin
  <2>. QED
    BY <2>1, <2>2
<1>. DEFINE N == BuildNames \union LabelNames \union WebhookNames
                 \union ClusterNames \union SecretNames \union DiffNames
                 \union RunNames
            R == BuildReads \union LabelReads \union WebhookReads
                 \union ClusterReads \union SecretReads \union DiffReads
                 \union RunReads
<1>9. Second(MainTable, N, R)
  BY <1>8 DEF MainTable
<1>10. {"chart", "projectName"} \subseteq N
  BY DEF BuildNames, LabelNames
<1>11. R \subseteq RootNames \union N \union {"webhook"}
  <2>1. /\ BuildReads \subseteq BuildNames
        /\ LabelReads \subseteq GitNames \union LabelNames \union BuildNames
        /\ WebhookReads \subseteq GitNames \union LabelNames \union WebhookNames \union {"webhook"}
        /\ ClusterReads \subseteq GitNames \union LabelNames \union ClusterNames
        /\ SecretReads \subseteq SecretNames
        /\ DiffReads \subseteq GitNames \union WorkspaceNames \union SecretNames \union DiffNames
        /\ RunReads \subseteq RunNames
    BY DEF BuildReads, BuildNames, LabelReads, GitNames, LabelNames, WebhookReads, WebhookNames,
       ClusterReads, ClusterNames, SecretReads, SecretNames, DiffReads, WorkspaceNames, DiffNames,
       RunReads, RunNames
  <2>2. GitNames \union WorkspaceNames \subseteq RootNames
    BY DEF RootNames
  <2>. QED
    BY <2>1, <2>2
<1>. HIDE DEF N, R
<1>. QED
  BY <1>9, <1>10, <1>11 DEF Second, Ordered

\* The first table is in order, reads its own keys and "chart".
LEMMA RootOrdered ==
  Ordered(RootTable, RootNames, RootNames \union {"chart"}) /\ RowKeys(RootTable) \subseteq FirstKeys
<1>. DEFINE R == WorkspaceNames \union GitNames
<1>1. Ordered(WorkspaceKeys, WorkspaceNames, WorkspaceNames)
  BY WorkspaceOrdered
<1>2. Ordered(GitKeys, GitNames, R)
  BY GitOrdered
<1>3. Ordered(PipelineKeys, PipelineNames, RootNames \union {"chart"})
  BY PipelineOrdered
<1>4. RowKeys(WorkspaceKeys) \subseteq FirstKeys
  <2>1. \A i \in 1..6 : WorkspaceKeys[i].key \in FirstKeys
    BY DEF WorkspaceKeys, Lookup, Computed, Constant, Row, FirstKeys, RootNames, WorkspaceNames
  <2>. QED
    BY <2>1, WorkspaceKeysAre DEF RowKeys
<1>5. RowKeys(GitKeys) \subseteq FirstKeys /\ Apart(GitKeys, WorkspaceNames)
  <2>1. \A i \in 1..12 : GitKeys[i].key \in FirstKeys /\ GitKeys[i].key \notin WorkspaceNames
    BY DEF GitKeys, Lookup, Computed, Asking, Row, FirstKeys, RootNames, WorkspaceNames, GitNames
  <2>. QED
    BY <2>1, GitKeysAre DEF RowKeys, Apart
<1>6. RowKeys(PipelineKeys) \subseteq FirstKeys /\ Apart(PipelineKeys, R)
  <2>1. \A i \in 1..3 : PipelineKeys[i].key \in FirstKeys /\ PipelineKeys[i].key \notin R
    BY DEF PipelineKeys, Computed, Constant, Row, FirstKeys, RootNames, WorkspaceNames, GitNames,
       PipelineNames
  <2>. QED
    BY <2>1, PipelineKeysAre DEF RowKeys, Apart
<1>7. /\ Ordered(WorkspaceKeys \o GitKeys, WorkspaceNames \union GitNames, WorkspaceNames \union R)
      /\ RowKeys(WorkspaceKeys \o GitKeys) = RowKeys(WorkspaceKeys) \union RowKeys(GitKeys)
  <2>. HIDE DEF R
  <2>. QED
    BY <1>1, <1>2, <1>5, OrderedJoin
<1>8. Ordered(WorkspaceKeys \o GitKeys, R, R)
  <2>1. WorkspaceNames \union R = R
    OBVIOUS
  <2>. QED
    BY <1>7, <2>1
<1>9. /\ Ordered((WorkspaceKeys \o GitKeys) \o PipelineKeys, R \union PipelineNames,
                 R \union (RootNames \union {"chart"}))
      /\ RowKeys((WorkspaceKeys \o GitKeys) \o PipelineKeys) =
           RowKeys(WorkspaceKeys \o GitKeys) \union RowKeys(PipelineKeys)
  <2>. HIDE DEF R
  <2>. QED
    BY <1>3, <1>6, <1>8, OrderedJoin
<1>10. R \union (RootNames \union {"chart"}) = RootNames \union {"chart"}
  BY DEF RootNames
<1>. QED
  BY <1>4, <1>5, <1>6, <1>7, <1>9, <1>10 DEF RootNames, RootTable


\* What a row reads is above it in its own table, or in the other one; what the
\* first table reads of the second is "chart".
LEMMA RowReadsAbove ==
  ASSUME NEW k \in TableKey
  PROVE  /\ k \in RootKey =>
              /\ RowOf[k].reads \subseteq RootKey \union {"chart"}
              /\ \A s \in RowOf[k].reads \cap RootKey : PlaceOf[s] < PlaceOf[k]
         /\ k \notin RootKey =>
              /\ RowOf[k].reads \subseteq TableKey \union {"webhook"}
              /\ \A s \in RowOf[k].reads \cap (TableKey \ RootKey) : PlaceOf[s] < PlaceOf[k]
<1>1. /\ RootTable \in Seq(AnyRow) /\ Len(RootTable) = 21 /\ InOrder(RootTable)
      /\ RootNames \subseteq RowKeys(RootTable) /\ RowKeys(RootTable) \subseteq FirstKeys
      /\ RowReads(RootTable) \subseteq RootNames \union {"chart"}
  BY RootOrdered, RootRows DEF Ordered
<1>2. /\ MainTable \in Seq(AnyRow) /\ Len(MainTable) \in Nat /\ InOrder(MainTable)
      /\ RowReads(MainTable) \subseteq RootNames \union RowKeys(MainTable) \union {"webhook"}
      /\ RowKeys(MainTable) \cap FirstKeys = {}
  BY MainOrdered
<1>3. /\ Len(Table) = 21 + Len(MainTable) /\ DOMAIN Table = 1..Len(Table)
      /\ \A i \in 1..21 : Table[i] = RootTable[i]
      /\ \A i \in 1..Len(MainTable) : Table[21 + i] = MainTable[i]
  <2>1. RootTable \in Seq(AnyRow) /\ MainTable \in Seq(AnyRow)
    BY <1>1, <1>2
  <2>2. /\ Len(Table) = Len(RootTable) + Len(MainTable)
        /\ \A i \in 1..Len(RootTable) : Table[i] = RootTable[i]
        /\ \A i \in 1..Len(MainTable) : Table[Len(RootTable) + i] = MainTable[i]
    BY <2>1, Joined DEF Table
  <2>. QED
    BY <1>1, <2>2, TableIs
<1>4. RootKey = RowKeys(RootTable)
  BY <1>1 DEF RootKey, RowKeys
<1>5. \A i \in 1..Len(Table) :
        \/ i \in 1..21
        \/ i \notin 1..21 /\ i - 21 \in 1..Len(MainTable) /\ Table[i] = MainTable[i - 21]
  <2>. SUFFICES ASSUME NEW i \in 1..Len(Table), i \notin 1..21
                PROVE  i - 21 \in 1..Len(MainTable) /\ Table[i] = MainTable[i - 21]
    OBVIOUS
  <2>1. Len(MainTable) \in Nat /\ Len(Table) = 21 + Len(MainTable)
    BY <1>2, <1>3
  <2>2. i - 21 \in 1..Len(MainTable) /\ 21 + (i - 21) = i
    BY <2>1
  <2>. QED
    BY <1>3, <2>2
<1>6. ASSUME NEW s \in TableKey
      PROVE  /\ PlaceOf[s] \in 1..Len(Table) /\ RowOf[s] = Table[PlaceOf[s]]
             /\ RowOf[s].key = s
             /\ s \in RootKey => PlaceOf[s] \in 1..21 /\ RowOf[s] = RootTable[PlaceOf[s]]
             /\ s \notin RootKey => /\ PlaceOf[s] \notin 1..21 
                                    /\ PlaceOf[s] - 21 \in 1..Len(MainTable)
                                    /\ RowOf[s] = MainTable[PlaceOf[s] - 21]
  <2>1. /\ PlaceOf[s] \in 1..Len(Table) /\ RowOf[s] = Table[PlaceOf[s]] /\ RowOf[s].key = s
    BY RowIs
  <2>2. CASE PlaceOf[s] \in 1..21
    <3>1. RowOf[s] = RootTable[PlaceOf[s]]
      BY <1>3, <2>1, <2>2
    <3>2. s \in RootKey
      BY <1>1, <1>4, <2>1, <2>2, <3>1 DEF RowKeys
    <3>. QED
      BY <2>1, <2>2, <3>1, <3>2
  <2>3. CASE PlaceOf[s] \notin 1..21
    <3>1. PlaceOf[s] - 21 \in 1..Len(MainTable) /\ RowOf[s] = MainTable[PlaceOf[s] - 21]
      BY <1>5, <2>1, <2>3
    <3>2. s \in RowKeys(MainTable)
      BY <2>1, <3>1 DEF RowKeys
    <3>3. s \notin RootKey
      BY <1>1, <1>2, <1>4, <3>2
    <3>. QED
      BY <2>1, <2>3, <3>1, <3>3
  <2>. QED
    BY <2>2, <2>3
<1>7. CASE k \in RootKey
  <2>1. PlaceOf[k] \in 1..21 /\ RowOf[k] = RootTable[PlaceOf[k]]
    BY <1>6, <1>7
  <2>2. RowOf[k].reads \subseteq RootKey \union {"chart"}
    BY <1>1, <1>4, <2>1 DEF RowReads
  <2>3. ASSUME NEW s \in RowOf[k].reads \cap RootKey
        PROVE  PlaceOf[s] < PlaceOf[k]
    <3>1. s \in TableKey
      BY RootKeysAreKeys
    <3>2. /\ PlaceOf[s] \in 1..21 /\ RootTable[PlaceOf[s]].key = s
      BY <1>6, <3>1
    <3>. QED
      BY <1>1, <2>1, <3>2 DEF InOrder
  <2>. QED
    BY <1>7, <2>2, <2>3
<1>8. CASE k \notin RootKey
  <2>1. PlaceOf[k] - 21 \in 1..Len(MainTable) /\ RowOf[k] = MainTable[PlaceOf[k] - 21]
    BY <1>6, <1>8
  <2>2. RowOf[k].reads \subseteq RootNames \union RowKeys(MainTable) \union {"webhook"}
    BY <1>2, <2>1 DEF RowReads
  <2>3. RowKeys(MainTable) \subseteq TableKey
    <3>1. \A i \in 1..Len(MainTable) : 21 + i \in DOMAIN Table /\ Table[21 + i] = MainTable[i]
      BY <1>2, <1>3
    <3>. QED
      BY <3>1 DEF RowKeys, TableKey
  <2>5. ASSUME NEW s \in RowOf[k].reads \cap (TableKey \ RootKey)
        PROVE  PlaceOf[s] < PlaceOf[k]
    <3>2. /\ PlaceOf[s] - 21 \in 1..Len(MainTable) /\ MainTable[PlaceOf[s] - 21].key = s
      BY <1>6
    <3>3. PlaceOf[s] - 21 < PlaceOf[k] - 21
      BY <1>2, <2>1, <3>2 DEF InOrder
    <3>4. PlaceOf[s] \in Int /\ PlaceOf[k] \in Int
      BY <1>6, <1>2, <1>3
    <3>. QED
      BY <3>3, <3>4
  <2>. QED
    BY <1>1, <1>4, <1>8, <2>2, <2>3, <2>5, RootKeysAreKeys
<1>. QED
  BY <1>7, <1>8

-----------------------------------------------------------------------------
(* What a pass makes of a key.                                              *)

LEMMA RowIsUsual ==
  ASSUME NEW k \in TableKey
  PROVE  Usual(RowOf[k]) /\ RowOf[k].key = k
<1>1. PlaceOf[k] \in 1..Len(Table) /\ RowOf[k] = Table[PlaceOf[k]] /\ RowOf[k].key = k
  BY RowIs
<1>2. Table \in Seq(AnyRow)
  BY TableIs
<1>3. RowOf[k] \in AnyRow
  BY <1>1, <1>2
<1>. QED
  BY <1>1, <1>3, RowsAreUsual

\* "chart" and "projectName" are keys of the second table, looked up only.
LEMMA LookedUpOnly ==
  ASSUME NEW k \in {"chart", "projectName"}
  PROVE  /\ k \in Key /\ k \in TableKey /\ k \notin RootKey
         /\ RowOf[k].by = "none" /\ RowOf[k].key = k /\ ~HasFallback(k)
<1>1. k \in RowKeys(MainTable) /\ RowKeys(MainTable) \cap FirstKeys = {} /\ MainTable \in Seq(AnyRow)
  BY MainOrdered
<1>2. RootKey \subseteq FirstKeys
  BY RootOrdered, RootRows DEF RootKey, RowKeys
<1>3. RowKeys(MainTable) \subseteq TableKey
  <2>1. RootTable \in Seq(AnyRow) /\ MainTable \in Seq(AnyRow)
    BY <1>1, RootRows
  <2>2. /\ Table \in Seq(AnyRow) /\ Len(Table) = Len(RootTable) + Len(MainTable)
        /\ \A i \in 1..Len(MainTable) : Table[Len(RootTable) + i] = MainTable[i]
    BY <2>1, Joined DEF Table
  <2>3. Len(RootTable) \in Nat /\ Len(MainTable) \in Nat
    BY <2>1
  <2>4. \A i \in 1..Len(MainTable) : Len(RootTable) + i \in DOMAIN Table
    BY <2>2, <2>3
  <2>. QED
    BY <2>2, <2>4 DEF RowKeys, TableKey
<1>4. k \in TableKey /\ k \notin RootKey
  BY <1>1, <1>2, <1>3
<1>5. RowOf[k].by = "none" /\ RowOf[k].key = k
  BY <1>4, RowIsUsual DEF Usual
<1>. QED
  BY <1>4, <1>5 DEF Key, HasFallback

\* What a fallback gives depends on what it reads.
LEMMA FallbackReads ==
  ASSUME NEW r, r.needs \in SUBSET r.reads, NEW c, NEW d, \A s \in r.reads : c[s] = d[s]
  PROVE  Fallback(r, c) = Fallback(r, d)
<1>1. [s \in r.reads |-> c[s]] = [s \in r.reads |-> d[s]]
  OBVIOUS
<1>2. (\E s \in r.needs : c[s] = Nothing) <=> (\E s \in r.needs : d[s] = Nothing)
  OBVIOUS
<1>. QED
  BY <1>1, <1>2 DEF Fallback

LEMMA LayerIs ==
  ASSUME NEW l \in Layer
  PROVE  Given(l) # Nothing /\ Given(l).by = l /\ Given(l).by \notin {"fallback", "nothing"}
BY DEF Given, Nothing, Layer

\* The keys a pass does not go through.
LEMMA PassLeaves ==
  ASSUME NEW keys \in SUBSET TableKey, NEW c, NEW k \in Key \ keys
  PROVE  Override(keys, c)[k] = c[k] /\ (Marked(keys, c)[k] <=> isDefault[k])
<1>1. Override(keys, c)[k] = After(k, keys, c, Override(keys, c))
  BY OverrideIs
<1>. QED
  BY <1>1 DEF After, Marked

\* A key that is found, and is no default, is as it was found.
LEMMA PassFinds ==
  ASSUME NEW keys \in SUBSET TableKey, NEW c, NEW k \in keys, Found(k, c) # Nothing, ~isDefault[k]
  PROVE  Override(keys, c)[k] = Found(k, c) /\ ~Marked(keys, c)[k]
<1>0. k \in Key
  BY DEF Key
<1>1. Override(keys, c)[k] = After(k, keys, c, Override(keys, c))
  BY <1>0, OverrideIs
<1>2. ~Defaulted(k, c) /\ ~FallsBack(k, c)
  BY DEF Defaulted, FallsBack
<1>. QED
  BY <1>0, <1>1, <1>2 DEF After, Marked

\* A key without a fallback is no default by a pass, and is as it was found.
LEMMA PassFindsPlain ==
  ASSUME NEW keys \in SUBSET TableKey, NEW c, NEW k \in Key, ~HasFallback(k)
  PROVE  /\ Marked(keys, c)[k] <=> isDefault[k]
         /\ k \in keys /\ Found(k, c) # Nothing => Override(keys, c)[k] = Found(k, c)
         /\ k \in keys /\ RowOf[k].by = "none" => Override(keys, c)[k] = Found(k, c)
         /\ k \in keys => Found(k, c) = LookedUp(RowOf[k], c[k])
<1>1. Override(keys, c)[k] = After(k, keys, c, Override(keys, c))
  BY OverrideIs
<1>2. k \in keys => RowOf[k].by \in {"none", "shape"}
  BY DEF HasFallback
<1>3. k \in keys => ~Defaulted(k, c)
  BY <1>2 DEF Defaulted
<1>4. k \in keys /\ (Found(k, c) # Nothing \/ RowOf[k].by = "none") => ~FallsBack(k, c)
  BY <1>3 DEF FallsBack
<1>5. Marked(keys, c)[k] <=> isDefault[k]
  BY <1>3 DEF Marked
<1>6. k \in keys => Found(k, c) = LookedUp(RowOf[k], c[k])
  BY <1>2 DEF Found
<1>7. k \in keys /\ (Found(k, c) # Nothing \/ RowOf[k].by = "none") => Override(keys, c)[k] = Found(k, c)
  BY <1>1, <1>4 DEF After
<1>. QED
  BY <1>5, <1>6, <1>7

\* Once defaulted, a key is the fallback on what the pass leaves.
LEMMA PassComputes ==
  ASSUME NEW keys, keys = RootKey \/ keys = TableKey \ RootKey, NEW c, NEW k \in keys,
         Marked(keys, c)[k], Override(keys, c)[k].by \in {"fallback", "nothing"},
         HasFallback(k), ~RowOf[k].keep
  PROVE  Override(keys, c)[k] = Fallback(RowOf[k], Override(keys, c))
<1>. DEFINE pass == Override(keys, c)
            read == [s \in RowOf[k].reads |->
                       IF s \in keys /\ PlaceOf[s] < PlaceOf[k] THEN pass[s] ELSE c[s]]
<1>0. keys \in SUBSET TableKey /\ k \in TableKey /\ k \in Key
  BY RootKeysAreKeys DEF Key
<1>1. pass[k] = After(k, keys, c, pass)
  BY <1>0, OverrideIs
<1>2. Usual(RowOf[k])
  BY <1>0, RowIsUsual
<1>3. RowOf[k].by \in {"value", "function", "asking"}
  BY <1>2 DEF Usual, HasFallback
<1>4. isDefault[k] \/ Defaulted(k, c)
  BY <1>0 DEF Marked
<1>5. FallsBack(k, c)
  BY <1>3, <1>4 DEF FallsBack, Defaulted
<1>6. pass[k] = Fallback(RowOf[k], read)
  <2>. HIDE DEF pass
  <2>. QED
    BY <1>1, <1>5 DEF After
<1>7. ASSUME NEW s \in RowOf[k].reads
      PROVE  read[s] = pass[s]
  <2>1. s \in Key
    BY <1>0, RowReadsAbove, RootKeysAreKeys, LookedUpOnly DEF Key, PlainKey
  <2>2. CASE s \in keys
    <3>1. PlaceOf[s] < PlaceOf[k]
      BY <1>0, <2>2, RowReadsAbove
    <3>. QED
      BY <2>2, <3>1
  <2>3. CASE s \notin keys
    <3>1. pass[s] = c[s]
      BY <1>0, <2>1, <2>3, PassLeaves
    <3>. QED
      BY <2>3, <3>1
  <2>. QED
    BY <2>2, <2>3
<1>8. Fallback(RowOf[k], read) = Fallback(RowOf[k], pass)
  <2>1. RowOf[k].needs \in SUBSET RowOf[k].reads
    BY <1>2 DEF Usual
  <2>. HIDE DEF read, pass
  <2>. QED
    BY <1>7, <2>1, FallbackReads
<1>. QED
  BY <1>6, <1>8

-----------------------------------------------------------------------------
(* The calls that are made.                                                 *)

\* The outermost call, and the one it makes.
Outer(a) == [reloading |-> FALSE, at |-> a]
Inner(b) == [reloading |-> TRUE, at |-> b]

Lone(a) == stack = <<Outer(a)>>
Twin(a, b) == stack = <<Outer(a), Inner(b)>>

\* Where the outermost call waits for another.
Waits == {"again", "org", "download", "return"}

Calls ==
  /\ Endless => status = "loading" /\ Top.at \in {"root", "main", "inline", "again", "org"}
  /\ ~Endless => /\ (\E a \in Step : Lone(a)) \/ (\E a \in Waits, b \in Step : Twin(a, b))
                 /\ status = "loaded" => Lone("return")

LEMMA OneAndTwo ==
  ASSUME NEW x, NEW y
  PROVE  Append(<<x>>, y) = <<x, y>> /\ SubSeq(<<x, y>>, 1, 1) = <<x>>
<1>. DEFINE S == {x, y}
<1>1. <<x>> \in Seq(S) /\ <<x, y>> \in Seq(S) /\ Len(<<x>>) = 1 /\ Len(<<x, y>>) = 2
  OBVIOUS
<1>2. Append(<<x>>, y) \in Seq(S) /\ Len(Append(<<x>>, y)) = 2
      /\ Append(<<x>>, y)[1] = x /\ Append(<<x>>, y)[2] = y
  OBVIOUS
<1>3. SubSeq(<<x, y>>, 1, 1) \in Seq(S) /\ Len(SubSeq(<<x, y>>, 1, 1)) = 1
      /\ SubSeq(<<x, y>>, 1, 1)[1] = x
  OBVIOUS
<1>4. \A i \in 1..2 : Append(<<x>>, y)[i] = <<x, y>>[i]
  BY <1>2
<1>5. \A i \in 1..1 : SubSeq(<<x, y>>, 1, 1)[i] = <<x>>[i]
  BY <1>3
<1>6. \A p, q \in Seq(S) : Len(p) = Len(q) /\ (\A i \in 1..Len(p) : p[i] = q[i]) => p = q
  BY SeqEqual
<1>7. Append(<<x>>, y) = <<x, y>>
  <2>. HIDE DEF S
  <2>1. \A i \in 1..Len(Append(<<x>>, y)) : Append(<<x>>, y)[i] = <<x, y>>[i]
    BY <1>2, <1>4
  <2>. QED
    BY <1>1, <1>2, <1>6, <2>1
<1>8. SubSeq(<<x, y>>, 1, 1) = <<x>>
  <2>. HIDE DEF S
  <2>1. \A i \in 1..Len(SubSeq(<<x, y>>, 1, 1)) : SubSeq(<<x, y>>, 1, 1)[i] = <<x>>[i]
    BY <1>3, <1>5
  <2>. QED
    BY <1>1, <1>3, <1>6, <2>1
<1>. QED
  BY <1>7, <1>8

LEMMA CallGoes ==
  ASSUME NEW c, NEW a, NEW st
  PROVE  [[reloading |-> c, at |-> a] EXCEPT !.at = st] = [reloading |-> c, at |-> st]
<1>. DEFINE R == [reloading : {c}, at : {a, st}]
            p == [reloading |-> c, at |-> a]
            q == [reloading |-> c, at |-> st]
<1>1. p \in R /\ q \in R
  OBVIOUS
<1>2. \A r \in R : [r EXCEPT !.at = st] \in R /\ [r EXCEPT !.at = st].at = st
  OBVIOUS
<1>3. \A r, s \in R : r.at = s.at => r = s
  OBVIOUS
<1>4. q.at = st
  OBVIOUS
<1>. HIDE DEF R, p, q
<1>5. [p EXCEPT !.at = st] = q
  BY <1>1, <1>2, <1>3, <1>4
<1>. QED
  BY <1>5 DEF p, q

LEMMA LoneMoves ==
  ASSUME NEW a, Lone(a)
  PROVE  /\ Top = Outer(a) /\ Top.at = a /\ ~Top.reloading /\ Len(stack) = 1
         /\ \A st : Go(st) => Lone(st)' /\ status' = status
         /\ \A st : Reload(st) => Twin(st, "root")' /\ status' = status
<1>1. stack = <<Outer(a)>> /\ Len(stack) = 1 /\ stack[1] = Outer(a)
  BY DEF Lone
<1>2. Top = Outer(a) /\ Top.at = a /\ ~Top.reloading
  BY <1>1 DEF Top, Last, Outer
<1>3. ASSUME NEW st
      PROVE  Frames(st) = <<Outer(st)>>
  <2>1. Frames(st) = [stack EXCEPT ![1] = [stack[1] EXCEPT !.at = st]]
    BY <1>1 DEF Frames
  <2>2. [Outer(a) EXCEPT !.at = st] = Outer(st)
    BY CallGoes DEF Outer
  <2>3. \A x, y : [<<x>> EXCEPT ![1] = y] = <<y>>
    OBVIOUS
  <2>. QED
    BY <1>1, <2>1, <2>2, <2>3
<1>4. ASSUME NEW st, Go(st)
      PROVE  Lone(st)' /\ status' = status
  BY <1>3, <1>4 DEF Go, Lone, Outer
<1>5. ASSUME NEW st, Reload(st)
      PROVE  Twin(st, "root")' /\ status' = status
  <2>1. Len(stack) < MaxDepth
    BY <1>1, DepthType
  <2>2. stack' = Append(Frames(st), Inner("root")) /\ status' = status
    BY <1>5, <2>1 DEF Reload, Inner
  <2>. QED
    BY <1>3, <2>2, OneAndTwo DEF Twin, Outer, Inner
<1>. QED
  BY <1>1, <1>2, <1>4, <1>5

LEMMA TwinMoves ==
  ASSUME NEW a, NEW b, Twin(a, b)
  PROVE  /\ Top = Inner(b) /\ Top.at = b /\ Top.reloading /\ Len(stack) = 2
         /\ \A st : Go(st) => Twin(a, st)' /\ status' = status
         /\ stack' = Front(stack) => Lone(a)'
<1>1. stack = <<Outer(a), Inner(b)>> /\ Len(stack) = 2 /\ stack[2] = Inner(b)
  BY DEF Twin
<1>2. Top = Inner(b) /\ Top.at = b /\ Top.reloading
  BY <1>1 DEF Top, Last, Inner
<1>3. ASSUME NEW st
      PROVE  Frames(st) = <<Outer(a), Inner(st)>>
  <2>1. Frames(st) = [stack EXCEPT ![2] = [stack[2] EXCEPT !.at = st]]
    BY <1>1 DEF Frames
  <2>2. [Inner(b) EXCEPT !.at = st] = Inner(st)
    BY CallGoes DEF Inner
  <2>3. \A x, y, z : [<<x, y>> EXCEPT ![2] = z] = <<x, z>>
    OBVIOUS
  <2>. QED
    BY <1>1, <2>1, <2>2, <2>3
<1>4. ASSUME NEW st, Go(st)
      PROVE  Twin(a, st)' /\ status' = status
  BY <1>3, <1>4 DEF Go, Twin, Outer, Inner
<1>5. ASSUME stack' = Front(stack)
      PROVE  Lone(a)'
  <2>1. Front(stack) = SubSeq(stack, 1, 1)
    BY <1>1 DEF Front
  <2>. QED
    BY <1>1, <1>5, <2>1, OneAndTwo DEF Lone, Outer
<1>. QED
  BY <1>1, <1>2, <1>4, <1>5

\* What is given does not change.
LEMMA ScenarioStays ==
  ASSUME [Next]_vars
  PROVE  given' = given /\ org' = org
BY DEF Next, RootPass, MainPass, InlinePass, ReloadOnce, SkipDependencies, GitOrg,
       Download, ExtendConfig, Return, scenario, vars

\* Where a call goes from each step; the outermost has another made at some.
LEMMA LoneSteps ==
  ASSUME ~Endless, NEW a \in Step, Lone(a), status = "loaded" => a = "return", Next
  PROVE  \/ RootPass /\ a = "root" /\ Lone("main")' /\ status' = "loading"
         \/ MainPass /\ a = "main" /\ Lone("inline")' /\ status' = "loading"
         \/ /\ InlinePass /\ a = "inline" /\ status' = "loading"
            /\ Lone("again")' \/ Twin("again", "root")'
         \/ ReloadOnce /\ a = "again" /\ Twin("org", "root")' /\ status' = "loading"
         \/ /\ GitOrg /\ a = "org" /\ status' \in {"loading", "failed"}
            /\ \/ Twin("download", "root")'
               \/ cfg' = cfg /\ (Lone("download")' \/ Lone("org")')
         \/ /\ Download /\ a = "download"
            /\ \/ Lone("extends")' /\ loaded' = TRUE /\ status' = "loading"
               \/ Lone("download")' /\ loaded' = loaded /\ status' = "failed"
         \/ /\ ExtendConfig /\ a = "extends"
            /\ \/ Lone("extends")' /\ cfg' = cfg /\ isDefault' = isDefault /\ status' = "failed"
               \/ Extended = {} /\ Lone("return")' /\ status' = "loading"
               \/ /\ Extended # {} /\ Extended \subseteq known /\ Twin("return", "root")'
                  /\ status' = "loading"
         \/ Return /\ a = "return" /\ Lone("return")' /\ status' = "loaded"
<1>1. /\ Top.at = a /\ ~Top.reloading /\ Len(stack) = 1
      /\ \A st : Go(st) => Lone(st)' /\ status' = status
      /\ \A st : Reload(st) => Twin(st, "root")' /\ status' = status
      /\ Fail => Lone(a)' /\ status' = "failed"
  BY LoneMoves DEF Fail, Lone, Outer
<1>2. CASE RootPass
  BY <1>1, <1>2 DEF RootPass, At
<1>3. CASE MainPass
  BY <1>1, <1>3 DEF MainPass, At
<1>4. CASE InlinePass
  BY <1>1, <1>4 DEF InlinePass, At
<1>5. CASE ReloadOnce
  BY <1>1, <1>5 DEF ReloadOnce, At
<1>6. CASE SkipDependencies
  BY <1>1, <1>6 DEF SkipDependencies, LoadsDependencies
<1>7. CASE GitOrg
  BY <1>1, <1>7 DEF GitOrg, At
<1>8. CASE Download
  BY <1>1, <1>8 DEF Download, At
<1>9. CASE ExtendConfig
  <2>1. CASE Extended \subseteq known
    BY <1>1, <1>9, <2>1 DEF ExtendConfig, At
  <2>2. CASE ~(Extended \subseteq known)
    BY <1>1, <1>9, <2>2 DEF ExtendConfig, At
  <2>. QED
    BY <2>1, <2>2
<1>10. CASE Return
  BY <1>1, <1>10 DEF Return, At, Lone, Outer
<1>. QED
  BY <1>2, <1>3, <1>4, <1>5, <1>6, <1>7, <1>8, <1>9, <1>10 DEF Next

LEMMA TwinSteps ==
  ASSUME ~Endless, org \in {"absent", "present"}, NEW a \in Waits, NEW b \in Step, Twin(a, b), Next
  PROVE  /\ status = "loading" /\ status' \in {"loading", "failed"}
         /\ \/ RootPass /\ b = "root" /\ Twin(a, "main")'
            \/ MainPass /\ b = "main" /\ Twin(a, "inline")'
            \/ InlinePass /\ b = "inline" /\ Twin(a, "again")'
            \/ ReloadOnce /\ b = "again" /\ Twin(a, "org")'
            \/ SkipDependencies /\ b = "org" /\ Twin(a, "extends")'
            \/ GitOrg /\ b = "org" /\ cfg' = cfg /\ (Twin(a, "download")' \/ Twin(a, "org")')
            \/ /\ Download /\ b = "download" 
               /\ Twin(a, "extends")' \/ (Twin(a, "download")' /\ loaded' = loaded)
            \/ /\ ExtendConfig /\ b = "extends"
               /\ \/ Twin(a, "extends")' /\ cfg' = cfg /\ isDefault' = isDefault
                  \/ Twin(a, "return")' /\ Extended \subseteq known
            \/ Return /\ b = "return" /\ Lone(a)'
<1>1. /\ Top.at = b /\ Top.reloading /\ Len(stack) = 2
      /\ \A st : Go(st) => Twin(a, st)' /\ status' = status
      /\ stack' = Front(stack) => Lone(a)'
      /\ Fail => Twin(a, b)' /\ status' = "failed"
  BY TwinMoves DEF Fail, Twin, Outer, Inner
<1>2. CASE RootPass
  BY <1>1, <1>2 DEF RootPass, At
<1>3. CASE MainPass
  BY <1>1, <1>3 DEF MainPass, At
<1>4. CASE InlinePass
  BY <1>1, <1>4 DEF InlinePass, At
<1>5. CASE ReloadOnce
  BY <1>1, <1>5 DEF ReloadOnce, At
<1>6. CASE SkipDependencies
  BY <1>1, <1>6 DEF SkipDependencies, At
<1>7. CASE GitOrg
  <2>1. org # "present"
    BY <1>1, <1>7 DEF GitOrg, LoadsDependencies, Endless
  <2>. QED
    BY <1>1, <1>7, <2>1 DEF GitOrg, At
<1>8. CASE Download
  BY <1>1, <1>8 DEF Download, At
<1>9. CASE ExtendConfig
  <2>1. CASE Extended \subseteq known
    BY <1>1, <1>9, <2>1 DEF ExtendConfig, At
  <2>2. CASE ~(Extended \subseteq known)
    BY <1>1, <1>9, <2>2 DEF ExtendConfig, At
  <2>. QED
    BY <2>1, <2>2
<1>10. CASE Return
  BY <1>1, <1>10 DEF Return, At
<1>. QED
  BY <1>2, <1>3, <1>4, <1>5, <1>6, <1>7, <1>8, <1>9, <1>10 DEF Next

\* So the calls are as they are said to be.
LEMMA CallsStay ==
  ASSUME StackOK, Calls, org \in {"absent", "present"}, [Next]_vars
  PROVE  Calls'
<1>1. Endless' <=> Endless
  BY ScenarioStays DEF Endless, InlineKeys, Gives
<1>2. CASE UNCHANGED vars
  BY <1>1, <1>2 DEF Calls, vars, Top, Lone, Twin
<1>3. CASE Endless /\ Next
  <2>1. /\ status = "loading" /\ Top.at \in {"root", "main", "inline", "again", "org"}
        /\ org = "present" /\ LoadsDependencies
    BY <1>3 DEF Calls, Endless, LoadsDependencies
  <2>2. \A st \in Step : /\ Go(st) => Top'.at = st /\ status' = status
                         /\ Reload(st) => Top'.at = "root" /\ status' = status
    BY GoKeeps, ReloadKeeps
  <2>3. {"main", "inline", "again", "org", "download"} \subseteq Step
    BY DEF Step
  <2>4. CASE RootPass \/ MainPass
    BY <1>1, <1>3, <2>1, <2>2, <2>3, <2>4 DEF RootPass, MainPass, Calls
  <2>5. CASE InlinePass \/ ReloadOnce
    BY <1>1, <1>3, <2>1, <2>2, <2>3, <2>5 DEF InlinePass, ReloadOnce, Calls
  <2>6. CASE GitOrg
    BY <1>1, <1>3, <2>1, <2>2, <2>3, <2>6 DEF GitOrg, Calls
  <2>7. CASE SkipDependencies \/ Download \/ ExtendConfig \/ Return
    BY <2>1, <2>7 DEF SkipDependencies, Download, ExtendConfig, Return, At
  <2>. QED
    BY <1>3, <2>4, <2>5, <2>6, <2>7 DEF Next
<1>4. CASE ~Endless /\ Next
  <2>1. /\ (\E a \in Step : Lone(a)) \/ (\E a \in Waits, b \in Step : Twin(a, b))
        /\ status = "loaded" => Lone("return")
    BY <1>4 DEF Calls
  <2>2. \A a \in Step : Lone(a) /\ status = "loaded" => a = "return"
    <3>1. \A a : Lone(a) => Top.at = a
      BY LoneMoves
    <3>. QED
      BY <2>1, <3>1
  <2>3. /\ \A a \in {"main", "inline", "again", "org", "download", "extends", "return", "root"} : a \in Step
        /\ \A a \in {"again", "org", "download", "return"} : a \in Waits
        /\ Waits \subseteq Step
    BY DEF Step, Waits
  <2>4. CASE \E a \in Step : Lone(a)
    <3>1. PICK a \in Step : Lone(a)
      BY <2>4
    <3>. QED
      BY <1>1, <1>4, <2>2, <2>3, <3>1, LoneSteps DEF Calls
  <2>5. CASE \E a \in Waits, b \in Step : Twin(a, b)
    <3>1. PICK a \in Waits, b \in Step : Twin(a, b)
      BY <2>5
    <3>. QED
      BY <1>1, <1>4, <2>3, <3>1, TwinSteps DEF Calls
  <2>. QED
    BY <2>1, <2>4, <2>5
<1>. QED
  BY <1>2, <1>3, <1>4

-----------------------------------------------------------------------------
(* What settles.                                                            *)

OnlyBy(l, s) == Gives(l, s) /\ \A m \in Layer \ {l} : ~Gives(m, s)

\* projects[projectName] is read in every call.
NamedEarly == \E l \in {"remote", "home", "workspace"} : Gives(l, "projectName")
IsNamed(c) == \/ Gives("home", "projectName") \/ Gives("workspace", "projectName")
              \/ c["projectName"] # Nothing

\* What the files and the project make of a configuration.
Files(c) == WithProject(Merge("workspace", Merge("home", c)))

LEMMA FilesAre ==
  ASSUME NEW c, NEW k \in Key
  PROVE  Files(c)[k] = IF Gives("project", k) /\ IsNamed(c) THEN Given("project")
                       ELSE IF Gives("workspace", k) THEN Given("workspace")
                       ELSE IF Gives("home", k) THEN Given("home") ELSE c[k]
<1>. DEFINE h == Merge("home", c)
            w == Merge("workspace", h)
<1>1. \A s \in Key : h[s] = IF Gives("home", s) THEN Given("home") ELSE c[s]
  BY DEF Merge
<1>2. \A s \in Key : w[s] = IF Gives("workspace", s) THEN Given("workspace") ELSE h[s]
  BY DEF Merge
<1>3. Given("home") # Nothing /\ Given("workspace") # Nothing
  BY LayerIs DEF Layer
<1>4. "projectName" \in Key
  BY LookedUpOnly
<1>5. w["projectName"] = Nothing <=> ~IsNamed(c)
  BY <1>1, <1>2, <1>3, <1>4 DEF IsNamed
<1>6. Files(c)[k] = IF Gives("project", k) /\ IsNamed(c) THEN Given("project") ELSE w[k]
  BY <1>5 DEF Files, WithProject, Merge
<1>. HIDE DEF h, w
<1>. QED
  BY <1>1, <1>2, <1>6

LEMMA MainPassIs ==
  ASSUME MainPass
  PROVE  cfg' = Override(TableKey \ RootKey, Files(cfg)) /\ isDefault' = Marked(TableKey \ RootKey, Files(cfg))
BY DEF MainPass, Files

\* The value of a key that one layer gives, and nothing computes, stays.
LEMMA OnlyStays ==
  ASSUME NEW l \in {"home", "workspace", "project", "inline", "set"}, NEW s \in Key,
         ~HasFallback(s), OnlyBy(l, s), cfg[s] = Given(l), [Next]_vars
  PROVE  cfg'[s] = Given(l)
<1>1. l \in Layer /\ {"remote", "env", "option", "org", "extends"} \subseteq Layer \ {l}
      /\ {"home", "workspace", "project", "inline", "set"} \subseteq Layer
  BY DEF Layer
<1>2. \A m \in Layer : m # l => ~Gives(m, s)
  BY DEF OnlyBy
<1>3. Given(l) # Nothing
  BY <1>1, LayerIs
<1>4. ASSUME NEW keys \in SUBSET TableKey, NEW c, c[s] = Given(l)
      PROVE  Override(keys, c)[s] = Given(l)
  <2>1. CASE s \in keys
    <3>1. RowOf[s].key = s
      BY <2>1, RowIsUsual
    <3>2. LookedUp(RowOf[s], c[s]) = c[s]
      BY <1>1, <1>2, <3>1 DEF LookedUp
    <3>. QED
      BY <1>3, <1>4, <2>1, <3>2, PassFindsPlain
  <2>2. CASE s \notin keys
    BY <1>4, <2>2, PassLeaves
  <2>. QED
    BY <2>1, <2>2
<1>5. CASE RootPass
  <2>1. Merge("remote", cfg)[s] = Given(l)
    BY <1>1, <1>2 DEF Merge
  <2>. QED
    BY <1>4, <1>5, <2>1, RootKeysAreKeys DEF RootPass
<1>6. CASE MainPass
  <2>1. Files(cfg)[s] = Given(l)
    BY <1>1, <1>2, FilesAre
  <2>2. TableKey \ RootKey \in SUBSET TableKey
    OBVIOUS
  <2>. QED
    BY <1>4, <1>6, <2>1, <2>2, MainPassIs
<1>7. CASE InlinePass
  BY <1>1, <1>2, <1>7 DEF InlinePass, Merge
<1>8. CASE GitOrg
  BY <1>3, <1>8 DEF GitOrg, FillIn
<1>9. CASE ExtendConfig
  <2>1. s \notin Replaced
    BY <1>1, <1>2 DEF Replaced, Extended
  <2>2. CASE Extended \subseteq known
    BY <1>9, <2>1, <2>2 DEF ExtendConfig
  <2>3. CASE ~(Extended \subseteq known)
    BY <1>9, <2>3 DEF ExtendConfig
  <2>. QED
    BY <2>2, <2>3
<1>10. CASE ReloadOnce \/ SkipDependencies \/ Download \/ Return \/ UNCHANGED vars
  BY <1>10 DEF ReloadOnce, SkipDependencies, Download, Return, vars
<1>. QED
  BY <1>5, <1>6, <1>7, <1>8, <1>9, <1>10 DEF Next

\* A name that is known stays known.
LEMMA NameStays ==
  ASSUME cfg["projectName"] # Nothing, [Next]_vars
  PROVE  cfg'["projectName"] # Nothing
<1>. DEFINE n == "projectName"
<1>1. n \in Key /\ n \in TableKey /\ n \notin RootKey /\ RowOf[n].by = "none" /\ ~HasFallback(n)
  BY LookedUpOnly
<1>2. \A l \in Layer : Given(l) # Nothing
  BY LayerIs
<1>3. {"remote", "home", "workspace", "project", "inline", "set", "org", "extends", "option", "env"} \subseteq Layer
  BY DEF Layer
<1>4. CASE RootPass
  <2>1. Merge("remote", cfg)[n] # Nothing
    BY <1>1, <1>2, <1>3 DEF Merge
  <2>2. cfg'[n] = Merge("remote", cfg)[n]
    BY <1>1, <1>4, PassLeaves, RootKeysAreKeys DEF RootPass
  <2>. QED
    BY <2>1, <2>2
<1>5. CASE MainPass
  <2>1. Files(cfg)[n] # Nothing
    BY <1>1, <1>2, <1>3, FilesAre
  <2>2. cfg'[n] = LookedUp(RowOf[n], Files(cfg)[n])
    <3>1. n \in TableKey \ RootKey /\ TableKey \ RootKey \in SUBSET TableKey
      BY <1>1
    <3>. QED
      BY <1>1, <1>5, <3>1, MainPassIs, PassFindsPlain
  <2>. QED
    BY <1>2, <1>3, <2>1, <2>2 DEF LookedUp
<1>6. CASE InlinePass
  BY <1>1, <1>2, <1>3, <1>6 DEF InlinePass, Merge
<1>7. CASE GitOrg
  BY <1>1, <1>7 DEF GitOrg, FillIn
<1>8. CASE ExtendConfig
  <2>1. CASE Extended \subseteq known
    BY <1>1, <1>2, <1>3, <1>8, <2>1 DEF ExtendConfig
  <2>2. CASE ~(Extended \subseteq known)
    BY <1>8, <2>2 DEF ExtendConfig
  <2>. QED
    BY <2>1, <2>2
<1>9. CASE ReloadOnce \/ SkipDependencies \/ Download \/ Return \/ UNCHANGED vars
  BY <1>9 DEF ReloadOnce, SkipDependencies, Download, Return, vars
<1>. QED
  BY <1>4, <1>5, <1>6, <1>7, <1>8, <1>9 DEF Next

\* Only what has a fallback, or is given on the command line, is a default.
PlainIsGiven == \A k \in Key \ InlineKeys : ~HasFallback(k) => ~isDefault[k]

LEMMA PlainStays ==
  ASSUME PlainIsGiven, [Next]_vars
  PROVE  PlainIsGiven'
<1>. SUFFICES ASSUME NEW k \in Key, k \notin InlineKeys, ~HasFallback(k)
              PROVE  ~isDefault'[k]
  BY ScenarioStays DEF PlainIsGiven, InlineKeys, Gives
<1>1. ~isDefault[k]
  BY DEF PlainIsGiven
<1>2. CASE RootPass
  BY <1>1, <1>2, PassFindsPlain, RootKeysAreKeys DEF RootPass
<1>3. CASE MainPass
  <2>1. TableKey \ RootKey \in SUBSET TableKey
    OBVIOUS
  <2>. QED
    BY <1>1, <1>3, <2>1, MainPassIs, PassFindsPlain
<1>4. CASE InlinePass
  BY <1>1, <1>4 DEF InlinePass
<1>5. CASE ExtendConfig
  <2>1. CASE Extended \subseteq known
    BY <1>1, <1>5, <2>1 DEF ExtendConfig
  <2>2. CASE ~(Extended \subseteq known)
    BY <1>1, <1>5, <2>2 DEF ExtendConfig
  <2>. QED
    BY <2>1, <2>2
<1>6. CASE GitOrg \/ ReloadOnce \/ SkipDependencies \/ Download \/ Return \/ UNCHANGED vars
  BY <1>1, <1>6 DEF GitOrg, ReloadOnce, SkipDependencies, Download, Return, vars
<1>. QED
  BY <1>2, <1>3, <1>4, <1>5, <1>6 DEF Next

\* The outermost call has read the files, and what the command line gives;
\* it has been extended and waits for the last call.
Begun == stack[1].at \notin {"root", "main"}
Inlined == stack[1].at \notin {"root", "main", "inline"}
LastCall == stack[1].at = "return" /\ Len(stack) = 2

LEMMA CallIs ==
  ASSUME NEW s, NEW a, NEW b
  PROVE  /\ s = <<Outer(a)>> => Last(s).at = a /\ s[1].at = a /\ Len(s) = 1
         /\ s = <<Outer(a), Inner(b)>> => Last(s).at = b /\ s[1].at = a /\ Len(s) = 2
<1>1. ASSUME s = <<Outer(a)>>
      PROVE  Last(s).at = a /\ s[1].at = a /\ Len(s) = 1
  <2>1. s[1] = Outer(a) /\ Len(s) = 1
    BY <1>1
  <2>. QED
    BY <2>1 DEF Last, Outer
<1>2. ASSUME s = <<Outer(a), Inner(b)>>
      PROVE  Last(s).at = b /\ s[1].at = a /\ Len(s) = 2
  <2>1. s[1] = Outer(a) /\ s[2] = Inner(b) /\ Len(s) = 2
    BY <1>2
  <2>. QED
    BY <2>1 DEF Last, Outer, Inner
<1>. QED
  BY <1>1, <1>2

\* Which steps bring the calls there.
LEMMA Arrivals ==
  ASSUME ~Endless, Calls, org \in {"absent", "present"}, Next
  PROVE  /\ Begun' => Begun \/ MainPass
         /\ Inlined' => Inlined \/ InlinePass
         /\ Top'.at = "main" => RootPass
         /\ Top'.at \notin {"root", "main", "inline"} =>
              Top.at \notin {"root", "main", "inline"} \/ InlinePass
         /\ LastCall' => \/ LastCall
                         \/ ExtendConfig /\ Extended # {} /\ Extended \subseteq known
<1>1. /\ (\E a \in Step : Lone(a)) \/ (\E a \in Waits, b \in Step : Twin(a, b))
      /\ status = "loaded" => Lone("return")
  BY DEF Calls
<1>2. \A a, b : /\ Lone(a) => Top.at = a /\ stack[1].at = a /\ Len(stack) = 1
                /\ Twin(a, b) => Top.at = b /\ stack[1].at = a /\ Len(stack) = 2
  BY CallIs DEF Lone, Twin, Top
<1>3. \A a, b : /\ Lone(a)' => Top'.at = a /\ stack'[1].at = a /\ Len(stack') = 1
                /\ Twin(a, b)' => Top'.at = b /\ stack'[1].at = a /\ Len(stack') = 2
  BY CallIs DEF Lone, Twin, Top
<1>4. CASE \E a \in Step : Lone(a)
  <2>1. PICK a \in Step : Lone(a)
    BY <1>4
  <2>2. status = "loaded" => a = "return"
    BY <1>1, <1>2, <2>1
  <2>3. /\ Top.at = a /\ stack[1].at = a /\ Len(stack) = 1
    BY <1>2, <2>1
  <2>4. \/ RootPass /\ a = "root" /\ Lone("main")'
        \/ MainPass /\ a = "main" /\ Lone("inline")'
        \/ InlinePass /\ a = "inline" /\ (Lone("again")' \/ Twin("again", "root")')
        \/ /\ a \in {"again", "org", "download", "extends", "return"}
           /\ \/ Lone("download")' \/ Lone("org")' \/ Lone("extends")' \/ Lone("return")'
              \/ Twin("org", "root")' \/ Twin("download", "root")'
              \/ ExtendConfig /\ Extended # {} /\ Extended \subseteq known /\ Twin("return", "root")'
    BY <2>1, <2>2, LoneSteps
  <2>5. CASE a \in {"root", "main", "inline"}
    BY <1>3, <2>3, <2>4, <2>5 DEF Begun, Inlined, LastCall
  <2>6. CASE a \in {"again", "org", "download", "extends", "return"}
    BY <1>3, <2>3, <2>4, <2>6 DEF Begun, Inlined, LastCall
  <2>. QED
    BY <2>4, <2>5, <2>6
<1>5. CASE \E a \in Waits, b \in Step : Twin(a, b)
  <2>1. PICK a \in Waits, b \in Step : Twin(a, b)
    BY <1>5
  <2>2. a \notin {"root", "main", "inline"}
    BY DEF Waits
  <2>3. /\ Top.at = b /\ stack[1].at = a /\ Len(stack) = 2
    BY <1>2, <2>1
  <2>. QED
    BY <1>3, <2>1, <2>2, <2>3, TwinSteps DEF Begun, Inlined, LastCall
<1>. QED
  BY <1>1, <1>4, <1>5

\* What a caller gives is there when the files are read.
RemoteStands == Top.at = "main" => \A k \in Key \ RootKey : Gives("remote", k) => cfg[k] = Given("remote")

\* What only the command line, or only a file, gives of a key without a
\* fallback is its value from the first call on.
CommandStands ==
  Inlined => \A s \in Key, l \in {"inline", "set"} :
               ~HasFallback(s) /\ OnlyBy(l, s) => cfg[s] = Given(l)
FilesStand ==
  Begun => \A s \in RootKey, l \in {"home", "workspace", "project"} :
             ~HasFallback(s) /\ OnlyBy(l, s) /\ (l = "project" => NamedEarly) => cfg[s] = Given(l)
NameStands == Begun /\ NamedEarly => cfg["projectName"] # Nothing

\* The second pass would find "chart" again as it is, unless it is given by a
\* project that was not named when the files were first read.
ReadAgain(c) == LookedUp(RowOf["chart"], Files(c)["chart"])
ChartStands ==
  Begun /\ "chart" \notin InlineKeys /\ ~Gives("remote", "chart") =>
    ReadAgain(cfg) = cfg["chart"] \/ (ReadAgain(cfg) = Given("project") /\ ~NamedEarly)

\* The keys of the command line have its values, or an extension's.
InlineStands ==
  Top.at \notin {"root", "main", "inline"} =>
    \A s \in InlineKeys : cfg[s].by \in {"inline", "set", "extends"}

\* What has been extended is no default in the last call.
ExtendsStand ==
  LastCall => loaded /\ \A k \in Extended \ InlineKeys : cfg[k] # Nothing /\ ~isDefault[k]

Settled ==
  /\ RemoteStands /\ CommandStands /\ FilesStand /\ NameStands
  /\ ChartStands /\ InlineStands /\ ExtendsStand

LEMMA GivesStay ==
  ASSUME [Next]_vars
  PROVE  /\ \A l, k : Gives(l, k)' <=> Gives(l, k)
         /\ \A l, k : OnlyBy(l, k)' <=> OnlyBy(l, k)
         /\ InlineKeys' = InlineKeys /\ (NamedEarly' <=> NamedEarly) /\ (Endless' <=> Endless)
BY ScenarioStays DEF Gives, OnlyBy, InlineKeys, NamedEarly, Endless

LEMMA RemoteStays ==
  ASSUME ~Endless, Calls, org \in {"absent", "present"}, Next
  PROVE  RemoteStands'
<1>0. \A l, k : Gives(l, k)' <=> Gives(l, k)
  BY GivesStay
<1>. SUFFICES ASSUME Top'.at = "main", NEW k \in Key \ RootKey, Gives("remote", k)
              PROVE  cfg'[k] = Given("remote")
  BY <1>0 DEF RemoteStands
<1>1. RootPass
  BY Arrivals
<1>2. Merge("remote", cfg)[k] = Given("remote")
  BY DEF Merge
<1>. QED
  BY <1>1, <1>2, PassLeaves, RootKeysAreKeys DEF RootPass

LEMMA CommandStays ==
  ASSUME ~Endless, Calls, org \in {"absent", "present"}, CommandStands, Next
  PROVE  CommandStands'
<1>0. \A l, k : OnlyBy(l, k)' <=> OnlyBy(l, k)
  BY GivesStay
<1>. SUFFICES ASSUME Inlined', NEW s \in Key, NEW l \in {"inline", "set"}, ~HasFallback(s), OnlyBy(l, s)
              PROVE  cfg'[s] = Given(l)
  BY <1>0 DEF CommandStands
<1>1. CASE Inlined
  BY <1>1, OnlyStays DEF CommandStands
<1>2. CASE InlinePass
  <2>1. /\ Gives(l, s) /\ \A m \in {"inline", "set"} : m # l => ~Gives(m, s)
    BY DEF OnlyBy, Layer
  <2>2. cfg' = Merge("set", Merge("inline", cfg))
    BY <1>2 DEF InlinePass
  <2>. QED
    BY <2>1, <2>2 DEF Merge
<1>. QED
  BY <1>1, <1>2, Arrivals

LEMMA FilesStay ==
  ASSUME ~Endless, Calls, org \in {"absent", "present"}, RemoteStands, FilesStand, Next
  PROVE  FilesStand'
<1>0. /\ \A l, k : OnlyBy(l, k)' <=> OnlyBy(l, k)
      /\ NamedEarly' <=> NamedEarly
  BY GivesStay
<1>. SUFFICES ASSUME Begun', NEW s \in RootKey, NEW l \in {"home", "workspace", "project"},
                     ~HasFallback(s), OnlyBy(l, s), l = "project" => NamedEarly
              PROVE  cfg'[s] = Given(l)
  BY <1>0 DEF FilesStand
<1>00. s \in Key
  BY RootKeysAreKeys DEF Key
<1>1. CASE Begun
  BY <1>00, <1>1, OnlyStays DEF FilesStand
<1>2. CASE MainPass
  <2>1. /\ Gives(l, s) /\ \A m \in {"home", "workspace", "project"} : m # l => ~Gives(m, s)
    BY DEF OnlyBy, Layer
  <2>2. NamedEarly => IsNamed(cfg)
    <3>1. Gives("remote", "projectName") => cfg["projectName"] = Given("remote")
      BY <1>2, LookedUpOnly DEF RemoteStands, MainPass, At
    <3>. QED
      BY <3>1, LayerIs DEF NamedEarly, IsNamed, Layer
  <2>3. Files(cfg)[s] = Given(l)
    BY <1>00, <2>1, <2>2, FilesAre
  <2>4. cfg'[s] = Files(cfg)[s]
    <3>1. s \in Key \ (TableKey \ RootKey) /\ TableKey \ RootKey \in SUBSET TableKey
      BY <1>00
    <3>. QED
      BY <1>2, <3>1, MainPassIs, PassLeaves
  <2>. QED
    BY <2>3, <2>4
<1>. QED
  BY <1>1, <1>2, Arrivals

LEMMA NameStandsStays ==
  ASSUME ~Endless, Calls, org \in {"absent", "present"}, RemoteStands, NameStands, Next
  PROVE  NameStands'
<1>0. NamedEarly' <=> NamedEarly
  BY GivesStay
<1>. SUFFICES ASSUME Begun', NamedEarly
              PROVE  cfg'["projectName"] # Nothing
  BY <1>0 DEF NameStands
<1>1. CASE Begun
  BY <1>1, NameStays DEF NameStands
<1>2. CASE MainPass
  <2>. DEFINE n == "projectName"
  <2>0. n \in Key /\ n \in TableKey /\ n \notin RootKey /\ RowOf[n].by = "none" /\ ~HasFallback(n)
    BY LookedUpOnly
  <2>1. \A l \in {"remote", "home", "workspace", "project", "option", "env"} : Given(l) # Nothing
    BY LayerIs DEF Layer
  <2>2. Gives("remote", n) => cfg[n] = Given("remote")
    BY <1>2, <2>0 DEF RemoteStands, MainPass, At
  <2>3. Files(cfg)[n] # Nothing
    BY <2>0, <2>1, <2>2, FilesAre DEF NamedEarly
  <2>4. cfg'[n] = LookedUp(RowOf[n], Files(cfg)[n])
    <3>1. n \in TableKey \ RootKey /\ TableKey \ RootKey \in SUBSET TableKey
      BY <2>0
    <3>. QED
      BY <1>2, <2>0, <3>1, MainPassIs, PassFindsPlain
  <2>. QED
    BY <2>1, <2>3, <2>4 DEF LookedUp
<1>. QED
  BY <1>1, <1>2, Arrivals

LEMMA InlineStays ==
  ASSUME ~Endless, Calls, org \in {"absent", "present"}, InlineStands, Next
  PROVE  InlineStands'
<1>0. InlineKeys' = InlineKeys
  BY GivesStay
<1>. SUFFICES ASSUME Top'.at \notin {"root", "main", "inline"}, NEW s \in InlineKeys
              PROVE  cfg'[s].by \in {"inline", "set", "extends"}
  BY <1>0 DEF InlineStands
<1>1. s \in Key /\ (Gives("inline", s) \/ Gives("set", s))
  BY DEF InlineKeys
<1>2. /\ Given("inline").by = "inline" /\ Given("set").by = "set" /\ Given("extends").by = "extends"
      /\ Nothing.by = "nothing"
  BY DEF Given, Nothing
<1>3. CASE InlinePass
  BY <1>1, <1>2, <1>3 DEF InlinePass, Merge
<1>4. CASE Top.at \notin {"root", "main", "inline"}
  <2>1. cfg[s].by \in {"inline", "set", "extends"} /\ cfg[s] # Nothing
    BY <1>2, <1>4 DEF InlineStands
  <2>2. CASE GitOrg
    BY <1>1, <2>1, <2>2 DEF GitOrg, FillIn
  <2>3. CASE ExtendConfig
    <3>1. CASE Extended \subseteq known
      BY <1>1, <1>2, <2>1, <2>3, <3>1 DEF ExtendConfig
    <3>2. CASE ~(Extended \subseteq known)
      BY <2>1, <2>3, <3>2 DEF ExtendConfig
    <3>. QED
      BY <3>1, <3>2
  <2>4. CASE ReloadOnce \/ SkipDependencies \/ Download \/ Return
    BY <2>1, <2>4 DEF ReloadOnce, SkipDependencies, Download, Return
  <2>5. CASE RootPass \/ MainPass \/ InlinePass
    BY <1>4, <2>5 DEF RootPass, MainPass, InlinePass, At
  <2>. QED
    BY <2>2, <2>3, <2>4, <2>5 DEF Next
<1>. QED
  BY <1>3, <1>4, Arrivals

\* What the second pass finds of "chart" a second time.
LEMMA ReadAgainIs ==
  ASSUME NEW c, NEW d, IsNamed(c) => IsNamed(d), NamedEarly => IsNamed(c)
  PROVE  /\ d["chart"] = c["chart"] /\ (ReadAgain(c) = c["chart"] \/ (ReadAgain(c) = Given("project") /\ ~NamedEarly))
              => ReadAgain(d) = d["chart"] \/ (ReadAgain(d) = Given("project") /\ ~NamedEarly)
         /\ d["chart"] = ReadAgain(c)
              => ReadAgain(d) = d["chart"] \/ (ReadAgain(d) = Given("project") /\ ~NamedEarly)
         /\ c["chart"] = Nothing /\ (ReadAgain(c) = Nothing \/ (ReadAgain(c) = Given("project") /\ ~NamedEarly))
              => ReadAgain(d) = d["chart"] \/ (ReadAgain(d) = Given("project") /\ ~NamedEarly)
<1>1. /\ "chart" \in Key
      /\ \A l \in {"project", "workspace", "home", "option", "env"} : Given(l) # Nothing
      /\ \A l, m \in {"project", "workspace", "home", "option", "env"} : Given(l) = Given(m) => l = m
  BY LookedUpOnly, LayerIs DEF Layer, Given
<1>. DEFINE read(x) == IF Gives("project", "chart") /\ IsNamed(x) THEN Given("project")
                       ELSE IF Gives("workspace", "chart") THEN Given("workspace")
                       ELSE IF Gives("home", "chart") THEN Given("home") ELSE x["chart"]
<1>2. \/ \E l \in {"option", "env"} : \A x : ReadAgain(x) = Given(l)
      \/ \A x : ReadAgain(x) = Files(x)["chart"]
  BY DEF ReadAgain, LookedUp
<1>3. Files(c)["chart"] = read(c) /\ Files(d)["chart"] = read(d)
  BY <1>1, FilesAre
<1>4. CASE \E l \in {"option", "env"} : \A x : ReadAgain(x) = Given(l)
  BY <1>1, <1>4
<1>5. CASE \A x : ReadAgain(x) = Files(x)["chart"]
  <2>1. ReadAgain(c) = read(c) /\ ReadAgain(d) = read(d)
    BY <1>3, <1>5
  <2>. QED
    BY <1>1, <2>1
<1>. QED
  BY <1>2, <1>4, <1>5

LEMMA ChartStays ==
  ASSUME ~Endless, Calls, org \in {"absent", "present"}, PlainIsGiven,
         RemoteStands, NameStands, ChartStands, Next
  PROVE  ChartStands'
<1>0. /\ Gives("remote", "chart")' <=> Gives("remote", "chart")
      /\ InlineKeys' = InlineKeys /\ (NamedEarly' <=> NamedEarly)
      /\ ReadAgain(cfg)' = ReadAgain(cfg')
  <2>1. given' = given
    BY ScenarioStays
  <2>2. Files(cfg)' = Files(cfg')
    BY <2>1 DEF Files, WithProject, Merge, Gives
  <2>3. ReadAgain(cfg)' = ReadAgain(cfg')
    BY <2>1, <2>2 DEF ReadAgain, LookedUp, Gives
  <2>. QED
    BY <2>3, GivesStay
<1>. SUFFICES ASSUME Begun', "chart" \notin InlineKeys, ~Gives("remote", "chart")
              PROVE  ReadAgain(cfg') = cfg'["chart"] \/ (ReadAgain(cfg') = Given("project") /\ ~NamedEarly)
  BY <1>0 DEF ChartStands
<1>1. /\ "chart" \in Key /\ "chart" \in TableKey /\ "chart" \notin RootKey
      /\ RowOf["chart"].by = "none" /\ ~HasFallback("chart")
  BY LookedUpOnly
<1>2. IsNamed(cfg) => IsNamed(cfg')
  BY NameStays DEF IsNamed
<1>3. CASE MainPass
  <2>1. NamedEarly => IsNamed(cfg)
    <3>1. Gives("remote", "projectName") => cfg["projectName"] = Given("remote")
      BY <1>3, LookedUpOnly DEF RemoteStands, MainPass, At
    <3>. QED
      BY <3>1, LayerIs DEF NamedEarly, IsNamed, Layer
  <2>2. cfg'["chart"] = ReadAgain(cfg)
    <3>1. "chart" \in TableKey \ RootKey /\ TableKey \ RootKey \in SUBSET TableKey
      BY <1>1
    <3>. QED
      BY <1>1, <1>3, <3>1, MainPassIs, PassFindsPlain DEF ReadAgain
  <2>. QED
    BY <1>2, <2>1, <2>2, ReadAgainIs
<1>4. CASE Begun /\ ~MainPass
  <2>1. NamedEarly => IsNamed(cfg)
    BY <1>4 DEF NameStands, IsNamed
  <2>2. ReadAgain(cfg) = cfg["chart"] \/ (ReadAgain(cfg) = Given("project") /\ ~NamedEarly)
    BY <1>4 DEF ChartStands
  <2>3. cfg'["chart"] = cfg["chart"] \/ cfg["chart"] = Nothing
    <3>1. CASE RootPass
      <4>1. Merge("remote", cfg)["chart"] = cfg["chart"]
        BY <1>1 DEF Merge
      <4>. QED
        BY <1>1, <3>1, <4>1, PassLeaves, RootKeysAreKeys DEF RootPass
    <3>2. CASE InlinePass
      BY <1>1, <3>2 DEF InlinePass, Merge, InlineKeys
    <3>3. CASE GitOrg
      BY <1>1, <3>3 DEF GitOrg, FillIn
    <3>4. CASE ExtendConfig
      <4>1. ~isDefault["chart"]
        BY <1>1 DEF PlainIsGiven
      <4>2. CASE Extended \subseteq known
        BY <1>1, <3>4, <4>1, <4>2 DEF ExtendConfig, Replaced
      <4>3. CASE ~(Extended \subseteq known)
        BY <3>4, <4>3 DEF ExtendConfig
      <4>. QED
        BY <4>2, <4>3
    <3>5. CASE ReloadOnce \/ SkipDependencies \/ Download \/ Return
      BY <3>5 DEF ReloadOnce, SkipDependencies, Download, Return
    <3>. QED
      BY <1>4, <3>1, <3>2, <3>3, <3>4, <3>5 DEF Next
  <2>4. CASE cfg'["chart"] = cfg["chart"]
    BY <1>2, <2>1, <2>2, <2>4, ReadAgainIs
  <2>5. CASE cfg["chart"] = Nothing
    BY <1>2, <2>1, <2>2, <2>5, ReadAgainIs
  <2>. QED
    BY <2>3, <2>4, <2>5
<1>. QED
  BY <1>3, <1>4, Arrivals


LEMMA ExtendStays ==
  ASSUME ~Endless, Calls, org \in {"absent", "present"}, ExtendsStand, Next
  PROVE  ExtendsStand'
<1>0. InlineKeys' = InlineKeys /\ \A l, k : Gives(l, k)' <=> Gives(l, k)
  BY GivesStay
<1>1. \A l \in {"remote", "home", "workspace", "project", "extends", "option", "env"} : Given(l) # Nothing
  BY LayerIs DEF Layer
<1>2. loaded => loaded'
  BY DEF Next, RootPass, MainPass, InlinePass, ReloadOnce, SkipDependencies, GitOrg,
         Download, ExtendConfig, Return
<1>3. loaded => Extended' = Extended
  BY <1>0, <1>2 DEF Extended
<1>. SUFFICES ASSUME LastCall'
              PROVE  loaded /\ \A k \in Extended \ InlineKeys : cfg'[k] # Nothing /\ ~isDefault'[k]
  BY <1>0, <1>2, <1>3 DEF ExtendsStand
<1>4. CASE ExtendConfig /\ Extended # {} /\ Extended \subseteq known
  <2>1. loaded /\ Extended \subseteq Key
    BY <1>4 DEF Extended
  <2>2. ASSUME NEW k \in Extended
        PROVE  cfg'[k] # Nothing /\ ~isDefault'[k]
    <3>1. /\ cfg'[k] = IF k \in Replaced THEN Given("extends") ELSE cfg[k]
          /\ isDefault'[k] <=> isDefault[k] /\ k \notin Replaced
      BY <1>4, <2>1 DEF ExtendConfig
    <3>2. k \notin Replaced => cfg[k] # Nothing /\ ~isDefault[k]
      BY DEF Replaced
    <3>. QED
      BY <1>1, <3>1, <3>2
  <2>. QED
    BY <2>1, <2>2
<1>5. CASE LastCall
  <2>1. loaded
    BY <1>5 DEF ExtendsStand
  <2>. SUFFICES ASSUME NEW k \in Extended, k \notin InlineKeys
                PROVE  cfg'[k] # Nothing /\ ~isDefault'[k]
    BY <2>1
  <2>2. k \in Key /\ cfg[k] # Nothing /\ ~isDefault[k]
    BY <1>5, <2>1 DEF ExtendsStand, Extended
  <2>3. ASSUME NEW keys \in SUBSET TableKey, NEW c, c[k] # Nothing
        PROVE  Override(keys, c)[k] # Nothing /\ ~Marked(keys, c)[k]
    <3>1. CASE k \in keys
      <4>1. Found(k, c) # Nothing
        BY <1>1, <2>3 DEF Found, LookedUp
      <4>. QED
        BY <2>2, <3>1, <4>1, PassFinds
    <3>2. CASE k \notin keys
      BY <2>2, <2>3, <3>2, PassLeaves
    <3>. QED
      BY <3>1, <3>2
  <2>4. CASE RootPass
    <3>1. Merge("remote", cfg)[k] # Nothing
      BY <1>1, <2>2 DEF Merge
    <3>. QED
      BY <2>3, <2>4, <3>1, RootKeysAreKeys DEF RootPass
  <2>5. CASE MainPass
    <3>1. Files(cfg)[k] # Nothing
      BY <1>1, <2>2, FilesAre
    <3>2. TableKey \ RootKey \in SUBSET TableKey
      OBVIOUS
    <3>. QED
      BY <2>3, <2>5, <3>1, <3>2, MainPassIs
  <2>6. CASE InlinePass
    BY <2>2, <2>6 DEF InlinePass, Merge, InlineKeys
  <2>7. CASE GitOrg
    BY <2>2, <2>7 DEF GitOrg, FillIn
  <2>8. CASE ExtendConfig
    <3>1. k \notin Replaced
      BY <2>2 DEF Replaced
    <3>2. CASE Extended \subseteq known
      BY <2>2, <2>8, <3>1, <3>2 DEF ExtendConfig
    <3>3. CASE ~(Extended \subseteq known)
      BY <2>2, <2>8, <3>3 DEF ExtendConfig
    <3>. QED
      BY <3>2, <3>3
  <2>9. CASE ReloadOnce \/ SkipDependencies \/ Download \/ Return
    BY <2>2, <2>9 DEF ReloadOnce, SkipDependencies, Download, Return
  <2>. QED
    BY <2>4, <2>5, <2>6, <2>7, <2>8, <2>9 DEF Next
<1>. QED
  BY <1>4, <1>5, Arrivals

\* All of it settles.
LEMMA SettledStays ==
  ASSUME ~Endless, Calls, org \in {"absent", "present"}, PlainIsGiven, Settled, [Next]_vars
  PROVE  Settled'
<1>1. CASE UNCHANGED vars
  <2>1. UNCHANGED <<given, org, cfg, isDefault, known, loaded, stack, status>>
    BY <1>1 DEF vars
  <2>2. UNCHANGED <<Begun, Inlined, LastCall, Top>>
    BY <2>1 DEF Begun, Inlined, LastCall, Top
  <2>3. RemoteStands' /\ InlineStands' /\ NameStands' /\ CommandStands' /\ FilesStand'
    BY <2>1, <2>2, GivesStay, <1>1 DEF Settled, RemoteStands, InlineStands, NameStands, CommandStands,
       FilesStand
  <2>4. ReadAgain(cfg)' = ReadAgain(cfg)
    BY <2>1 DEF ReadAgain, Files, LookedUp, WithProject, Merge, Gives
  <2>5. ChartStands'
    BY <2>1, <2>2, <2>4, GivesStay, <1>1 DEF Settled, ChartStands
  <2>6. Extended' = Extended
    BY <2>1, <1>1, GivesStay DEF Extended
  <2>7. ExtendsStand'
    BY <2>1, <2>2, <2>6, GivesStay, <1>1 DEF Settled, ExtendsStand
  <2>. QED
    BY <2>3, <2>5, <2>7 DEF Settled
<1>2. CASE Next
  BY <1>2, RemoteStays, CommandStays, FilesStay, NameStandsStays, ChartStays, InlineStays,
     ExtendStays DEF Settled
<1>. QED
  BY <1>1, <1>2

-----------------------------------------------------------------------------
(* What follows its sources.                                                *)

\* A key that the command line will make late.
Upset(s) == s \in InlineKeys /\ (HasFallback(s) \/ ~\E l \in {"inline", "set"} : OnlyBy(l, s))

\* A default agrees with what it reads.
IsComputed(k) ==
  /\ isDefault[k] /\ cfg[k].by \in {"fallback", "nothing"}
  /\ HasFallback(k) /\ ~RowOf[k].keep
Follows(k) ==
  IsComputed(k) /\ (\A s \in RowOf[k].reads : ~Late(s) /\ ~Upset(s)) => cfg[k] = Fallback(RowOf[k], cfg)
AllFollow == \A k \in TableKey : Follows(k)

\* They do once the last call has made its passes; and the calls go on when
\* there is something to extend.
Derived ==
  /\ \A a \in Step : Lone(a) =>
       /\ a \in {"org", "download", "extends"} => AllFollow \/ Extended # {}
       /\ a = "return" => AllFollow
  /\ \A a \in Waits, b \in Step : Twin(a, b) =>
       /\ b = "main" => \A k \in RootKey : Follows(k)
       /\ b \in {"inline", "again", "org", "download", "extends"} => AllFollow
       /\ b = "return" => AllFollow \/ (Extended # {} /\ a # "return")

LEMMA LateStays ==
  ASSUME given' = given, NEW s
  PROVE  /\ cfg'[s] = cfg[s] => (Late(s)' <=> Late(s))
         /\ Upset(s)' <=> Upset(s)
         /\ Late(s)' <=>
              \/ /\ cfg'[s].by \in Afterwards(s)
                 /\ HasFallback(s) \/ \E l \in Layer \ {cfg'[s].by} : Gives(l, s)
              \/ cfg'[s].by = "extends" /\ s \in InlineKeys
              \/ Gives("remote", s) /\ cfg'[s].by # "remote"
              \/ cfg'[s].by = "project" /\ ~NamedEarly
<1>1. InlineKeys' = InlineKeys /\ (\A l, k : Gives(l, k)' <=> Gives(l, k)) /\ (NamedEarly' <=> NamedEarly)
      /\ \A l, k : OnlyBy(l, k)' <=> OnlyBy(l, k)
  BY DEF InlineKeys, Gives, NamedEarly, OnlyBy
<1>2. Upset(s)' <=> Upset(s)
  BY <1>1 DEF Upset
<1>3. Late(s)' <=> \/ /\ cfg'[s].by \in Afterwards(s)
                      /\ HasFallback(s) \/ \E l \in Layer \ {cfg'[s].by} : Gives(l, s)
                   \/ cfg'[s].by = "extends" /\ s \in InlineKeys
                   \/ Gives("remote", s) /\ cfg'[s].by # "remote"
                   \/ cfg'[s].by = "project" /\ ~NamedEarly
  BY <1>1 DEF Late, NamedEarly
<1>4. Late(s) <=> \/ /\ cfg[s].by \in Afterwards(s)
                     /\ HasFallback(s) \/ \E l \in Layer \ {cfg[s].by} : Gives(l, s)
                  \/ cfg[s].by = "extends" /\ s \in InlineKeys
                  \/ Gives("remote", s) /\ cfg[s].by # "remote"
                  \/ cfg[s].by = "project" /\ ~NamedEarly
  BY DEF Late, NamedEarly
<1>. QED
  BY <1>2, <1>3, <1>4

\* A default still follows when what it reads stays, or becomes late.
LEMMA FollowsStays ==
  ASSUME given' = given, NEW k \in TableKey, Follows(k),
         IsComputed(k)' => IsComputed(k) /\ cfg'[k] = cfg[k],
         \A s \in RowOf[k].reads : ~Late(s)' /\ ~Upset(s) => cfg'[s] = cfg[s]
  PROVE  Follows(k)'
<1>. SUFFICES ASSUME IsComputed(k)', \A s \in RowOf[k].reads : ~Late(s)' /\ ~Upset(s)'
              PROVE  cfg'[k] = Fallback(RowOf[k], cfg)'
  BY DEF Follows
<1>1. \A s \in RowOf[k].reads : ~Upset(s) /\ cfg'[s] = cfg[s] /\ ~Late(s)
  BY LateStays
<1>2. cfg[k] = Fallback(RowOf[k], cfg)
  BY <1>1 DEF Follows
<1>3. Fallback(RowOf[k], cfg)' = Fallback(RowOf[k], cfg')
  BY DEF Fallback, LookedUp, Gives
<1>4. Fallback(RowOf[k], cfg) = Fallback(RowOf[k], cfg')
  <2>1. RowOf[k].needs \in SUBSET RowOf[k].reads
    BY RowIsUsual DEF Usual
  <2>. QED
    BY <1>1, <2>1, FallbackReads
<1>. QED
  BY <1>2, <1>3, <1>4

\* A pass leaves its own keys following.
LEMMA PassFollows ==
  ASSUME given' = given, NEW keys, keys = RootKey \/ keys = TableKey \ RootKey, NEW c,
         cfg' = Override(keys, c), isDefault' = Marked(keys, c), NEW k \in keys
  PROVE  Follows(k)'
<1>. SUFFICES ASSUME IsComputed(k)'
              PROVE  cfg'[k] = Fallback(RowOf[k], cfg)'
  BY DEF Follows
<1>1. Fallback(RowOf[k], cfg)' = Fallback(RowOf[k], cfg')
  BY DEF Fallback, LookedUp, Gives
<1>. QED
  BY <1>1, PassComputes DEF IsComputed

\* Nothing read changes in a step that changes nothing.
LEMMA SameFollows ==
  ASSUME given' = given, NEW k \in TableKey, Follows(k),
         \A s \in Key : cfg'[s] = cfg[s] /\ (isDefault'[s] <=> isDefault[s])
  PROVE  Follows(k)'
<1>1. k \in Key /\ RowOf[k].reads \subseteq Key
  <2>1. RootKey \subseteq Key /\ TableKey \subseteq Key /\ {"chart", "webhook"} \subseteq Key
    BY RootKeysAreKeys, LookedUpOnly DEF Key, PlainKey
  <2>. QED
    BY <2>1, RowReadsAbove
<1>2. IsComputed(k)' => IsComputed(k) /\ cfg'[k] = cfg[k]
  BY <1>1 DEF IsComputed
<1>. QED
  BY <1>1, <1>2, FollowsStays

\* What is read is a key.
LEMMA ReadsAreKeys ==
  ASSUME NEW k \in TableKey
  PROVE  k \in Key /\ RowOf[k].reads \subseteq Key
<1>1. RootKey \subseteq Key /\ TableKey \subseteq Key /\ {"chart", "webhook"} \subseteq Key
  BY RootKeysAreKeys, LookedUpOnly DEF Key, PlainKey
<1>. QED
  BY <1>1, RowReadsAbove

\* What the second pass reads again of "chart" is what the first call found.
LEMMA ChartReadAgain ==
  ASSUME MainPass, Begun, Inlined, Settled, ~Late("chart")', ~Upset("chart")
  PROVE  cfg'["chart"] = cfg["chart"]
<1>. DEFINE s == "chart"
<1>1. s \in Key /\ s \in TableKey /\ s \notin RootKey /\ RowOf[s].by = "none" /\ ~HasFallback(s)
  BY LookedUpOnly
<1>2. given' = given /\ [Next]_vars
  BY ScenarioStays DEF Next
<1>3. cfg'[s] = ReadAgain(cfg)
  <2>1. s \in TableKey \ RootKey /\ TableKey \ RootKey \in SUBSET TableKey
    BY <1>1
  <2>. QED
    BY <1>1, <2>1, MainPassIs, PassFindsPlain DEF ReadAgain
<1>4. CASE s \in InlineKeys
  <2>1. PICK l \in {"inline", "set"} : OnlyBy(l, s)
    BY <1>4 DEF Upset
  <2>2. cfg[s] = Given(l)
    BY <1>1, <2>1 DEF Settled, CommandStands
  <2>. QED
    BY <1>1, <1>2, <2>1, <2>2, OnlyStays
<1>5. CASE Gives("remote", s)
  <2>1. cfg'[s].by = "remote"
    BY <1>2, <1>5, LateStays
  <2>2. \A l \in {"option", "env", "project", "workspace", "home"} : Given(l).by # "remote"
    BY DEF Given
  <2>3. Files(cfg)[s] = IF Gives("project", s) /\ IsNamed(cfg) THEN Given("project")
                        ELSE IF Gives("workspace", s) THEN Given("workspace")
                        ELSE IF Gives("home", s) THEN Given("home") ELSE cfg[s]
    BY <1>1, FilesAre
  <2>. QED
    BY <1>3, <2>1, <2>2, <2>3 DEF ReadAgain, LookedUp
<1>6. CASE s \notin InlineKeys /\ ~Gives("remote", s)
  <2>1. ReadAgain(cfg) = cfg[s] \/ (ReadAgain(cfg) = Given("project") /\ ~NamedEarly)
    BY <1>6 DEF Settled, ChartStands
  <2>2. ~(cfg'[s].by = "project" /\ ~NamedEarly)
    BY <1>2, LateStays
  <2>. QED
    BY <1>3, <2>1, <2>2 DEF Given
<1>. QED
  BY <1>4, <1>5, <1>6

\* In a call that is not the first, the second pass leaves every default
\* following: those of the first table too, though the files come after it.
LEMMA MainFollows ==
  ASSUME MainPass, Begun, Inlined, Settled, \A k \in RootKey : Follows(k)
  PROVE  AllFollow'
<1>1. given' = given /\ [Next]_vars
  BY ScenarioStays DEF Next
<1>2. /\ cfg' = Override(TableKey \ RootKey, Files(cfg))
      /\ isDefault' = Marked(TableKey \ RootKey, Files(cfg))
      /\ TableKey \ RootKey \in SUBSET TableKey
  BY MainPassIs
<1>. SUFFICES ASSUME NEW k \in TableKey
              PROVE  Follows(k)'
  BY <1>1 DEF AllFollow, Follows, TableKey
<1>3. CASE k \notin RootKey
  BY <1>1, <1>2, <1>3, PassFollows
<1>4. CASE k \in RootKey
  <2>1. \A s \in RootKey : s \in Key \ (TableKey \ RootKey) /\ s \in Key
    BY RootKeysAreKeys DEF Key
  <2>2. \A s \in RootKey : cfg'[s] = Files(cfg)[s] /\ (isDefault'[s] <=> isDefault[s])
    BY <1>2, <2>1, PassLeaves
  <2>3. \A s \in RootKey :
          \/ cfg'[s] = cfg[s]
          \/ \E l \in {"home", "workspace", "project"} : Gives(l, s) /\ cfg'[s] = Given(l)
    BY <2>1, <2>2, FilesAre
  <2>4. \A l \in {"home", "workspace", "project"} :
          Given(l).by = l /\ Given(l).by \notin {"fallback", "nothing"} /\ l \in Layer
    BY LayerIs DEF Layer
  <2>5. IsComputed(k)' => IsComputed(k) /\ cfg'[k] = cfg[k]
    <3>1. IsComputed(k)' <=> /\ isDefault'[k] /\ cfg'[k].by \in {"fallback", "nothing"}
                             /\ HasFallback(k) /\ ~RowOf[k].keep
      BY DEF IsComputed
    <3>. QED
      BY <1>4, <2>2, <2>3, <2>4, <3>1 DEF IsComputed
  <2>6. ASSUME NEW s \in RowOf[k].reads, ~Late(s)', ~Upset(s)
        PROVE  cfg'[s] = cfg[s]
    <3>1. s \in RootKey \union {"chart"}
      BY <1>4, RowReadsAbove
    <3>2. CASE s = "chart"
      BY <2>6, <3>2, ChartReadAgain
    <3>3. CASE s \in RootKey
      <4>. SUFFICES ASSUME NEW l \in {"home", "workspace", "project"}, Gives(l, s), cfg'[s] = Given(l)
                    PROVE  cfg[s] = Given(l)
        BY <2>3, <3>3
      <4>1. cfg'[s].by = l /\ l \in Afterwards(s) /\ l \in Layer
        BY <2>4, <3>3 DEF Afterwards
      <4>2. ~HasFallback(s) /\ OnlyBy(l, s) /\ (l = "project" => NamedEarly)
        BY <1>1, <2>6, <4>1, LateStays DEF OnlyBy
      <4>. QED
        BY <3>3, <4>2 DEF Settled, FilesStand
    <3>. QED
      BY <3>1, <3>2, <3>3
  <2>7. Follows(k)
    BY <1>4
  <2>. QED
    BY <1>1, <2>5, <2>6, <2>7, FollowsStays
<1>. QED
  BY <1>3, <1>4

\* So does what the command line gives, once more.
LEMMA InlineFollows ==
  ASSUME InlinePass, Inlined, Settled, AllFollow
  PROVE  AllFollow'
<1>1. given' = given /\ [Next]_vars
  BY ScenarioStays DEF Next
<1>. SUFFICES ASSUME NEW k \in TableKey
              PROVE  Follows(k)'
  BY <1>1 DEF AllFollow, Follows, TableKey
<1>2. \A s \in Key : /\ s \notin InlineKeys => cfg'[s] = cfg[s] /\ (isDefault'[s] <=> isDefault[s])
                     /\ s \in InlineKeys => cfg'[s] = Given("inline") \/ cfg'[s] = Given("set")
  BY DEF InlinePass, Merge, InlineKeys
<1>3. Given("inline").by \notin {"fallback", "nothing"} /\ Given("set").by \notin {"fallback", "nothing"}
  BY DEF Given
<1>4. k \in Key /\ RowOf[k].reads \subseteq Key
  BY ReadsAreKeys
<1>5. IsComputed(k)' => IsComputed(k) /\ cfg'[k] = cfg[k]
  BY <1>2, <1>3, <1>4 DEF IsComputed
<1>6. ASSUME NEW s \in RowOf[k].reads, ~Upset(s)
      PROVE  cfg'[s] = cfg[s]
  <2>1. CASE s \in InlineKeys
    <3>1. PICK l \in {"inline", "set"} : OnlyBy(l, s) /\ ~HasFallback(s)
      BY <1>6, <2>1 DEF Upset
    <3>2. cfg[s] = Given(l)
      BY <1>4, <3>1 DEF Settled, CommandStands
    <3>. QED
      BY <1>1, <1>4, <3>1, <3>2, OnlyStays
  <2>2. CASE s \notin InlineKeys
    BY <1>2, <1>4, <2>2
  <2>. QED
    BY <2>1, <2>2
<1>7. Follows(k)
  BY DEF AllFollow
<1>. QED
  BY <1>1, <1>5, <1>6, <1>7, FollowsStays

\* In the last call an extension only replaces what the command line gives.
LEMMA ExtensionFollows ==
  ASSUME ExtendConfig, Extended \subseteq known, Extended = {} \/ (LastCall /\ Settled), AllFollow
  PROVE  AllFollow'
<1>1. given' = given
  BY ScenarioStays DEF Next
<1>. SUFFICES ASSUME NEW k \in TableKey
              PROVE  Follows(k)'
  BY <1>1 DEF AllFollow, Follows, TableKey
<1>2. \A s \in Key : /\ cfg'[s] = IF s \in Replaced THEN Given("extends") ELSE cfg[s]
                     /\ isDefault'[s] <=> isDefault[s] /\ s \notin Replaced
  BY DEF ExtendConfig
<1>3. Replaced \subseteq InlineKeys
  BY DEF Replaced, Settled, ExtendsStand
<1>4. k \in Key /\ RowOf[k].reads \subseteq Key
  BY ReadsAreKeys
<1>5. IsComputed(k)' => IsComputed(k) /\ cfg'[k] = cfg[k]
  BY <1>2, <1>4 DEF IsComputed
<1>6. ASSUME NEW s \in RowOf[k].reads, ~Late(s)'
      PROVE  cfg'[s] = cfg[s]
  <2>1. ~(cfg'[s].by = "extends" /\ s \in InlineKeys)
    BY <1>1, <1>6, LateStays
  <2>. QED
    BY <1>2, <1>3, <1>4, <2>1 DEF Given
<1>7. Follows(k)
  BY DEF AllFollow
<1>. QED
  BY <1>1, <1>5, <1>6, <1>7, FollowsStays

\* A step that leaves the values leaves the defaults following.
LEMMA LeftFollow ==
  ASSUME given' = given, cfg' = cfg, isDefault' = isDefault, AllFollow
  PROVE  AllFollow'
<1>1. \A k \in TableKey : Follows(k) => Follows(k)'
  BY SameFollows
<1>. QED
  BY <1>1 DEF AllFollow, TableKey

\* Where the calls are, what is asked of the defaults.
LEMMA DerivedThere ==
  ASSUME NEW a, NEW b
  PROVE  /\ /\ Lone(a)'
            /\ a \in {"org", "download", "extends"} => AllFollow' \/ Extended' # {}
            /\ a = "return" => AllFollow'
            => Derived'
         /\ /\ Twin(a, b)'
            /\ b = "main" => \A k \in RootKey : Follows(k)'
            /\ b \in {"inline", "again", "org", "download", "extends"} => AllFollow'
            /\ b = "return" => AllFollow' \/ (Extended' # {} /\ a # "return")
            => Derived'
<1>1. \A x, y : /\ Lone(x)' => Last(stack').at = x /\ Len(stack') = 1
                /\ Twin(x, y)' => Last(stack').at = y /\ stack'[1].at = x /\ Len(stack') = 2
  BY CallIs DEF Lone, Twin
<1>2. ASSUME Lone(a)'
      PROVE  /\ \A x : Lone(x)' => x = a
             /\ \A x, y : ~Twin(x, y)'
  BY <1>1, <1>2
<1>3. ASSUME Twin(a, b)'
      PROVE  /\ \A x : ~Lone(x)'
             /\ \A x, y : Twin(x, y)' => x = a /\ y = b
  BY <1>1, <1>3
<1>4. RootKey' = RootKey
  BY DEF RootKey
<1>5. Derived' <=>
        /\ \A x \in Step : Lone(x)' =>
             /\ x \in {"org", "download", "extends"} => AllFollow' \/ Extended' # {}
             /\ x = "return" => AllFollow'
        /\ \A x \in Waits, y \in Step : Twin(x, y)' =>
             /\ y = "main" => \A k \in RootKey : Follows(k)'
             /\ y \in {"inline", "again", "org", "download", "extends"} => AllFollow'
             /\ y = "return" => AllFollow' \/ (Extended' # {} /\ x # "return")
  BY <1>4 DEF Derived, Step, Waits
<1>. QED
  BY <1>2, <1>3, <1>5

LEMMA LoneDerived ==
  ASSUME ~Endless, Calls, Derived, Next, NEW a \in Step, Lone(a)
  PROVE  Derived'
<1>1. status = "loaded" => a = "return"
  <2>1. \A x : Lone(x) => Last(stack).at = x
    BY CallIs DEF Lone
  <2>. QED
    BY <2>1 DEF Calls
<1>2. given' = given
  BY ScenarioStays
<1>3. /\ a \in {"org", "download", "extends"} => AllFollow \/ Extended # {}
      /\ a = "return" => AllFollow
  BY DEF Derived
<1>4. loaded' = loaded => Extended' = Extended
  BY <1>2 DEF Extended, Gives
<1>5. \/ Lone("main")' \/ Lone("inline")' \/ Lone("again")'
      \/ \E x \in Waits : Twin(x, "root")'
      \/ GitOrg /\ a = "org" /\ cfg' = cfg /\ (Lone("download")' \/ Lone("org")')
      \/ Download /\ a = "download" /\ loaded' = TRUE /\ Lone("extends")'
      \/ Download /\ a = "download" /\ loaded' = loaded /\ Lone("download")'
      \/ ExtendConfig /\ a = "extends" /\ Lone("extends")' /\ cfg' = cfg /\ isDefault' = isDefault
      \/ ExtendConfig /\ a = "extends" /\ Extended = {} /\ Lone("return")'
      \/ Return /\ a = "return" /\ Lone("return")'
  <2>1. {"again", "org", "download", "return"} = Waits
    BY DEF Waits
  <2>. QED
    BY <1>1, <2>1, LoneSteps
<1>6. CASE Lone("main")' \/ Lone("inline")' \/ Lone("again")'
  BY <1>6, DerivedThere
<1>7. CASE \E x \in Waits : Twin(x, "root")'
  BY <1>7, DerivedThere
<1>8. CASE GitOrg /\ a = "org" /\ cfg' = cfg /\ (Lone("download")' \/ Lone("org")')
  <2>1. isDefault' = isDefault /\ loaded' = loaded
    BY <1>8 DEF GitOrg
  <2>2. AllFollow' \/ Extended' # {}
    BY <1>2, <1>3, <1>4, <1>8, <2>1, LeftFollow
  <2>. QED
    BY <1>8, <2>2, DerivedThere
<1>9. CASE Download /\ a = "download" /\ loaded' = TRUE /\ Lone("extends")'
  <2>1. isDefault' = isDefault /\ cfg' = cfg
    BY <1>9 DEF Download
  <2>2. Extended # {} => Extended' # {}
    BY <1>2, <1>9 DEF Extended, Gives
  <2>3. AllFollow' \/ Extended' # {}
    BY <1>2, <1>3, <1>9, <2>1, <2>2, LeftFollow
  <2>. QED
    BY <1>9, <2>3, DerivedThere
<1>10. CASE Download /\ a = "download" /\ loaded' = loaded /\ Lone("download")'
  <2>1. isDefault' = isDefault /\ cfg' = cfg
    BY <1>10 DEF Download
  <2>2. AllFollow' \/ Extended' # {}
    BY <1>2, <1>3, <1>4, <1>10, <2>1, LeftFollow
  <2>. QED
    BY <1>10, <2>2, DerivedThere
<1>11. CASE ExtendConfig /\ a = "extends" /\ Lone("extends")' /\ cfg' = cfg /\ isDefault' = isDefault
  <2>1. loaded' = loaded
    BY <1>11 DEF ExtendConfig
  <2>2. AllFollow' \/ Extended' # {}
    BY <1>2, <1>3, <1>4, <1>11, <2>1, LeftFollow
  <2>. QED
    BY <1>11, <2>2, DerivedThere
<1>12. CASE ExtendConfig /\ a = "extends" /\ Extended = {} /\ Lone("return")'
  <2>1. AllFollow'
    BY <1>3, <1>12, ExtensionFollows
  <2>. QED
    BY <1>12, <2>1, DerivedThere
<1>13. CASE Return /\ a = "return" /\ Lone("return")'
  <2>1. isDefault' = isDefault /\ cfg' = cfg
    BY <1>13 DEF Return
  <2>2. AllFollow'
    BY <1>2, <1>3, <1>13, <2>1, LeftFollow
  <2>. QED
    BY <1>13, <2>2, DerivedThere
<1>. QED
  BY <1>5, <1>6, <1>7, <1>8, <1>9, <1>10, <1>11, <1>12, <1>13

LEMMA TwinDerived ==
  ASSUME ~Endless, Calls, org \in {"absent", "present"}, Settled, Derived, Next,
         NEW a \in Waits, NEW b \in Step, Twin(a, b)
  PROVE  Derived'
<1>1. stack[1].at = a /\ Top.at = b /\ Len(stack) = 2
  BY CallIs DEF Twin, Top
<1>2. given' = given
  BY ScenarioStays
<1>3. Begun /\ Inlined /\ (a = "return" => LastCall)
  BY <1>1 DEF Begun, Inlined, LastCall, Waits
<1>4. /\ b = "main" => \A k \in RootKey : Follows(k)
      /\ b \in {"inline", "again", "org", "download", "extends"} => AllFollow
      /\ b = "return" => AllFollow \/ (Extended # {} /\ a # "return")
  BY DEF Derived
<1>5. loaded' = loaded => Extended' = Extended
  BY <1>2 DEF Extended, Gives
<1>6. \/ RootPass /\ Twin(a, "main")'
      \/ MainPass /\ b = "main" /\ Twin(a, "inline")'
      \/ InlinePass /\ b = "inline" /\ Twin(a, "again")'
      \/ /\ b \in {"again", "org", "download", "extends"} /\ cfg' = cfg /\ isDefault' = isDefault
         /\ \E x \in {"org", "download", "extends"} : Twin(a, x)'
      \/ ExtendConfig /\ b = "extends" /\ Extended \subseteq known /\ Twin(a, "return")'
      \/ Return /\ b = "return" /\ Lone(a)'
  <2>1. /\ ReloadOnce \/ SkipDependencies \/ Download => cfg' = cfg /\ isDefault' = isDefault
        /\ GitOrg => isDefault' = isDefault
    BY DEF ReloadOnce, SkipDependencies, Download, GitOrg
  <2>2. \/ RootPass /\ b = "root" /\ Twin(a, "main")'
        \/ MainPass /\ b = "main" /\ Twin(a, "inline")'
        \/ InlinePass /\ b = "inline" /\ Twin(a, "again")'
        \/ ReloadOnce /\ b = "again" /\ Twin(a, "org")'
        \/ SkipDependencies /\ b = "org" /\ Twin(a, "extends")'
        \/ GitOrg /\ b = "org" /\ cfg' = cfg /\ (Twin(a, "download")' \/ Twin(a, "org")')
        \/ /\ Download /\ b = "download" 
           /\ Twin(a, "extends")' \/ (Twin(a, "download")' /\ loaded' = loaded)
        \/ /\ ExtendConfig /\ b = "extends"
           /\ \/ Twin(a, "extends")' /\ cfg' = cfg /\ isDefault' = isDefault
              \/ Twin(a, "return")' /\ Extended \subseteq known
        \/ Return /\ b = "return" /\ Lone(a)'
    BY TwinSteps
  <2>. QED
    BY <2>1, <2>2
<1>7. CASE RootPass /\ Twin(a, "main")'
  <2>1. cfg' = Override(RootKey, Merge("remote", cfg)) /\ isDefault' = Marked(RootKey, Merge("remote", cfg))
    BY <1>7 DEF RootPass
  <2>2. \A k \in RootKey : Follows(k)'
    BY <1>2, <2>1, PassFollows
  <2>. QED
    BY <1>7, <2>2, DerivedThere
<1>8. CASE MainPass /\ b = "main" /\ Twin(a, "inline")'
  <2>1. AllFollow'
    BY <1>3, <1>4, <1>8, MainFollows
  <2>. QED
    BY <1>8, <2>1, DerivedThere
<1>9. CASE InlinePass /\ b = "inline" /\ Twin(a, "again")'
  <2>1. AllFollow'
    BY <1>3, <1>4, <1>9, InlineFollows
  <2>. QED
    BY <1>9, <2>1, DerivedThere
<1>10. CASE /\ b \in {"again", "org", "download", "extends"} /\ cfg' = cfg /\ isDefault' = isDefault
            /\ \E x \in {"org", "download", "extends"} : Twin(a, x)'
  <2>1. AllFollow'
    BY <1>2, <1>4, <1>10, LeftFollow
  <2>. QED
    BY <1>10, <2>1, DerivedThere
<1>11. CASE ExtendConfig /\ b = "extends" /\ Extended \subseteq known /\ Twin(a, "return")'
  <2>1. loaded' = loaded
    BY <1>11 DEF ExtendConfig
  <2>2. AllFollow' \/ (Extended' # {} /\ a # "return")
    BY <1>3, <1>4, <1>5, <1>11, <2>1, ExtensionFollows
  <2>. QED
    BY <1>11, <2>2, DerivedThere
<1>12. CASE Return /\ b = "return" /\ Lone(a)'
  <2>1. cfg' = cfg /\ isDefault' = isDefault /\ loaded' = loaded
    BY <1>12 DEF Return
  <2>2. AllFollow' \/ (Extended' # {} /\ a # "return")
    BY <1>2, <1>4, <1>5, <1>12, <2>1, LeftFollow
  <2>. QED
    BY <1>12, <2>2, DerivedThere
<1>. QED
  BY <1>6, <1>7, <1>8, <1>9, <1>10, <1>11, <1>12

\* So the defaults follow wherever the calls are.
LEMMA DerivedStays ==
  ASSUME ~Endless, Calls, org \in {"absent", "present"}, Settled, Derived, [Next]_vars
  PROVE  Derived'
<1>1. CASE UNCHANGED vars
  <2>1. UNCHANGED <<given, cfg, isDefault, loaded, stack>>
    BY <1>1 DEF vars
  <2>2. \A a, b : /\ Lone(a)' <=> Lone(a)
                  /\ Twin(a, b)' <=> Twin(a, b)
    BY <2>1 DEF Lone, Twin
  <2>3. AllFollow => AllFollow'
    BY <2>1, LeftFollow
  <2>4. \A k \in RootKey : Follows(k) => Follows(k)'
    BY <2>1, SameFollows, RootKeysAreKeys
  <2>5. Extended' = Extended
    BY <2>1 DEF Extended, Gives
  <2>6. (\E a \in Step : Lone(a)) \/ (\E a \in Waits, b \in Step : Twin(a, b))
    BY DEF Calls
  <2>7. ASSUME NEW a \in Step, Lone(a)
        PROVE  Derived'
    <3>1. /\ a \in {"org", "download", "extends"} => AllFollow \/ Extended # {}
          /\ a = "return" => AllFollow
      BY <2>7 DEF Derived
    <3>. QED
      BY <2>2, <2>3, <2>5, <2>7, <3>1, DerivedThere
  <2>8. ASSUME NEW a \in Waits, NEW b \in Step, Twin(a, b)
        PROVE  Derived'
    <3>1. /\ b = "main" => \A k \in RootKey : Follows(k)
          /\ b \in {"inline", "again", "org", "download", "extends"} => AllFollow
          /\ b = "return" => AllFollow \/ (Extended # {} /\ a # "return")
      BY <2>8 DEF Derived
    <3>. QED
      BY <2>2, <2>3, <2>4, <2>5, <2>8, <3>1, DerivedThere
  <2>. QED
    BY <2>6, <2>7, <2>8
<1>2. CASE Next
  <2>1. (\E a \in Step : Lone(a)) \/ (\E a \in Waits, b \in Step : Twin(a, b))
    BY DEF Calls
  <2>. QED
    BY <1>2, <2>1, LoneDerived, TwinDerived
<1>. QED
  BY <1>1, <1>2

-----------------------------------------------------------------------------
(* The theorem.                                                             *)

ConfigInv ==
  /\ StackOK /\ org \in {"absent", "present"}
  /\ Calls /\ PlainIsGiven
  /\ ~Endless => Settled /\ Derived

LEMMA ConfigStarts == Init => ConfigInv
<1>. SUFFICES ASSUME Init
              PROVE  ConfigInv
  OBVIOUS
<1>1. Lone("root") /\ status = "loading" /\ "root" \in Step
  BY DEF Init, Lone, Outer, Step
<1>2. StackOK /\ Top.at = "root" /\ stack[1].at = "root" /\ Len(stack) = 1
  <2>1. Outer("root") \in Call
    BY DEF Outer, Call, Step
  <2>2. stack = <<Outer("root")>>
    BY <1>1 DEF Lone
  <2>3. stack \in Seq(Call) /\ Len(stack) = 1
    BY <2>1, <2>2
  <2>. QED
    BY <2>2, <2>3, CallIs DEF StackOK, Top
<1>3. \A x, y : (Lone(x) => x = "root") /\ ~Twin(x, y)
  <2>1. \A x, y : (Lone(x) => stack[1].at = x) /\ (Twin(x, y) => Len(stack) = 2)
    BY CallIs DEF Lone, Twin
  <2>. QED
    BY <1>2, <2>1
<1>4. Calls
  BY <1>1, <1>2 DEF Calls
<1>5. PlainIsGiven
  BY DEF Init, PlainIsGiven
<1>6. Settled
  BY <1>2 DEF Settled, RemoteStands, CommandStands, FilesStand, NameStands, ChartStands,
              InlineStands, ExtendsStand, Begun, Inlined, LastCall
<1>7. Derived
  BY <1>3 DEF Derived
<1>. QED
  BY <1>2, <1>4, <1>5, <1>6, <1>7 DEF ConfigInv, Init

LEMMA ConfigStays == ConfigInv /\ [Next]_vars => ConfigInv'
<1>. SUFFICES ASSUME ConfigInv, [Next]_vars
              PROVE  ConfigInv'
  OBVIOUS
<1>1. org' = org /\ (Endless' <=> Endless)
  BY ScenarioStays, GivesStay
<1>2. StackOK' /\ Calls' /\ PlainIsGiven'
  BY StackStays, CallsStay, PlainStays DEF ConfigInv
<1>3. ~Endless => Settled' /\ Derived'
  BY SettledStays, DerivedStays DEF ConfigInv
<1>. QED
  BY <1>1, <1>2, <1>3 DEF ConfigInv

LEMMA ConfigFollows == ConfigInv => DerivedFollowsItsSources
<1>. SUFFICES ASSUME ConfigInv, status = "loaded", NEW k \in TableKey,
                     isDefault[k], cfg[k].by \in {"fallback", "nothing"},
                     HasFallback(k), ~RowOf[k].keep, \A s \in RowOf[k].reads : ~Late(s)
              PROVE  cfg[k] = Fallback(RowOf[k], cfg)
  BY DEF DerivedFollowsItsSources
<1>1. ~Endless /\ Lone("return")
  BY DEF ConfigInv, Calls
<1>2. Settled /\ Derived
  BY <1>1 DEF ConfigInv
<1>3. Follows(k)
  BY <1>1, <1>2 DEF Derived, AllFollow, Step
<1>4. ASSUME NEW s \in RowOf[k].reads
      PROVE  ~Upset(s)
  <2>. SUFFICES ASSUME s \in InlineKeys
                PROVE  ~HasFallback(s) /\ \E l \in {"inline", "set"} : OnlyBy(l, s)
    BY DEF Upset
  <2>1. ~Late(s)
    OBVIOUS
  <2>2. Top.at = "return"
    BY <1>1, CallIs DEF Lone, Top
  <2>3. cfg[s].by \in {"inline", "set", "extends"}
    BY <1>2, <2>2 DEF Settled, InlineStands
  <2>4. cfg[s].by \in {"inline", "set"}
    BY <2>1, <2>3 DEF Late
  <2>5. ~HasFallback(s) /\ \A l \in Layer \ {cfg[s].by} : ~Gives(l, s)
    BY <2>1, <2>4 DEF Late, Afterwards
  <2>6. \E l \in {"inline", "set"} : Gives(l, s)
    BY DEF InlineKeys
  <2>7. Gives(cfg[s].by, s)
    BY <2>4, <2>5, <2>6 DEF Layer
  <2>. QED
    BY <2>4, <2>5, <2>7 DEF OnlyBy
<1>. QED
  BY <1>3, <1>4 DEF Follows, IsComputed

\* Once the configuration is loaded, a default computed from other keys agrees
\* with their final values: the reloads reach every reader of a value that
\* arrived late, whatever is given together and in whatever layers, but for
\* the values that are merged after their readers in each of the passes.
THEOREM DefaultsFollow == Spec => []DerivedFollowsItsSources
<1>. QED
  BY ConfigStarts, ConfigStays, ConfigFollows, PTL DEF Spec

\* An organization that is read and dependencies given on the command line: the
\* call of loadConfig in progress never comes past its git organization, so that
\* the configuration is never loaded (load-config.js:939-981, 1011-1020).
THEOREM SomeLoadsGoOn == Spec => [](Endless => status = "loading")
<1>1. ConfigInv => (Endless => status = "loading")
  BY DEF ConfigInv, Calls
<1>. QED
  BY <1>1, ConfigStarts, ConfigStays, PTL DEF Spec

-----------------------------------------------------------------------------
\* A recursion: nothing depends on itself, whatever goes between, and a value is
\* made of those of what x depends on.
Grounded(S, dep) ==
  \A T \in SUBSET S : T # {} => \E x \in T : dep[x] \cap T = {}
Recursion(S, V, dep, made) ==
  /\ V # {} /\ dep \in [S -> SUBSET S] /\ made \in [S \X [S -> V] -> V]
  /\ Grounded(S, dep)
  /\ \A x \in S : \A f, g \in [S -> V] :
       (\A y \in dep[x] : f[y] = g[y]) => made[<<x, f>>] = made[<<x, g>>]
Solution(S, V, made, f) == f \in [S -> V] /\ \A x \in S : f[x] = made[<<x, f>>]

\* It has a solution.
LEMMA RecursionEnds ==
  ASSUME NEW S, NEW V, NEW dep, NEW made, Recursion(S, V, dep, made)
  PROVE  \E f : Solution(S, V, made, f)
<1>. USE DEF Grounded, Recursion, Solution
<1>. DEFINE Partial(D, f) == /\ \A x \in D : dep[x] \subseteq D
                             /\ \A x \in D : f[x] = made[<<x, f>>]
            Good == {x \in S : \E D \in SUBSET S, f \in [S -> V] : Partial(D, f) /\ x \in D}
            Value(x, v) == \E D \in SUBSET S, f \in [S -> V] :
                             Partial(D, f) /\ x \in D /\ v = f[x]
            G == [x \in S |-> IF x \in Good THEN CHOOSE v \in V : Value(x, v)
                              ELSE CHOOSE v \in V : TRUE]
<1>1. ASSUME NEW D \in SUBSET S, NEW E \in SUBSET S,
             NEW f \in [S -> V], NEW g \in [S -> V], Partial(D, f), Partial(E, g)
      PROVE  \A x \in D \cap E : f[x] = g[x]
  <2>. DEFINE T == {x \in D \cap E : f[x] # g[x]}
  <2>1. SUFFICES ASSUME T # {} PROVE FALSE
    OBVIOUS
  <2>2. PICK x \in T : dep[x] \cap T = {}
    BY <2>1
  <2>3. dep[x] \subseteq D \cap E /\ x \in S
    BY <1>1, <2>2
  <2>4. \A y \in dep[x] : f[y] = g[y]
    BY <2>2, <2>3
  <2>5. f[x] = made[<<x, f>>] /\ g[x] = made[<<x, g>>] /\ f[x] # g[x]
    BY <1>1, <2>2
  <2>. HIDE DEF T, Partial
  <2>. QED
    BY <2>3, <2>4, <2>5
<1>2. ASSUME NEW D \in SUBSET S, NEW f \in [S -> V], Partial(D, f), NEW x \in D
      PROVE  x \in Good /\ G[x] = f[x]
  <2>1. x \in Good
    BY <1>2
  <2>2. Value(x, f[x]) /\ f[x] \in V
    BY <1>2
  <2>3. ASSUME NEW v \in V, Value(x, v) PROVE v = f[x]
    <3>1. PICK E \in SUBSET S, g \in [S -> V] : Partial(E, g) /\ x \in E /\ v = g[x]
      BY <2>3
    <3>. HIDE DEF Partial
    <3>. QED
      BY <1>1, <1>2, <3>1
  <2>4. x \in S /\ G[x] = CHOOSE v \in V : Value(x, v)
    BY <2>1
  <2>. HIDE DEF Value, Good, G
  <2>. QED
    BY <2>1, <2>2, <2>3, <2>4
<1>3. G \in [S -> V]
  <2>1. ASSUME NEW x \in Good PROVE \E v \in V : Value(x, v)
    OBVIOUS
  <2>. HIDE DEF Good, Value
  <2>. QED
    BY <2>1
<1>4. Partial(Good, G)
  <2>1. ASSUME NEW x \in Good
        PROVE  dep[x] \subseteq Good /\ G[x] = made[<<x, G>>]
    <3>1. PICK D \in SUBSET S, f \in [S -> V] : Partial(D, f) /\ x \in D
      OBVIOUS
    <3>2. dep[x] \subseteq D /\ f[x] = made[<<x, f>>]
      BY <3>1
    <3>. HIDE DEF Good, G
    <3>3. \A y \in D : y \in Good /\ G[y] = f[y]
      <4>. HIDE DEF Partial
      <4>. QED
        BY <1>2, <3>1
    <3>4. x \in S /\ dep[x] \subseteq Good /\ G[x] = f[x] /\ \A y \in dep[x] : f[y] = G[y]
      BY <3>1, <3>2, <3>3
    <3>5. made[<<x, f>>] = made[<<x, G>>]
      BY <1>3, <3>4
    <3>. QED
      BY <3>2, <3>4, <3>5
  <2>. HIDE DEF Good, G
  <2>. QED
    BY <2>1
<1>5. Good = S
  <2>1. SUFFICES ASSUME S \ Good # {} PROVE FALSE
    OBVIOUS
  <2>2. PICK m \in S \ Good : dep[m] \cap (S \ Good) = {}
    BY <2>1
  <2>. DEFINE H == [G EXCEPT ![m] = made[<<m, G>>]]
              D == Good \union {m}
  <2>3. m \in S /\ m \notin Good /\ dep[m] \subseteq Good /\ Good \subseteq S
    BY <2>2
  <2>. HIDE DEF Good, G
  <2>4. H \in [S -> V]
    BY <1>3, <2>3
  <2>5. ASSUME NEW x \in D PROVE dep[x] \subseteq Good
    BY <1>4, <2>3
  <2>6. ASSUME NEW x \in D PROVE H[x] = made[<<x, H>>]
    <3>1. \A y \in dep[x] : G[y] = H[y]
      BY <1>3, <2>3, <2>5
    <3>2. x \in S
      BY <2>3
    <3>3. H[x] = made[<<x, G>>]
      <4>1. CASE x = m
        BY <1>3, <2>3, <4>1
      <4>2. CASE x # m
        <5>1. x \in Good /\ x \in S /\ H[x] = G[x]
          BY <1>3, <2>3, <4>2
        <5>. QED
          BY <1>4, <5>1
      <4>. QED
        BY <4>1, <4>2
    <3>. HIDE DEF H
    <3>4. made[<<x, G>>] = made[<<x, H>>]
      BY <1>3, <2>4, <3>1, <3>2
    <3>. QED
      BY <3>3, <3>4
  <2>7. Partial(D, H) /\ m \in D /\ D \in SUBSET S
    BY <2>3, <2>5, <2>6
  <2>. HIDE DEF H, D, Partial
  <2>. QED
    BY <1>2, <2>3, <2>4, <2>7
<1>. HIDE DEF G, Good
<1>. QED
  BY <1>3, <1>4, <1>5

-----------------------------------------------------------------------------
\* Finite sets: one element less, the greatest of numbers, images.
LEMMA OneLess ==
  ASSUME NEW U, IsFiniteSet(U), NEW x \in U, NEW n \in Nat, Cardinality(U) = n + 1
  PROVE  IsFiniteSet(U \ {x}) /\ Cardinality(U \ {x}) = n
<1>1. IsFiniteSet(U \ {x}) /\ Cardinality(U \ {x}) = Cardinality(U) - 1
  BY FS_RemoveElement
<1>. QED
  BY <1>1

\* A finite set of numbers that is not empty has a greatest one.
LEMMA Greatest ==
  ASSUME NEW T \in SUBSET Nat, IsFiniteSet(T), T # {}
  PROVE  \E l \in T : \A k \in T : k <= l
<1>. DEFINE S == {n \in Nat : \A U \in SUBSET Nat :
                    IsFiniteSet(U) /\ Cardinality(U) = n /\ U # {} =>
                      \E l \in U : \A k \in U : k <= l}
<1>1. 0 \in S
  BY FS_EmptySet
<1>2. ASSUME NEW n \in Nat, n \in S
      PROVE  n + 1 \in S
  <2>1. ASSUME NEW U \in SUBSET Nat, IsFiniteSet(U), Cardinality(U) = n + 1, U # {}
        PROVE  \E l \in U : \A k \in U : k <= l
    <3>1. PICK x \in U : TRUE
      BY <2>1
    <3>2. IsFiniteSet(U \ {x}) /\ Cardinality(U \ {x}) = n
      BY <2>1, <3>1, OneLess
    <3>3. CASE U \ {x} = {}
      BY <3>1, <3>3
    <3>4. CASE U \ {x} # {}
      <4>1. PICK l \in U \ {x} : \A k \in U \ {x} : k <= l
        BY <1>2, <3>2, <3>4
      <4>. QED
        BY <3>1, <4>1
    <3>. QED
      BY <3>3, <3>4
  <2>. QED
    BY <2>1
<1>. HIDE DEF S
<1>3. Cardinality(T) \in S
  BY <1>1, <1>2, Induct, FS_CardinalityType
<1>. QED
  BY <1>3 DEF S

\* What a function gives on a finite set is finite.
LEMMA FiniteImage ==
  ASSUME NEW S, IsFiniteSet(S), NEW f
  PROVE  IsFiniteSet({f[x] : x \in S})
<1>. DEFINE T == {f[x] : x \in S}
            g == [x \in S |-> f[x]]
<1>1. g \in Surjection(S, T)
  BY DEF Surjection
<1>. HIDE DEF T, g
<1>2. IsFiniteSet(T)
  BY <1>1, FS_Surjection
<1>. QED
  BY <1>2 DEF T

-----------------------------------------------------------------------------
(* The waves.                                                               *)

LEMMA DeepnessIs ==
  ASSUME NEW ms, IsFiniteSet(ms), NEW m \in ms, NEW level \in [ms -> Nat]
  PROVE  /\ Deepness(m, ms, level) \in Nat
         /\ \A d \in NeedsBeyond(m, ms) : level[d] < Deepness(m, ms, level)
<1>. DEFINE deps == NeedsBeyond(m, ms)
            up == [d \in ms |-> level[d] + 1]
            levels == {0} \union {OneDeeper(level[d]) : d \in deps}
<1>1. deps \subseteq ms
  BY DEF NeedsBeyond, NeedsOf, Matching
<1>. HIDE DEF deps
<1>0. up \in [ms -> Nat]
  OBVIOUS
<1>2. levels = {0} \union {up[d] : d \in deps}
  BY <1>1 DEF OneDeeper
<1>3. IsFiniteSet({up[d] : d \in deps})
  <2>1. IsFiniteSet(deps)
    BY <1>1, FS_Subset
  <2>. HIDE DEF up
  <2>. QED
    BY <2>1, FiniteImage
<1>4. IsFiniteSet(levels) /\ levels \subseteq Nat /\ levels # {}
  <2>1. IsFiniteSet({0})
    BY FS_Singleton
  <2>2. IsFiniteSet({0} \union {up[d] : d \in deps})
    BY <1>3, <2>1, FS_Union
  <2>3. {up[d] : d \in deps} \subseteq Nat
    <3>. HIDE DEF up
    <3>. QED
      BY <1>0, <1>1
  <2>. HIDE DEF levels, up
  <2>. QED
    BY <1>2, <2>2, <2>3
<1>5. Deepness(m, ms, level) = CHOOSE l \in levels : \A k \in levels : k <= l
  BY DEF Deepness, deps
<1>6. \A d \in deps : OneDeeper(level[d]) \in levels
  OBVIOUS
<1>. HIDE DEF levels
<1>7. PICK l \in levels : \A k \in levels : k <= l
  BY <1>4, Greatest
<1>8. /\ Deepness(m, ms, level) \in levels
      /\ \A k \in levels : k <= Deepness(m, ms, level)
  BY <1>5, <1>7
<1>9. \A d \in deps : level[d] < Deepness(m, ms, level)
  <2>. SUFFICES ASSUME NEW d \in deps PROVE level[d] < Deepness(m, ms, level)
    OBVIOUS
  <2>1. level[d] + 1 \in levels /\ level[d] \in Nat
    BY <1>1, <1>6 DEF OneDeeper
  <2>2. Deepness(m, ms, level) \in Nat /\ level[d] + 1 <= Deepness(m, ms, level)
    BY <1>4, <1>8, <2>1
  <2>. QED
    BY <2>1, <2>2
<1>. QED
  BY <1>4, <1>8, <1>9 DEF deps

\* Where no needs go in a circle, the deepness of all is defined.
LEMMA LevelIs ==
  ASSUME NEW ms, IsFiniteSet(ms), ~Circular(ms)
  PROVE  /\ Level(ms) \in [ms -> Nat]
         /\ \A m \in ms : Level(ms)[m] = Deepness(m, ms, Level(ms))
<1>. DEFINE dep == [m \in ms |-> NeedsBeyond(m, ms)]
            deeper == [x \in ms \X [ms -> Nat] |-> Deepness(x[1], ms, x[2])]
<1>1. dep \in [ms -> SUBSET ms]
  BY DEF NeedsBeyond, NeedsOf, Matching
<1>2. ASSUME NEW T \in SUBSET ms, T # {}
      PROVE  \E m \in T : dep[m] \cap T = {}
  <2>1. SUFFICES ASSUME \A m \in T : NeedsBeyond(m, ms) \cap T # {} PROVE FALSE
    OBVIOUS
  <2>2. T \in SUBSET {m \in ms : NeedsBeyond(m, ms) # {}}
    BY <2>1
  <2>. QED
    BY <1>2, <2>1, <2>2 DEF Circular
<1>3. deeper \in [ms \X [ms -> Nat] -> Nat]
  BY DeepnessIs
<1>4. ASSUME NEW m \in ms, NEW f \in [ms -> Nat], NEW g \in [ms -> Nat],
             \A d \in dep[m] : f[d] = g[d]
      PROVE  deeper[<<m, f>>] = deeper[<<m, g>>]
  <2>1. \A d \in NeedsBeyond(m, ms) : f[d] = g[d]
    BY <1>4
  <2>2. {OneDeeper(f[d]) : d \in NeedsBeyond(m, ms)} = {OneDeeper(g[d]) : d \in NeedsBeyond(m, ms)}
    BY <2>1
  <2>3. Deepness(m, ms, f) = Deepness(m, ms, g)
    BY <2>2 DEF Deepness
  <2>. QED
    BY <2>3
<1>5. \E f : Solution(ms, Nat, deeper, f)
  <2>. HIDE DEF dep, deeper
  <2>1. Recursion(ms, Nat, dep, deeper)
    BY <1>1, <1>2, <1>3, <1>4 DEF Recursion, Grounded
  <2>. QED
    BY <2>1, RecursionEnds
<1>6. PICK f \in [ms -> Nat] : \A m \in ms : f[m] = Deepness(m, ms, f)
  BY <1>5 DEF Solution
<1>7. f = [m \in ms |-> Deepness(m, ms, f)]
  BY <1>6
<1>. DEFINE l == CHOOSE level : level = [m \in ms |-> Deepness(m, ms, level)]
<1>8. l = [m \in ms |-> Deepness(m, ms, l)]
  BY <1>7
<1>9. Level(ms) = l
  BY DEF Level
<1>. HIDE DEF l
<1>10. l \in [ms -> Nat]
  <2>. DEFINE T == {m \in ms : l[m] \notin Nat}
              g == [m \in ms |-> IF l[m] \in Nat THEN l[m] ELSE 0]
  <2>1. SUFFICES ASSUME T # {} PROVE FALSE
    BY <1>8
  <2>2. T \in SUBSET ms
    OBVIOUS
  <2>3. PICK m \in T : NeedsBeyond(m, ms) \cap T = {}
    <3>. HIDE DEF T
    <3>1. PICK m \in T : dep[m] \cap T = {}
      BY <1>2, <2>1, <2>2
    <3>2. dep[m] = NeedsBeyond(m, ms)
      BY <2>2
    <3>. QED
      BY <3>1, <3>2
  <2>4. m \in ms /\ NeedsBeyond(m, ms) \subseteq ms /\ l[m] \notin Nat
    BY <2>3 DEF NeedsBeyond, NeedsOf, Matching
  <2>5. \A d \in NeedsBeyond(m, ms) : l[d] = g[d]
    BY <2>3, <2>4
  <2>6. {OneDeeper(l[d]) : d \in NeedsBeyond(m, ms)} = {OneDeeper(g[d]) : d \in NeedsBeyond(m, ms)}
    BY <2>5
  <2>7. Deepness(m, ms, l) = Deepness(m, ms, g)
    BY <2>6 DEF Deepness
  <2>8. g \in [ms -> Nat]
    OBVIOUS
  <2>. HIDE DEF g
  <2>. QED
    BY <1>8, <2>4, <2>7, <2>8, DeepnessIs
<1>. QED
  BY <1>8, <1>9, <1>10

-----------------------------------------------------------------------------
(* The runs of jobs are finitely many.                                      *)

\* The provers do not know that "" is a string.
Part == STRING \union {""}
Compiled == [name : Seq(Part), needs : SUBSET Seq(Part), stage : Seq(STRING)]

\* A use that is located names a job of a plugin.
LEMMA JobsAreThere ==
  ASSUME NEW use, Locations(use) # {}
  PROVE  JobFor(use) \in PluginJob
<1>1. Located(use) \in Locations(use)
  BY UsesType DEF Locations
<1>. QED
  BY <1>1 DEF JobFor, PluginJob, Locations

\* Names put before a sequence of names.
LEMMA Prefixed ==
  ASSUME NEW S, NEW k \in S, NEW l \in S
  PROVE  /\ <<k>> \in Seq(S)
         /\ \A n \in Seq(S) : <<k>> \o n \in Seq(S) /\ <<k, l>> \o n \in Seq(S)
OBVIOUS

\* Sequences over a set are sequences over a larger one.
LEMMA Wider ==
  ASSUME NEW S, NEW T, S \subseteq T
  PROVE  Seq(S) \subseteq Seq(T)
OBVIOUS

\* What a run compiles to is of the kind Compiled, and finitely much of it
\* when the job it uses makes finitely many runs.
LEMMA CompileRunIs ==
  ASSUME NEW first \in STRING, NEW k \in STRING, NEW run,
         run.needs \subseteq Seq(STRING), run.stage \in Seq(STRING),
         NEW inside \in [PluginJob -> SUBSET Compiled]
  PROVE  /\ CompileRun(first, k, run, inside) \subseteq Compiled
         /\ (run.use # "" /\ Locations(run.use) # {} => IsFiniteSet(inside[JobFor(run.use)]))
              => IsFiniteSet(CompileRun(first, k, run, inside))
<1>. DEFINE job == JobFor(run.use)
            made == [r \in Compiled |-> [r EXCEPT
               !.name = <<k>> \o @,
               !.needs = Lifted(first, @) \union run.needs,
               !.stage = IF run.stage # <<>> THEN run.stage ELSE @]]
<1>0. k \in Part /\ first \in Part /\ "" \in Part /\ run.needs \subseteq Seq(Part)
  <2>1. Seq(STRING) \subseteq Seq(Part)
    BY Wider DEF Part
  <2>. QED
    BY <2>1 DEF Part
<1>1. CASE run.use = ""
  <2>1. <<k>> \in Seq(Part)
    BY <1>0, Prefixed
  <2>. DEFINE r == [name |-> <<k>>, needs |-> run.needs, stage |-> run.stage]
  <2>2. CompileRun(first, k, run, inside) = {r}
    BY <1>1 DEF CompileRun
  <2>3. r \in Compiled
    BY <1>0, <2>1 DEF Compiled
  <2>. HIDE DEF r
  <2>. QED
    BY <2>2, <2>3, FS_Singleton
<1>2. CASE run.use # "" /\ Locations(run.use) = {}
  <2>1. CompileRun(first, k, run, inside) = {}
    BY <1>2 DEF CompileRun
  <2>. QED
    BY <2>1, FS_EmptySet
<1>3. CASE run.use # "" /\ Locations(run.use) # {}
  <2>1. inside[job] \subseteq Compiled
    BY <1>3, JobsAreThere
  <2>2. CompileRun(first, k, run, inside) = {made[r] : r \in inside[job]}
    BY <1>3, <2>1 DEF CompileRun
  <2>3. ASSUME NEW r \in Compiled PROVE made[r] \in Compiled
    <3>1. r.name \in Seq(Part) /\ r.needs \subseteq Seq(Part) /\ r.stage \in Seq(STRING)
      BY DEF Compiled
    <3>2. <<k>> \o r.name \in Seq(Part)
      BY <1>0, <3>1, Prefixed
    <3>3. Lifted(first, r.needs) \subseteq Seq(Part)
      BY <1>0, <3>1, Prefixed DEF Lifted
    <3>. QED
      BY <1>0, <3>1, <3>2, <3>3 DEF Compiled
  <2>. HIDE DEF made, job
  <2>4. {made[r] : r \in inside[job]} \subseteq Compiled
    BY <2>1, <2>3
  <2>5. IsFiniteSet(inside[job]) => IsFiniteSet({made[r] : r \in inside[job]})
    BY FiniteImage
  <2>6. inside[job] = inside[JobFor(run.use)]
    BY DEF job
  <2>. QED
    BY <1>3, <2>2, <2>4, <2>5, <2>6
<1>. QED
  BY <1>1, <1>2, <1>3

\* What is made of a job depends on the jobs that its runs use.
UsedBy(job) ==
  {JobFor(RunsIn(job)[k].use) : k \in {i \in DOMAIN RunsIn(job) :
     RunsIn(job)[i].use # "" /\ Locations(RunsIn(job)[i].use) # {}}}

MadeOf(first, job, inside) ==
  UNION {CompileRun(first, k, RunsIn(job)[k], inside) : k \in DOMAIN RunsIn(job)}

\* Among any jobs there is one that uses none of them: UsesType, said of UsedBy.
LEMMA UsesAreGrounded ==
  /\ \A job \in PluginJob : UsedBy(job) \subseteq PluginJob
  /\ \A T \in SUBSET PluginJob : T # {} => \E job \in T : UsedBy(job) \cap T = {}
<1>1. \A job \in PluginJob : UsedBy(job) \subseteq PluginJob
  BY JobsAreThere DEF UsedBy
<1>2. ASSUME NEW T \in SUBSET PluginJob, T # {}
      PROVE  \E job \in T : UsedBy(job) \cap T = {}
  <2>1. PICK job \in T : \A k \in DOMAIN RunsIn(job) :
          \/ RunsIn(job)[k].use = "" \/ Locations(RunsIn(job)[k].use) = {}
          \/ JobFor(RunsIn(job)[k].use) \notin T
    BY <1>2, UsesType
  <2>. QED
    BY <2>1 DEF UsedBy
<1>. QED
  BY <1>1, <1>2

\* The same of all the runs of a job of a plugin.
LEMMA MadeOfIs ==
  ASSUME NEW first \in STRING, NEW job \in PluginJob,
         NEW inside \in [PluginJob -> SUBSET Compiled]
  PROVE  /\ MadeOf(first, job, inside) \subseteq Compiled
         /\ (\A j \in UsedBy(job) : IsFiniteSet(inside[j]))
              => IsFiniteSet(MadeOf(first, job, inside))
<1>. DEFINE runs == RunsIn(job)
            of == [k \in DOMAIN runs |-> CompileRun(first, k, runs[k], inside)]
<1>1. AreRuns(runs)
  BY UsesType
<1>2. \A k \in DOMAIN runs : /\ k \in STRING
                           /\ runs[k].needs \subseteq Seq(STRING) /\ runs[k].stage \in Seq(STRING)
  BY <1>1 DEF AreRuns
<1>3. MadeOf(first, job, inside) = UNION {of[k] : k \in DOMAIN runs}
  BY DEF MadeOf
<1>4. \A k \in DOMAIN runs : of[k] \subseteq Compiled
  BY <1>2, CompileRunIs
<1>5. ASSUME \A j \in UsedBy(job) : IsFiniteSet(inside[j]), NEW k \in DOMAIN runs
      PROVE  IsFiniteSet(of[k])
  <2>1. runs[k].use # "" /\ Locations(runs[k].use) # {} => IsFiniteSet(inside[JobFor(runs[k].use)])
    BY <1>5 DEF UsedBy
  <2>. QED
    BY <1>2, <2>1, CompileRunIs
<1>. HIDE DEF of
<1>6. ASSUME \A j \in UsedBy(job) : IsFiniteSet(inside[j])
      PROVE  IsFiniteSet(UNION {of[k] : k \in DOMAIN runs})
  <2>1. IsFiniteSet({of[k] : k \in DOMAIN runs})
    BY <1>1, FiniteImage DEF AreRuns
  <2>. QED
    BY <1>5, <1>6, <2>1, FS_UNION
<1>. QED
  BY <1>3, <1>4, <1>6

\* What is made of the runs of all the jobs, for each run of an entry.
LEMMA InsideIs ==
  ASSUME NEW first \in STRING
  PROVE  /\ Inside(first) \in [PluginJob -> SUBSET Compiled]
         /\ \A job \in PluginJob : /\ IsFiniteSet(Inside(first)[job])
                                  /\ Inside(first)[job] = MadeOf(first, job, Inside(first))
<1>. DEFINE W == SUBSET Compiled
            dep == [job \in PluginJob |-> UsedBy(job)]
            made == [x \in PluginJob \X [PluginJob -> W] |-> MadeOf(first, x[1], x[2])]
<1>1. dep \in [PluginJob -> SUBSET PluginJob] /\ Grounded(PluginJob, dep)
  BY UsesAreGrounded DEF Grounded
<1>2. made \in [PluginJob \X [PluginJob -> W] -> W]
  BY MadeOfIs
<1>3. ASSUME NEW job \in PluginJob, NEW f, NEW g, \A j \in UsedBy(job) : f[j] = g[j]
      PROVE  MadeOf(first, job, f) = MadeOf(first, job, g)
  <2>1. \A k \in DOMAIN RunsIn(job) :
          CompileRun(first, k, RunsIn(job)[k], f) = CompileRun(first, k, RunsIn(job)[k], g)
    <3>. SUFFICES ASSUME NEW k \in DOMAIN RunsIn(job)
                  PROVE  CompileRun(first, k, RunsIn(job)[k], f)
                           = CompileRun(first, k, RunsIn(job)[k], g)
      OBVIOUS
    <3>1. CASE RunsIn(job)[k].use = "" \/ Locations(RunsIn(job)[k].use) = {}
      BY <3>1 DEF CompileRun
    <3>2. CASE RunsIn(job)[k].use # "" /\ Locations(RunsIn(job)[k].use) # {}
      <4>1. f[JobFor(RunsIn(job)[k].use)] = g[JobFor(RunsIn(job)[k].use)]
        BY <1>3, <3>2 DEF UsedBy
      <4>. QED
        BY <4>1 DEF CompileRun
    <3>. QED
      BY <3>1, <3>2
  <2>. QED
    BY <2>1 DEF MadeOf
<1>4. \E f : Solution(PluginJob, W, made, f)
  <2>1. ASSUME NEW job \in PluginJob, NEW f \in [PluginJob -> W], NEW g \in [PluginJob -> W],
               \A j \in dep[job] : f[j] = g[j]
        PROVE  made[<<job, f>>] = made[<<job, g>>]
    <3>1. MadeOf(first, job, f) = MadeOf(first, job, g)
      BY <1>3, <2>1
    <3>. QED
      BY <3>1
  <2>2. W # {}
    OBVIOUS
  <2>. HIDE DEF W, dep, made
  <2>3. Recursion(PluginJob, W, dep, made)
    BY <1>1, <1>2, <2>1, <2>2 DEF Recursion
  <2>. QED
    BY <2>3, RecursionEnds
<1>5. PICK f \in [PluginJob -> W] : \A job \in PluginJob : f[job] = MadeOf(first, job, f)
  BY <1>4 DEF Solution
<1>6. f = [job \in PluginJob |-> MadeOf(first, job, f)]
  BY <1>5
<1>. DEFINE l == CHOOSE inside : inside = [job \in PluginJob |-> MadeOf(first, job, inside)]
<1>7. l = [job \in PluginJob |-> MadeOf(first, job, l)]
  BY <1>6
<1>8. Inside(first) = l
  BY DEF Inside, MadeOf
<1>. HIDE DEF l
<1>. DEFINE Fine(job) == l[job] \subseteq Compiled /\ IsFiniteSet(l[job])
            T == {job \in PluginJob : ~Fine(job)}
<1>9. T = {}
  <2>. DEFINE g == [job \in PluginJob |-> IF Fine(job) THEN l[job] ELSE {}]
  <2>1. SUFFICES ASSUME T # {} PROVE FALSE
    OBVIOUS
  <2>2. T \in SUBSET PluginJob
    OBVIOUS
  <2>3. PICK job \in T : UsedBy(job) \cap T = {}
    <3>. HIDE DEF T
    <3>. QED
      BY <2>1, <2>2, UsesAreGrounded
  <2>4. job \in PluginJob /\ UsedBy(job) \subseteq PluginJob /\ ~Fine(job)
    BY <2>3, UsesAreGrounded
  <2>5. \A j \in UsedBy(job) : Fine(j)
    BY <2>3, <2>4
  <2>6. \A j \in UsedBy(job) : l[j] = g[j] /\ IsFiniteSet(g[j])
    BY <2>4, <2>5
  <2>7. g \in [PluginJob -> SUBSET Compiled]
    OBVIOUS
  <2>8. l[job] = MadeOf(first, job, l)
    BY <1>7, <2>4
  <2>. HIDE DEF g, T
  <2>9. l[job] = MadeOf(first, job, g)
    BY <1>3, <2>4, <2>6, <2>8
  <2>10. \A j \in UsedBy(job) : IsFiniteSet(g[j])
    BY <2>6
  <2>. HIDE DEF Fine
  <2>11. MadeOf(first, job, g) \subseteq Compiled /\ IsFiniteSet(MadeOf(first, job, g))
    BY <2>4, <2>7, <2>10, MadeOfIs
  <2>12. Fine(job)
    BY <2>9, <2>11 DEF Fine
  <2>. QED
    BY <2>4, <2>12
<1>10. \A job \in PluginJob : Fine(job)
  BY <1>9
<1>. QED
  BY <1>7, <1>8, <1>10

\* The runs of a chart compile to finitely many compiled runs (05-jobs.js).
LEMMA CompileIs ==
  ASSUME NEW runs, AreRuns(runs)
  PROVE  IsFiniteSet(Compile(runs)) /\ Compile(runs) \subseteq Compiled
<1>. DEFINE of == [k \in DOMAIN runs |-> CompileRun(k, k, runs[k], Inside(k))]
<1>1. \A k \in DOMAIN runs : IsFiniteSet(of[k]) /\ of[k] \subseteq Compiled
  BY CompileRunIs, InsideIs, JobsAreThere DEF AreRuns
<1>2. Compile(runs) = UNION {of[k] : k \in DOMAIN runs}
  BY DEF Compile
<1>. HIDE DEF of
<1>3. IsFiniteSet({of[k] : k \in DOMAIN runs})
  BY FiniteImage DEF AreRuns
<1>. QED
  BY <1>1, <1>2, <1>3, FS_UNION

-----------------------------------------------------------------------------
(* The tree of the charts has finitely many nodes, each with its runs.      *)

EntriesOK(es) ==
  IsFiniteSet(DOMAIN es) /\ DOMAIN es \subseteq STRING /\ \A k \in DOMAIN es : IsEntry(es[k])
TreeOK(t) ==
  /\ IsFiniteSet(DOMAIN t)
  /\ \A p \in DOMAIN t : p \in Seq(STRING) \ {<<>>} /\ IsEntry(t[p])

\* Blank is an entry, and the flags of an entry may change.
LEMMA EntriesStay ==
  /\ IsEntry(Blank)
  /\ \A e, v : IsEntry(e) =>
       /\ IsEntry([e EXCEPT !.enabled = v]) /\ IsEntry([e EXCEPT !.project = v])
       /\ IsEntry([e EXCEPT !.isChart = TRUE, !.enabled = v])
<1>1. IsEntry(Blank)
  <2>1. DOMAIN Blank.runs = {}
    BY DEF Blank
  <2>. QED
    BY <2>1, FS_EmptySet DEF IsEntry, AreRuns, Blank
<1>2. ASSUME NEW e, NEW v, IsEntry(e)
      PROVE  /\ IsEntry([e EXCEPT !.enabled = v]) /\ IsEntry([e EXCEPT !.project = v])
             /\ IsEntry([e EXCEPT !.isChart = TRUE, !.enabled = v])
  <2>1. {"needs", "runs"} \subseteq DOMAIN e
    BY <1>2 DEF IsEntry, Blank
  <2>. QED
    BY <1>2, <2>1 DEF IsEntry
<1>. QED
  BY <1>1, <1>2

\* The values of the charts as the plugins have them are entries.
LEMMA ChartTreeIs == TreeOK(ChartTree)
<1>1. \A p \in Path : IsEntry([Blank EXCEPT !.enabled = Charts[p], !.isChart = TRUE])
  <2>1. IsEntry(Blank)
    BY EntriesStay
  <2>2. {"needs", "runs"} \subseteq DOMAIN Blank
    BY DEF Blank
  <2>. QED
    BY <2>1, <2>2 DEF IsEntry
<1>. QED
  BY <1>1, ChartsType DEF TreeOK, ChartTree

\* The compilers that come before the charts are found leave entries.
LEMMA GivenIs ==
  ASSUME NEW a \in BuildScenarios
  PROVE  EntriesOK(OverrideValues(
           EnableStandalone(MergeProjectValues(a.entries), a.select), a.set))
<1>. DEFINE merged == MergeProjectValues(a.entries)
            enabled == EnableStandalone(merged, a.select)
            values == OverrideValues(enabled, a.set)
<1>0. /\ EntriesOK(a.entries) /\ IsFiniteSet(a.select) /\ IsFiniteSet(DOMAIN a.set)
      /\ a.select \subseteq STRING /\ DOMAIN a.set \subseteq STRING
  BY BuildScenariosType DEF EntriesOK
<1>1. EntriesOK(merged)
  BY <1>0, EntriesStay DEF MergeProjectValues, EntriesOK
<1>. HIDE DEF merged
<1>2. EntriesOK(enabled)
  <2>1. CASE a.select = {}
    BY <1>1, <2>1 DEF EnableStandalone
  <2>2. CASE a.select # {}
    <3>. DEFINE of(k) == Choice(k, IF k \in DOMAIN merged THEN merged[k] ELSE Blank, a.select)
    <3>1. enabled = [k \in DOMAIN merged \union a.select |-> of(k)]
      BY <2>2 DEF EnableStandalone
    <3>2. IsFiniteSet(DOMAIN merged \union a.select)
      BY <1>0, <1>1, FS_Union DEF EntriesOK
    <3>3. \A k : IsEntry(IF k \in DOMAIN merged THEN merged[k] ELSE Blank)
      BY <1>1, EntriesStay DEF EntriesOK
    <3>4. \A k : IsEntry(of(k))
      BY <3>3, EntriesStay DEF Choice
    <3>. HIDE DEF of, enabled
    <3>. QED
      BY <1>0, <1>1, <3>1, <3>2, <3>4 DEF EntriesOK
  <2>. QED
    BY <2>1, <2>2
<1>. HIDE DEF enabled
<1>3. EntriesOK(values)
  <2>. DEFINE e(k) == IF k \in DOMAIN enabled THEN enabled[k] ELSE Blank
              of(k) == IF k \in DOMAIN a.set THEN [e(k) EXCEPT !.enabled = a.set[k]] ELSE e(k)
  <2>1. values = [k \in DOMAIN enabled \union DOMAIN a.set |-> of(k)]
    BY DEF OverrideValues
  <2>2. IsFiniteSet(DOMAIN enabled \union DOMAIN a.set)
    BY <1>0, <1>2, FS_Union DEF EntriesOK
  <2>3. \A k : IsEntry(e(k))
    BY <1>2, EntriesStay DEF EntriesOK
  <2>. HIDE DEF e
  <2>4. \A k : IsEntry(of(k))
    BY <2>3, EntriesStay
  <2>. HIDE DEF of, values
  <2>. QED
    BY <1>0, <1>2, <2>1, <2>2, <2>4 DEF EntriesOK
<1>. QED
  BY <1>3 DEF merged, enabled

-----------------------------------------------------------------------------
\* A path whose last name is replaced is a path.
LEMMA TailAdded ==
  ASSUME NEW p \in Seq(STRING), Len(p) > 1, NEW key \in STRING
  PROVE  Append(SubSeq(p, 1, Len(p) - 1), key) \in Seq(STRING) \ {<<>>}
<1>1. SubSeq(p, 1, Len(p) - 1) \in Seq(STRING)
  BY SubSeqProperties
<1>. QED
  BY <1>1, AppendProperties

\* An entry that has a chart is placed at a path.
LEMMA InstanceIs ==
  ASSUME NEW key \in STRING, NEW entry, HasChart(key, entry)
  PROVE  Instance(key, entry) \in Seq(STRING) \ {<<>>}
<1>. DEFINE s == Searched(key, entry)
<1>1. PICK p \in Path : p \in Named(s) /\ Name(p) = s
  BY DEF HasChart, Named
<1>2. PICK q \in Named(s) : \A r \in Named(s) : r = q \/ Met(q, r)
  BY <1>1, ChartsType
<1>3. ChartOf(key, entry) \in Named(s)
  BY <1>2 DEF ChartOf
<1>4. ChartOf(key, entry) \in Seq(STRING) /\ Len(ChartOf(key, entry)) > 1
  BY <1>3, ChartsType DEF Named
<1>. QED
  BY <1>4, TailAdded DEF Instance, Parent

\* An entry that is placed is an entry.
LEMMA PlacedStay ==
  ASSUME NEW e, IsEntry(e)
  PROVE  IsEntry(Placed(e))
<1>1. {"needs", "runs"} \subseteq DOMAIN e
  BY DEF IsEntry, Blank
<1>. QED
  BY <1>1 DEF IsEntry, Placed

\* The aliases put finitely many entries in the tree (02-resolve-alias-of.js).
LEMMA ResolvedIs ==
  ASSUME NEW es, EntriesOK(es), NEW t, TreeOK(t)
  PROVE  TreeOK(ResolveAliasOf(es, t))
<1>. DEFINE U == Unfolded(es)
            at == [k \in U |-> Instance(k, es[k])]
            D == DOMAIN t \union {at[k] : k \in DOMAIN at}
            of(p) == IF \E k \in DOMAIN at : at[k] = p
                       THEN Placed(es[CHOOSE k \in DOMAIN at : at[k] = p])
                       ELSE t[p]
<1>1. ResolveAliasOf(es, t) = [p \in D |-> of(p)]
  BY DEF ResolveAliasOf
<1>2. IsFiniteSet(U) /\ U \subseteq DOMAIN es
  BY FS_Subset DEF EntriesOK, Unfolded
<1>3. \A k \in U : at[k] \in Seq(STRING) \ {<<>>}
  BY InstanceIs DEF Unfolded, EntriesOK
<1>4. IsFiniteSet(D) /\ D \subseteq Seq(STRING) \ {<<>>}
  <2>0. DOMAIN at = U
    OBVIOUS
  <2>. HIDE DEF at, U
  <2>1. IsFiniteSet({at[k] : k \in U})
    BY <1>2, FiniteImage
  <2>2. IsFiniteSet(D)
    BY <2>0, <2>1, FS_Union DEF TreeOK
  <2>. QED
    BY <1>3, <2>0, <2>2 DEF TreeOK
<1>5. \A p \in D : IsEntry(of(p))
  <2>. SUFFICES ASSUME NEW p \in D PROVE IsEntry(of(p))
    OBVIOUS
  <2>1. CASE \E k \in DOMAIN at : at[k] = p
    <3>. DEFINE c == CHOOSE k \in DOMAIN at : at[k] = p
    <3>1. c \in DOMAIN at
      BY <2>1
    <3>2. IsEntry(es[c])
      BY <1>2, <3>1 DEF EntriesOK
    <3>. QED
      BY <2>1, <3>2, PlacedStay
  <2>2. CASE ~ \E k \in DOMAIN at : at[k] = p
    BY <2>2 DEF TreeOK
  <2>. QED
    BY <2>1, <2>2
<1>. HIDE DEF of, D
<1>. QED
  BY <1>1, <1>4, <1>5 DEF TreeOK

\* So do the flags of the charts, implied or removed.
LEMMA EnabledIs ==
  ASSUME NEW t, TreeOK(t)
  PROVE  TreeOK(ImplicitEnabled(t)) /\ TreeOK(RemoveNotEnabled(t))
<1>1. TreeOK(ImplicitEnabled(t))
  BY EntriesStay DEF TreeOK, ImplicitEnabled
<1>2. TreeOK(RemoveNotEnabled(t))
  <2>. DEFINE D == {q \in DOMAIN t : \A r \in DOMAIN t : Below(r, q) => Kept(r, t)}
  <2>1. IsFiniteSet(D) /\ D \subseteq DOMAIN t
    BY FS_Subset DEF TreeOK
  <2>. DEFINE of(p) == [t[p] EXCEPT !.enabled = IF Kept(p, t) THEN "yes" ELSE "no"]
  <2>2. \A p \in D : IsEntry(of(p))
    BY EntriesStay DEF TreeOK
  <2>3. RemoveNotEnabled(t) = [p \in D |-> of(p)]
    BY DEF RemoveNotEnabled
  <2>. HIDE DEF D, of
  <2>. QED
    BY <2>1, <2>2, <2>3 DEF TreeOK
<1>. QED
  BY <1>1, <1>2

-----------------------------------------------------------------------------
(* What is rendered of it is a finite set of manifests.                     *)

IsManifest(m) == DOMAIN m = {"path", "kind", "name", "needs", "stage", "paths", "annotate", "rule", "wave"}
ManifestsOK(ms) == IsFiniteSet(ms) /\ \A m \in ms : IsManifest(m)

\* The runs of a chart are runs, whether written or that of a single job.
LEMMA RunsAre ==
  ASSUME NEW p \in Seq(STRING) \ {<<>>}, NEW e, IsEntry(e)
  PROVE  AreRuns(Runs(Name(p), e))
<1>1. CASE Searched(Name(p), e) = "job"
  <2>1. Name(p) \in STRING
    BY DEF Name
  <2>. DEFINE r == Single(Name(p), e)
  <2>2. DOMAIN r = {Name(p)} /\ \A k \in DOMAIN r : r[k].needs = e.needs /\ r[k].stage = <<>>
    BY DEF Single
  <2>3. <<>> \in Seq(STRING) /\ r = [k \in DOMAIN r |-> r[k]]
    BY DEF Single
  <2>. HIDE DEF r
  <2>4. IsFiniteSet(DOMAIN r) /\ DOMAIN r \subseteq STRING
    <3>1. IsFiniteSet({Name(p)})
      BY FS_Singleton
    <3>. QED
      BY <2>1, <2>2, <3>1
  <2>5. \A k \in DOMAIN r : r[k].needs \subseteq Seq(STRING) /\ r[k].stage \in Seq(STRING)
    BY <2>2, <2>3 DEF IsEntry
  <2>6. AreRuns(r)
    BY <2>3, <2>4, <2>5 DEF AreRuns
  <2>. QED
    BY <1>1, <2>6 DEF Runs, r
<1>2. CASE Searched(Name(p), e) # "job"
  BY <1>2 DEF Runs, IsEntry
<1>. QED
  BY <1>1, <1>2

\* helm renders finitely many manifests of a chart.
LEMMA TemplatesAre ==
  ASSUME NEW p \in Seq(STRING) \ {<<>>}, NEW e, IsEntry(e)
  PROVE  ManifestsOK(Templates(p, e))
<1>. DEFINE kinds == KindsOf(Searched(Name(p), e))
            of == [kind \in kinds |-> Manifest(p, kind)]
            runs == Compile(Runs(Name(p), e))
            job == [r \in runs |-> Job(p, r)]
<1>1. IsFiniteSet(kinds)
  BY KindsType, FS_EmptySet DEF KindsOf
<1>2. IsFiniteSet(runs)
  BY RunsAre, CompileIs
<1>3. (\A kind \in kinds : IsManifest(of[kind])) /\ \A r \in runs : IsManifest(job[r])
  BY DEF Manifest, Job, IsManifest
<1>4. Templates(p, e) = {of[kind] : kind \in kinds} \union {job[r] : r \in runs}
  BY DEF Templates
<1>. HIDE DEF kinds, of, runs, job
<1>5. IsFiniteSet({of[kind] : kind \in kinds}) /\ IsFiniteSet({job[r] : r \in runs})
  BY <1>1, <1>2, FiniteImage
<1>6. IsFiniteSet(Templates(p, e))
  BY <1>4, <1>5, FS_Union
<1>. QED
  BY <1>3, <1>4, <1>6 DEF ManifestsOK

\* helm renders finitely many manifests.
LEMMA TemplateIs ==
  ASSUME NEW t, TreeOK(t), NEW all
  PROVE  ManifestsOK(Template(t, all))
<1>. DEFINE D == {q \in DOMAIN t : Rendered(q, t, all)}
            of == [p \in D |-> Templates(p, t[p])]
<1>1. IsFiniteSet(D)
  BY FS_Subset DEF TreeOK
<1>2. \A p \in D : ManifestsOK(of[p])
  BY TemplatesAre DEF TreeOK
<1>3. Template(t, all) = UNION {of[p] : p \in D}
  BY DEF Template
<1>. HIDE DEF D, of
<1>4. IsFiniteSet({of[p] : p \in D})
  BY <1>1, FiniteImage
<1>5. IsFiniteSet(UNION {of[p] : p \in D})
  BY <1>2, <1>4, FS_UNION DEF ManifestsOK
<1>. QED
  BY <1>2, <1>3, <1>5 DEF ManifestsOK

-----------------------------------------------------------------------------
\* The patches before the waves leave finitely many manifests.
LEMMA PatchedStay ==
  ASSUME NEW ms, ManifestsOK(ms), NEW t, NEW changed
  PROVE  ManifestsOK(OnChanged(ValuesPatches(ms, t), changed))
<1>. DEFINE needs(n) == n.needs
            paths(n) == n.paths
            rule(n) == n.rule
            annotate(n) == n.annotate
            patched(m) == [m EXCEPT
              !.needs = IF @ = {} THEN FirstOf(m.path, t, needs, {}) ELSE @,
              !.paths = FirstOf(m.path, t, paths, {}),
              !.rule = FirstOf(m.path, t, rule, ""),
              !.annotate = FirstOf(m.path, t, annotate, FALSE)]
            of == [m \in ms |-> patched(m)]
            left == OnChanged(ValuesPatches(ms, t), changed)
<1>1. ValuesPatches(ms, t) = {patched(m) : m \in ms}
  BY DEF ValuesPatches
<1>2. \A m : DOMAIN patched(m) = DOMAIN m
  OBVIOUS
<1>. HIDE DEF patched
<1>3. ValuesPatches(ms, t) = {of[m] : m \in ms}
  BY <1>1
<1>4. IsFiniteSet(ValuesPatches(ms, t))
  <2>. HIDE DEF of
  <2>. QED
    BY <1>3, FiniteImage DEF ManifestsOK
<1>5. left \subseteq ValuesPatches(ms, t)
  BY DEF OnChanged
<1>6. \A m \in ValuesPatches(ms, t) : IsManifest(m)
  BY <1>1, <1>2 DEF ManifestsOK, IsManifest
<1>. HIDE DEF left
<1>7. IsFiniteSet(left)
  BY <1>4, <1>5, FS_Subset
<1>. QED
  BY <1>5, <1>6, <1>7 DEF ManifestsOK, left

\* A manifest is needed by the same names whatever its wave.
Moved(m, l) == [m EXCEPT !.wave = l]

\* A wave changes neither the names of a manifest nor what it needs.
LEMMA SameNames ==
  ASSUME NEW m, IsManifest(m), NEW l
  PROVE  /\ NeedKeys(Moved(m, l)) = NeedKeys(m)
         /\ DepName(Moved(m, l)) = DepName(m)
         /\ Waitable(Moved(m, l)) <=> Waitable(m)
         /\ Moved(m, l).needs = m.needs
         /\ Moved(m, l).wave = l
<1>. DEFINE n == Moved(m, l)
<1>1. /\ n.path = m.path /\ n.kind = m.kind /\ n.name = m.name
      /\ n.stage = m.stage /\ n.needs = m.needs /\ n.wave = l
  BY DEF IsManifest, Moved
<1>. HIDE DEF n
<1>2. NeedKeys(n) = NeedKeys(m)
  BY <1>1 DEF NeedKeys
<1>3. DepName(n) = DepName(m)
  BY <1>1 DEF DepName
<1>4. Waitable(n) <=> Waitable(m)
  BY <1>1 DEF Waitable
<1>. QED
  BY <1>1, <1>2, <1>3, <1>4 DEF n

InWaves(ms) ==
  \A m \in ms : Waitable(m) =>
    \A d \in NeedsOf(m, ms) : DepName(d) # DepName(m) => d.wave < m.wave

\* Unless needs go in a circle, each wave is after those of what it needs:
\* the levels are a fixpoint, and the waves those levels
\* (05.1-needs-using-argocd-sync-waves.js).
LEMMA WavesAreRight ==
  ASSUME NEW ms, ManifestsOK(ms), ~Circular(ms)
  PROVE  InWaves(WithoutKapp(SyncWaves(ms)))
<1>. DEFINE L == Level(ms)
            W == WithoutKapp(SyncWaves(ms))
<1>1. \A n \in W : \E m \in ms : n = Moved(m, L[m])
  BY DEF SyncWaves, WithoutKapp, Moved
<1>2. L \in [ms -> Nat] /\ \A m \in ms : L[m] = Deepness(m, ms, L)
  BY LevelIs DEF ManifestsOK
<1>. HIDE DEF L, W
<1>3. ASSUME NEW n \in W, Waitable(n), NEW e \in NeedsOf(n, W), DepName(e) # DepName(n)
      PROVE  e.wave < n.wave
  <2>1. PICK m \in ms : n = Moved(m, L[m])
    BY <1>1
  <2>2. PICK need \in n.needs : e \in W /\ Waitable(e) /\ need \in NeedKeys(e)
    BY <1>3 DEF NeedsOf, Matching
  <2>3. PICK d \in ms : e = Moved(d, L[d])
    BY <1>1, <2>2
  <2>4. IsManifest(m) /\ IsManifest(d)
    BY DEF ManifestsOK
  <2>5. /\ Waitable(m) /\ DepName(n) = DepName(m) /\ n.needs = m.needs /\ n.wave = L[m]
    BY <1>3, <2>1, <2>4, SameNames
  <2>6. /\ Waitable(d) /\ DepName(e) = DepName(d) /\ NeedKeys(e) = NeedKeys(d) /\ e.wave = L[d]
    BY <2>2, <2>3, <2>4, SameNames
  <2>7. d \in NeedsBeyond(m, ms)
    BY <1>3, <2>2, <2>5, <2>6 DEF NeedsBeyond, NeedsOf, Matching
  <2>8. L[d] < Deepness(m, ms, L)
    BY <1>2, <2>7, DeepnessIs DEF ManifestsOK
  <2>. QED
    BY <1>2, <2>5, <2>6, <2>8
<1>. QED
  BY <1>3 DEF InWaves, W

-----------------------------------------------------------------------------
(* Which entries are built.                                                 *)

GivenTo(a) ==
  OverrideValues(EnableStandalone(MergeProjectValues(a.entries), a.select), a.set)
Resolved(a) == ResolveAliasOf(GivenTo(a), ChartTree)
PlacedFor(a) == ImplicitEnabled(Resolved(a))

\* What decides of an entry with a chart.
Sought(a, k) ==
  IF k \in DOMAIN a.set THEN a.set[k] = "yes"
  ELSE IF a.select # {} THEN Selected(k, EntryOf(a, k), a.select)
  ELSE EntryOf(a, k).enabled # "no"

\* Entries that differ in their flags.
SameSaid(e, f) ==
  /\ e.chart = f.chart /\ e.groups = f.groups /\ e.needs = f.needs
  /\ e.runs = f.runs /\ e.use = f.use
  /\ e.paths = f.paths /\ e.annotate = f.annotate /\ e.rule = f.rule

\* A flag of an entry that changes leaves what the entry says otherwise.
LEMMA OnlyFlags ==
  ASSUME NEW e, IsEntry(e), NEW v
  PROVE  /\ IsEntry([e EXCEPT !.enabled = v]) /\ SameSaid([e EXCEPT !.enabled = v], e)
         /\ [e EXCEPT !.enabled = v].enabled = v
         /\ IsEntry([e EXCEPT !.project = v]) /\ SameSaid([e EXCEPT !.project = v], e)
         /\ [e EXCEPT !.project = v].enabled = e.enabled
<1>1. {"enabled", "project", "chart", "groups", "needs", "runs", "use", "paths", "annotate",
       "rule"} \subseteq DOMAIN e
  BY DEF IsEntry, Blank
<1>. QED
  BY <1>1, EntriesStay DEF SameSaid

\* The project's values, --chart and --set leave each key with what was said
\* of it, enabled as they ask for together.
LEMMA GivenSays ==
  ASSUME NEW a \in BuildScenarios, NEW k \in KeysOf(a)
  PROVE  /\ DOMAIN GivenTo(a) = KeysOf(a)
         /\ IsEntry(GivenTo(a)[k]) /\ SameSaid(GivenTo(a)[k], EntryOf(a, k))
         /\ (GivenTo(a)[k].enabled # "no") <=> Sought(a, k)
<1>. DEFINE merged == MergeProjectValues(a.entries)
            enabled == EnableStandalone(merged, a.select)
            e == EntryOf(a, k)
<1>0. /\ DOMAIN merged = DOMAIN a.entries
      /\ \A i \in DOMAIN a.entries : merged[i] = [a.entries[i] EXCEPT !.project = TRUE]
  BY DEF MergeProjectValues
<1>. HIDE DEF merged
<1>. DEFINE m == IF k \in DOMAIN merged THEN merged[k] ELSE Blank
<1>1. IsEntry(e)
  BY EntriesStay, BuildScenariosType DEF EntryOf
<1>2. IsEntry(m) /\ SameSaid(m, e) /\ m.enabled = e.enabled
  <2>1. CASE k \in DOMAIN a.entries
    <3>1. m = [e EXCEPT !.project = TRUE]
      BY <1>0, <2>1 DEF EntryOf
    <3>. HIDE DEF m, e
    <3>. QED
      BY <1>1, <3>1, OnlyFlags
  <2>2. CASE k \notin DOMAIN a.entries
    BY <1>0, <2>2, EntriesStay DEF EntryOf, SameSaid
  <2>. QED
    BY <2>1, <2>2
<1>. HIDE DEF m
<1>3. /\ DOMAIN enabled = DOMAIN a.entries \union a.select
      /\ k \in DOMAIN enabled =>
           enabled[k] = IF a.select = {} THEN m ELSE Choice(k, m, a.select)
  BY <1>0 DEF EnableStandalone, m
<1>. HIDE DEF enabled
<1>. DEFINE c == IF k \in DOMAIN enabled THEN enabled[k] ELSE Blank
<1>4. Choice(k, m, a.select) =
        [m EXCEPT !.enabled = IF Selected(k, e, a.select) THEN "yes" ELSE "no"]
  BY <1>2 DEF Choice, Selected, SameSaid
<1>5. /\ IsEntry(c) /\ SameSaid(c, e)
      /\ k \notin DOMAIN a.set => (c.enabled # "no" <=> Sought(a, k))
  <2>1. CASE k \notin DOMAIN enabled
    <3>1. e = Blank /\ k \in DOMAIN a.set /\ c = Blank
      BY <1>3, <2>1 DEF KeysOf, EntryOf
    <3>. QED
      BY <3>1, EntriesStay DEF SameSaid
  <2>2. CASE k \in DOMAIN enabled /\ a.select = {}
    BY <1>2, <1>3, <2>2 DEF Sought
  <2>3. CASE k \in DOMAIN enabled /\ a.select # {}
    <3>. DEFINE v == IF Selected(k, e, a.select) THEN "yes" ELSE "no"
    <3>1. c = [m EXCEPT !.enabled = v]
      BY <1>3, <1>4, <2>3
    <3>2. IsEntry(c) /\ SameSaid(c, m) /\ c.enabled = v
      <4>. HIDE DEF c, v
      <4>. QED
        BY <1>2, <3>1, OnlyFlags
    <3>3. IsEntry(c) /\ SameSaid(c, e)
      <4>. HIDE DEF c, e
      <4>. QED
        BY <1>2, <3>2 DEF SameSaid
    <3>4. k \notin DOMAIN a.set => (v # "no" <=> Sought(a, k))
      <4>1. k \notin DOMAIN a.set => (Sought(a, k) <=> Selected(k, e, a.select))
        BY <2>3 DEF Sought
      <4>. QED
        BY <4>1
    <3>. HIDE DEF c, v
    <3>. QED
      BY <3>2, <3>3, <3>4
  <2>. QED
    BY <2>1, <2>2, <2>3
<1>6. /\ DOMAIN GivenTo(a) = KeysOf(a)
      /\ GivenTo(a)[k] = IF k \in DOMAIN a.set THEN [c EXCEPT !.enabled = a.set[k]] ELSE c
  <2>1. GivenTo(a) = OverrideValues(enabled, a.set)
    BY DEF GivenTo, enabled, merged
  <2>. QED
    BY <1>3, <2>1 DEF OverrideValues, KeysOf
<1>. HIDE DEF c
<1>7. k \in DOMAIN a.set => a.set[k] \in {"yes", "no"}
  BY LeavesType
<1>8. CASE k \in DOMAIN a.set
  <2>. DEFINE g == GivenTo(a)[k]
              v == a.set[k]
  <2>1. IsEntry(g) /\ SameSaid(g, c) /\ g.enabled = v
    <3>1. IsEntry(c) /\ g = [c EXCEPT !.enabled = v]
      BY <1>5, <1>6, <1>8
    <3>. HIDE DEF g, v
    <3>. QED
      BY <3>1, OnlyFlags
  <2>. QED
    BY <1>5, <1>6, <1>7, <1>8, <2>1 DEF SameSaid, Sought
<1>9. CASE k \notin DOMAIN a.set
  BY <1>5, <1>6, <1>9
<1>. QED
  BY <1>8, <1>9

-----------------------------------------------------------------------------
\* The chart of an entry is beside it, under the same charts.
LEMMA ChartIsThere ==
  ASSUME NEW k \in STRING, NEW e, HasChart(k, e)
  PROVE  /\ ChartOf(k, e) \in Path /\ Len(ChartOf(k, e)) > 1
         /\ ChartOf(k, e) \in Seq(STRING)
         /\ Instance(k, e) \in Seq(STRING) \ {<<>>} /\ Name(Instance(k, e)) = k
         /\ \A q \in Seq(STRING) : Below(q, Instance(k, e)) <=> Below(q, ChartOf(k, e))
<1>. DEFINE s == Searched(k, e)
            c == ChartOf(k, e)
            p == Instance(k, e)
<1>1. PICK i \in Path : i \in Named(s) /\ Name(i) = s
  BY DEF HasChart, Named
<1>2. PICK first \in Named(s) : \A r \in Named(s) : r = first \/ Met(first, r)
  BY <1>1, ChartsType
<1>3. c \in Named(s)
  BY <1>2 DEF ChartOf
<1>4. c \in Path /\ c \in Seq(STRING) /\ Len(c) > 1 /\ Len(c) \in Nat
  <2>. HIDE DEF c
  <2>1. c \in Path /\ Len(c) > 1
    BY <1>3 DEF Named
  <2>2. Path \subseteq Seq(STRING)
    BY ChartsType
  <2>. HIDE DEF Path
  <2>. QED
    BY <2>1, <2>2
<1>. DEFINE t == SubSeq(c, 1, Len(c) - 1)
<1>5. p = Append(t, k)
  BY DEF Instance, Parent
<1>. HIDE DEF c, p
<1>6. t \in Seq(STRING) /\ Len(t) = Len(c) - 1 /\ \A j \in 1..(Len(c) - 1) : t[j] = c[j]
  BY <1>4, SubSeqProperties
<1>. HIDE DEF t
<1>7. /\ p \in Seq(STRING) /\ p # <<>> /\ Len(p) = Len(c) /\ p[Len(p)] = k
      /\ \A j \in 1..(Len(c) - 1) : p[j] = c[j]
  <2>1. Len(t) + 1 = Len(c) /\ 1..Len(t) = 1..(Len(c) - 1)
    BY <1>4, <1>6
  <2>2. /\ p \in Seq(STRING) /\ p # <<>> /\ Len(p) = Len(t) + 1 /\ p[Len(t) + 1] = k
        /\ \A j \in 1..Len(t) : p[j] = t[j]
    BY <1>5, <1>6, AppendProperties
  <2>. QED
    BY <1>6, <2>1, <2>2
<1>8. ASSUME NEW q \in Seq(STRING), Len(c) > Len(q)
      PROVE  SubSeq(p, 1, Len(q)) = SubSeq(c, 1, Len(q))
  <2>1. Len(q) \in Nat /\ \A j \in 1..Len(q) : j \in 1..(Len(c) - 1) /\ p[j] = c[j] /\ c[j] \in STRING
    BY <1>4, <1>7, <1>8
  <2>2. /\ SubSeq(p, 1, Len(q)) \in Seq(STRING) /\ Len(SubSeq(p, 1, Len(q))) = Len(q)
        /\ \A j \in 1..Len(q) : SubSeq(p, 1, Len(q))[j] = p[j]
    BY <1>4, <1>7, <1>8
  <2>3. /\ SubSeq(c, 1, Len(q)) \in Seq(STRING) /\ Len(SubSeq(c, 1, Len(q))) = Len(q)
        /\ \A j \in 1..Len(q) : SubSeq(c, 1, Len(q))[j] = c[j]
    BY <1>4, <1>8
  <2>. QED
    BY <2>1, <2>2, <2>3, SeqEqual
<1>9. ASSUME NEW q \in Seq(STRING)
      PROVE  Below(q, p) <=> Below(q, c)
  <2>1. Len(p) > Len(q) <=> Len(c) > Len(q)
    BY <1>7
  <2>. QED
    BY <1>8, <2>1 DEF Below
<1>. QED
  BY <1>4, <1>7, <1>9 DEF Name, c, p

-----------------------------------------------------------------------------
\* The entry of k in the tree of the charts.
Home(a, k) == Instance(k, EntryOf(a, k))
Charted(a) == {k \in KeysOf(a) : HasChart(k, EntryOf(a, k))}

\* Each entry with a chart has a place of its own in the tree, and the rest
\* of the tree is as the plugins have it.
LEMMA Resolution ==
  ASSUME NEW a \in BuildScenarios
  PROVE  /\ \A k \in Charted(a) : /\ Home(a, k) \in DOMAIN Resolved(a)
                                 /\ Resolved(a)[Home(a, k)] = Placed(GivenTo(a)[k])
         /\ \A q \in DOMAIN Resolved(a) :
              \/ \E k \in Charted(a) : q = Home(a, k)
              \/ q \in Path /\ Resolved(a)[q] = ChartTree[q]
<1>. DEFINE g == GivenTo(a)
            at == [k \in Unfolded(g) |-> Instance(k, g[k])]
            D == Path \union {at[k] : k \in DOMAIN at}
<1>1. KeysOf(a) \subseteq STRING
  BY BuildScenariosType DEF KeysOf
<1>2. DOMAIN g = KeysOf(a) /\ \A k \in KeysOf(a) : g[k].chart = EntryOf(a, k).chart
  <2>1. \A k \in KeysOf(a) : DOMAIN g = KeysOf(a) /\ g[k].chart = EntryOf(a, k).chart
    BY GivenSays DEF SameSaid
  <2>2. DOMAIN g = KeysOf(a)
    BY DEF GivenTo, OverrideValues, EnableStandalone, MergeProjectValues, KeysOf
  <2>. QED
    BY <2>1, <2>2
<1>. HIDE DEF g
<1>3. \A k \in KeysOf(a) : /\ Searched(k, g[k]) = Searched(k, EntryOf(a, k))
                           /\ HasChart(k, g[k]) <=> HasChart(k, EntryOf(a, k))
                           /\ Instance(k, g[k]) = Home(a, k)
  <2>. TAKE k \in KeysOf(a)
  <2>1. Searched(k, g[k]) = Searched(k, EntryOf(a, k))
    BY <1>2 DEF Searched
  <2>2. HasChart(k, g[k]) <=> HasChart(k, EntryOf(a, k))
    BY <2>1 DEF HasChart
  <2>3. ChartOf(k, g[k]) = ChartOf(k, EntryOf(a, k))
    BY <2>1 DEF ChartOf
  <2>. QED
    BY <2>1, <2>2, <2>3 DEF Instance, Home
<1>4. Unfolded(g) = Charted(a)
  BY <1>2, <1>3 DEF Unfolded, Charted
<1>5. DOMAIN at = Charted(a) /\ \A k \in Charted(a) : at[k] = Home(a, k)
  BY <1>3, <1>4 DEF Charted
<1>6. DOMAIN ChartTree = Path
  BY DEF ChartTree
<1>7. Resolved(a) =
        [p \in D |-> IF \E k \in DOMAIN at : at[k] = p
                      THEN Placed(g[CHOOSE k \in DOMAIN at : at[k] = p]) ELSE ChartTree[p]]
  BY <1>6 DEF Resolved, ResolveAliasOf, g
<1>. HIDE DEF at
<1>8. \A k, l \in Charted(a) : at[k] = at[l] => k = l
  <2>1. \A k \in Charted(a) : Name(at[k]) = k
    <3>. TAKE k \in Charted(a)
    <3>1. k \in STRING /\ HasChart(k, EntryOf(a, k))
      BY <1>1 DEF Charted
    <3>2. Name(Home(a, k)) = k
      BY <3>1, ChartIsThere DEF Home
    <3>. QED
      BY <1>5, <3>2
  <2>. QED
    BY <2>1
<1>9. ASSUME NEW k \in Charted(a)
      PROVE  Home(a, k) \in DOMAIN Resolved(a) /\ Resolved(a)[Home(a, k)] = Placed(g[k])
  <2>1. at[k] \in D /\ k \in DOMAIN at /\ at[k] = Home(a, k)
    BY <1>5
  <2>2. (CHOOSE l \in DOMAIN at : at[l] = at[k]) = k
    BY <1>5, <1>8, <2>1
  <2>. QED
    BY <1>7, <2>1, <2>2
<1>10. ASSUME NEW q \in DOMAIN Resolved(a)
       PROVE  \/ \E k \in Charted(a) : q = Home(a, k)
              \/ q \in Path /\ Resolved(a)[q] = ChartTree[q]
  <2>1. q \in D
    BY <1>7
  <2>2. CASE \E k \in DOMAIN at : at[k] = q
    BY <1>5, <2>2
  <2>3. CASE ~ \E k \in DOMAIN at : at[k] = q
    BY <1>7, <2>1, <2>3
  <2>. QED
    BY <2>2, <2>3
<1>. QED
  BY <1>9, <1>10 DEF g

\* There its flag is yes or no, as was asked for.
LEMMA Placement ==
  ASSUME NEW a \in BuildScenarios
  PROVE  /\ \A k \in Charted(a) :
              /\ Home(a, k) \in DOMAIN PlacedFor(a)
              /\ SameSaid(PlacedFor(a)[Home(a, k)], EntryOf(a, k))
              /\ IsEntry(PlacedFor(a)[Home(a, k)])
              /\ PlacedFor(a)[Home(a, k)].isChart
              /\ PlacedFor(a)[Home(a, k)].enabled = IF Sought(a, k) THEN "yes" ELSE "no"
         /\ \A q \in DOMAIN PlacedFor(a) :
              \/ \E k \in Charted(a) : q = Home(a, k)
              \/ /\ q \in Path /\ PlacedFor(a)[q].enabled = Charts[q]
                 /\ SameSaid(PlacedFor(a)[q], Blank)
<1>. DEFINE R == Resolved(a)
            P == PlacedFor(a)
<1>1. /\ DOMAIN P = DOMAIN R
      /\ \A q \in DOMAIN R : P[q] = IF R[q].project /\ R[q].enabled # "no"
                                     THEN [R[q] EXCEPT !.enabled = "yes"] ELSE R[q]
  BY DEF PlacedFor, ImplicitEnabled
<1>. HIDE DEF R, P
<1>2. ASSUME NEW k \in Charted(a)
      PROVE  /\ Home(a, k) \in DOMAIN P
             /\ SameSaid(P[Home(a, k)], EntryOf(a, k)) /\ IsEntry(P[Home(a, k)])
             /\ P[Home(a, k)].isChart = TRUE
             /\ P[Home(a, k)].enabled = IF Sought(a, k) THEN "yes" ELSE "no"
  <2>. DEFINE e == GivenTo(a)[k]
              r == R[Home(a, k)]
              p == P[Home(a, k)]
  <2>1. /\ IsEntry(e) /\ SameSaid(e, EntryOf(a, k))
        /\ (e.enabled # "no") <=> Sought(a, k)
    BY GivenSays DEF Charted
  <2>2. Home(a, k) \in DOMAIN R /\ r = Placed(e)
    BY Resolution DEF R
  <2>. HIDE DEF e, r
  <2>3. {"enabled", "project", "chart", "groups", "needs", "runs", "use", "paths", "annotate",
         "rule", "isChart"} \subseteq DOMAIN e
    BY <2>1 DEF IsEntry, Blank
  <2>4. /\ IsEntry(r) /\ SameSaid(r, e) /\ r.isChart = TRUE
        /\ r.enabled = IF e.enabled = "no" THEN "no" ELSE "yes"
    BY <2>1, <2>2, <2>3, PlacedStay DEF Placed, SameSaid
  <2>5. \/ p = r
        \/ r.enabled # "no" /\ p = [r EXCEPT !.enabled = "yes"]
    BY <1>1, <2>2 DEF r
  <2>. HIDE DEF p
  <2>6. /\ IsEntry(p) /\ SameSaid(p, r) /\ p.enabled = r.enabled
    <3>1. CASE p = r
      BY <2>4, <3>1 DEF SameSaid
    <3>2. CASE r.enabled # "no" /\ p = [r EXCEPT !.enabled = "yes"]
      <4>1. r.enabled = "yes"
        BY <2>4, <3>2
      <4>2. IsEntry(p) /\ SameSaid(p, r) /\ p.enabled = "yes"
        BY <2>4, <3>2, OnlyFlags
      <4>. QED
        BY <4>1, <4>2
    <3>. QED
      BY <2>5, <3>1, <3>2
  <2>7. p.isChart = TRUE
    <3>1. "isChart" \in DOMAIN r
      BY <2>4 DEF IsEntry, Blank
    <3>. QED
      BY <2>4, <2>5, <3>1
  <2>8. SameSaid(p, EntryOf(a, k))
    BY <2>1, <2>4, <2>6 DEF SameSaid
  <2>. QED
    BY <1>1, <2>1, <2>2, <2>4, <2>6, <2>7, <2>8 DEF p
<1>3. ASSUME NEW q \in DOMAIN P
      PROVE  \/ \E k \in Charted(a) : q = Home(a, k)
             \/ q \in Path /\ P[q].enabled = Charts[q] /\ SameSaid(P[q], Blank)
  <2>1. CASE q \in Path /\ R[q] = ChartTree[q]
    <3>1. R[q].project = FALSE /\ R[q].enabled = Charts[q] /\ SameSaid(R[q], Blank)
      BY <2>1 DEF ChartTree, Blank, SameSaid
    <3>. QED
      BY <1>1, <2>1, <3>1
  <2>. QED
    BY <1>1, <2>1, Resolution DEF R
<1>. QED
  BY <1>2, <1>3 DEF P

-----------------------------------------------------------------------------
\* Nothing of the tree is below the entry's chart, and what is above it is
\* neither disabled nor another entry.
LEMMA Alone ==
  ASSUME NEW a \in BuildScenarios, NEW k \in Charted(a), NEW q \in DOMAIN PlacedFor(a)
  PROVE  /\ ~Below(Home(a, k), q)
         /\ Below(q, Home(a, k)) => /\ q \in Path /\ q \notin Global
                                    /\ PlacedFor(a)[q].enabled # "no"
<1>1. /\ Charted(a) \subseteq STRING
      /\ \A l \in Charted(a) : l \in KeysOf(a) /\ HasChart(l, EntryOf(a, l))
  BY BuildScenariosType DEF KeysOf, Charted
<1>2. \A l \in Charted(a) :
        /\ Home(a, l) \in Seq(STRING) /\ ChartOf(l, EntryOf(a, l)) \in Path
        /\ \A r \in Seq(STRING) : Below(r, Home(a, l)) <=> Below(r, ChartOf(l, EntryOf(a, l)))
  BY <1>1, ChartIsThere DEF Home
<1>3. \A l \in Charted(a) : \A r \in Path :
        /\ ~Below(Home(a, l), r)
        /\ Below(r, Home(a, l)) => Charts[r] # "no" /\ r \notin Global
  BY <1>1, LeavesType DEF Home
<1>4. \A l, m \in Charted(a) : ~Below(Home(a, l), Home(a, m))
  BY <1>2, <1>3
<1>5. \/ \E l \in Charted(a) : q = Home(a, l)
      \/ q \in Path /\ PlacedFor(a)[q].enabled = Charts[q]
  BY Placement
<1>. QED
  BY <1>3, <1>4, <1>5

\* An entry is kept when it is sought, with the charts above it.
LEMMA KeptIsSought ==
  ASSUME NEW a \in BuildScenarios, NEW k \in Charted(a)
  PROVE  /\ Kept(Home(a, k), PlacedFor(a)) <=> Sought(a, k)
         /\ Sought(a, k) =>
              \A q \in DOMAIN PlacedFor(a) : Below(q, Home(a, k)) => Kept(q, PlacedFor(a))
<1>. DEFINE P == PlacedFor(a)
            p == Home(a, k)
<1>1. /\ p \in DOMAIN P /\ P[p].isChart
      /\ P[p].enabled = IF Sought(a, k) THEN "yes" ELSE "no"
  BY Placement
<1>2. \A q \in DOMAIN P : /\ ~Below(p, q)
                          /\ Below(q, p) => P[q].enabled # "no"
  BY Alone
<1>. HIDE DEF P, p
<1>3. Kept(p, P) => Sought(a, k)
  BY <1>1, <1>2 DEF Kept
<1>4. Sought(a, k) => Kept(p, P) /\ \A q \in DOMAIN P : Below(q, p) => Kept(q, P)
  BY <1>1, <1>2 DEF Kept
<1>. QED
  BY <1>3, <1>4 DEF P, p

\* And rendered when it is sought, by what was said of it.
LEMMA RenderedIsSought ==
  ASSUME NEW a \in BuildScenarios, NEW k \in Charted(a), NEW all
  PROVE  LET t == RemoveNotEnabled(PlacedFor(a))
             p == Home(a, k) IN
         /\ Rendered(p, t, all) <=> Sought(a, k)
         /\ p \in DOMAIN t => SameSaid(t[p], EntryOf(a, k))
<1>. DEFINE P == PlacedFor(a)
            p == Home(a, k)
            D == {q \in DOMAIN P : \A r \in DOMAIN P : Below(r, q) => Kept(r, P)}
            t == RemoveNotEnabled(P)
<1>1. /\ p \in DOMAIN P /\ SameSaid(P[p], EntryOf(a, k)) /\ IsEntry(P[p])
  BY Placement
<1>2. /\ Kept(p, P) <=> Sought(a, k)
      /\ Sought(a, k) => \A q \in DOMAIN P : Below(q, p) => Kept(q, P)
  BY KeptIsSought
<1>3. \A q \in DOMAIN P : Below(q, p) => q \notin Global
  BY Alone
<1>4. p \notin Global /\ Len(p) > 2
  BY LeavesType DEF Charted, Home
<1>5. \A q \in DOMAIN P : IsEntry(P[q])
  <2>1. TreeOK(P)
    BY GivenIs, ChartTreeIs, ResolvedIs, EnabledIs DEF PlacedFor, Resolved, GivenTo
  <2>. QED
    BY <2>1 DEF TreeOK
<1>. HIDE DEF P, p
<1>6. /\ DOMAIN t = D
      /\ \A q \in D : t[q] = [P[q] EXCEPT !.enabled = IF Kept(q, P) THEN "yes" ELSE "no"]
  BY DEF RemoveNotEnabled
<1>. HIDE DEF t
<1>7. \A q \in D : /\ t[q].enabled = IF Kept(q, P) THEN "yes" ELSE "no"
                   /\ SameSaid(t[q], P[q])
  <2>. TAKE q \in D
  <2>. DEFINE v == IF Kept(q, P) THEN "yes" ELSE "no"
              n == P[q]
              e == t[q]
  <2>1. e = [n EXCEPT !.enabled = v]
    BY <1>6
  <2>2. IsEntry(n)
    BY <1>5
  <2>. HIDE DEF v, n, e
  <2>3. e.enabled = v /\ SameSaid(e, n)
    BY <2>1, <2>2, OnlyFlags
  <2>. QED
    BY <2>3 DEF v, n, e
<1>8. ASSUME Sought(a, k) PROVE Rendered(p, t, all)
  <2>1. p \in D
    BY <1>1, <1>2, <1>8
  <2>2. ASSUME NEW r \in D, r = p \/ Below(r, p)
        PROVE  r \notin Global /\ t[r].enabled = "yes"
    BY <1>2, <1>3, <1>4, <1>7, <1>8, <2>2
  <2>. QED
    BY <1>6, <2>1, <2>2 DEF Rendered
<1>9. ASSUME Rendered(p, t, all) PROVE Sought(a, k)
  <2>1. p \in D
    BY <1>6, <1>9 DEF Rendered
  <2>2. t[p].enabled = "yes"
    BY <1>4, <1>6, <1>9, <2>1 DEF Rendered
  <2>. QED
    BY <1>2, <1>7, <2>1, <2>2
<1>10. p \in DOMAIN t => SameSaid(t[p], EntryOf(a, k))
  BY <1>1, <1>6, <1>7 DEF SameSaid
<1>. QED
  BY <1>8, <1>9, <1>10 DEF t, P, p

-----------------------------------------------------------------------------
(* A job that is found makes at least a run of each of its runs.            *)

Lacking == CHOOSE lacking : lacking = [job \in PluginJob |-> Lacks(RunsIn(job), lacking)]

\* Missing is what its recursion says: a run uses a job of no plugin, or one
\* whose own runs do.
LEMMA MissingIs ==
  /\ \A runs : Missing(runs) = Lacks(runs, Lacking)
  /\ Lacking = [job \in PluginJob |-> Lacks(RunsIn(job), Lacking)]
<1>. DEFINE dep == [job \in PluginJob |-> UsedBy(job)]
            made == [x \in PluginJob \X [PluginJob -> BOOLEAN] |-> Lacks(RunsIn(x[1]), x[2])]
<1>1. dep \in [PluginJob -> SUBSET PluginJob] /\ Grounded(PluginJob, dep)
  BY UsesAreGrounded DEF Grounded
<1>2. ASSUME NEW job \in PluginJob, NEW f, NEW g, \A j \in UsedBy(job) : f[j] = g[j]
      PROVE  Lacks(RunsIn(job), f) = Lacks(RunsIn(job), g)
  <2>1. \A k \in DOMAIN RunsIn(job) :
          RunsIn(job)[k].use # "" /\ Locations(RunsIn(job)[k].use) # {} =>
            f[JobFor(RunsIn(job)[k].use)] = g[JobFor(RunsIn(job)[k].use)]
    BY <1>2 DEF UsedBy
  <2>. QED
    BY <2>1 DEF Lacks
<1>3. made \in [PluginJob \X [PluginJob -> BOOLEAN] -> BOOLEAN]
  BY DEF Lacks
<1>4. \A job \in PluginJob : \A f, g \in [PluginJob -> BOOLEAN] :
        (\A j \in dep[job] : f[j] = g[j]) => made[<<job, f>>] = made[<<job, g>>]
  BY <1>2
<1>5. \E f : Solution(PluginJob, BOOLEAN, made, f)
  <2>. HIDE DEF dep, made
  <2>1. Recursion(PluginJob, BOOLEAN, dep, made)
    BY <1>1, <1>3, <1>4 DEF Recursion
  <2>. QED
    BY <2>1, RecursionEnds
<1>6. PICK f \in [PluginJob -> BOOLEAN] : \A job \in PluginJob : f[job] = Lacks(RunsIn(job), f)
  BY <1>5 DEF Solution
<1>7. f = [job \in PluginJob |-> Lacks(RunsIn(job), f)]
  BY <1>6
<1>8. Lacking = [job \in PluginJob |-> Lacks(RunsIn(job), Lacking)]
  BY <1>7 DEF Lacking
<1>9. \A runs : Missing(runs) = Lacks(runs, Lacking)
  BY DEF Missing, Lacking
<1>. QED
  BY <1>8, <1>9

\* A job of a plugin that lacks none makes runs.
LEMMA JobsMakeRuns ==
  ASSUME NEW first \in STRING, NEW job \in PluginJob, ~Lacking[job]
  PROVE  Inside(first)[job] # {}
<1>. DEFINE T == {j \in PluginJob : ~Lacking[j] /\ Inside(first)[j] = {}}
<1>1. SUFFICES ASSUME T # {} PROVE FALSE
  OBVIOUS
<1>2. PICK j \in T : UsedBy(j) \cap T = {}
  <2>1. T \in SUBSET PluginJob
    OBVIOUS
  <2>. HIDE DEF T
  <2>. QED
    BY <1>1, <2>1, UsesAreGrounded
<1>3. PICK k \in DOMAIN RunsIn(j) : TRUE
  <2>1. AreRuns(RunsIn(j)) /\ RunsIn(j) # <<>>
    BY UsesType
  <2>2. RunsIn(j) = [k \in DOMAIN RunsIn(j) |-> RunsIn(j)[k]]
    BY <2>1 DEF AreRuns
  <2>3. DOMAIN RunsIn(j) = {} => RunsIn(j) = <<>>
    BY <2>2
  <2>. QED
    BY <2>1, <2>3
<1>4. ~Lacks(RunsIn(j), Lacking)
  BY <1>2, MissingIs
<1>5. CompileRun(first, k, RunsIn(j)[k], Inside(first)) # {}
  <2>1. CASE RunsIn(j)[k].use = ""
    BY <2>1 DEF CompileRun
  <2>2. CASE RunsIn(j)[k].use # ""
    <3>. DEFINE used == JobFor(RunsIn(j)[k].use)
    <3>1. Locations(RunsIn(j)[k].use) # {} /\ ~Lacking[used]
      BY <1>3, <1>4, <2>2 DEF Lacks
    <3>2. used \in UsedBy(j) /\ used \in PluginJob
      BY <1>3, <2>2, <3>1, JobsAreThere DEF UsedBy
    <3>3. Inside(first)[used] # {}
      BY <1>2, <3>1, <3>2
    <3>. QED
      BY <2>2, <3>1, <3>3 DEF CompileRun
  <2>. QED
    BY <2>1, <2>2
<1>6. Inside(first)[j] = MadeOf(first, j, Inside(first))
  BY InsideIs
<1>. QED
  BY <1>2, <1>3, <1>5, <1>6 DEF MadeOf

\* So do the runs of a chart.
LEMMA RunsAreMade ==
  ASSUME NEW runs, AreRuns(runs), runs # <<>>, ~Missing(runs)
  PROVE  Compile(runs) # {}
<1>1. PICK k \in DOMAIN runs : TRUE
  <2>1. DOMAIN runs = {} => runs = <<>>
    BY DEF AreRuns
  <2>. QED
    BY <2>1
<1>2. ~Lacks(runs, Lacking) /\ k \in STRING
  BY <1>1, MissingIs DEF AreRuns
<1>3. CompileRun(k, k, runs[k], Inside(k)) # {}
  <2>1. CASE runs[k].use = ""
    BY <2>1 DEF CompileRun
  <2>2. CASE runs[k].use # ""
    <3>1. Locations(runs[k].use) # {} /\ ~Lacking[JobFor(runs[k].use)]
      BY <1>1, <1>2, <2>2 DEF Lacks
    <3>2. Inside(k)[JobFor(runs[k].use)] # {}
      BY <1>2, <3>1, JobsAreThere, JobsMakeRuns
    <3>. QED
      BY <2>2, <3>1, <3>2 DEF CompileRun
  <2>. QED
    BY <2>1, <2>2
<1>. QED
  BY <1>1, <1>3 DEF Compile

-----------------------------------------------------------------------------
\* What is rendered of an entry is what the templates of its chart give.
LEMMA WhatIsRendered ==
  ASSUME NEW t, NEW p, NEW all
  PROVE  {m \in Template(t, all) : m.path = p}
           = IF Rendered(p, t, all) THEN Templates(p, t[p]) ELSE {}
<1>1. ASSUME NEW q, NEW m \in Templates(q, t[q])
      PROVE  m.path = q
  <2>1. \A kind : Manifest(q, kind).path = q
    BY DEF Manifest
  <2>2. \A r : Job(q, r).path = q
    BY DEF Job, Manifest
  <2>. QED
    BY <2>1, <2>2 DEF Templates
<1>2. Rendered(p, t, all) => p \in DOMAIN t
  BY DEF Rendered
<1>. QED
  BY <1>1, <1>2 DEF Template

\* An entry that gives manifests is sought when helm renders some of it.
LEMMA SoughtIsRendered ==
  ASSUME NEW a \in BuildScenarios, Unknown(PlacedFor(a)) = {}, NEW k \in Charted(a), NEW all,
         \/ Runs(k, EntryOf(a, k)) # <<>>
         \/ KindsOf(Searched(k, EntryOf(a, k))) # {}
  PROVE  Sought(a, k) <=>
           {m \in Template(RemoveNotEnabled(PlacedFor(a)), all) : m.path = Home(a, k)} # {}
<1>. DEFINE t == RemoveNotEnabled(PlacedFor(a))
            p == Home(a, k)
            e == EntryOf(a, k)
            f == t[p]
            g == PlacedFor(a)[p]
<1>1. /\ Rendered(p, t, all) <=> Sought(a, k)
      /\ p \in DOMAIN t => SameSaid(f, e)
  BY RenderedIsSought
<1>2. {m \in Template(t, all) : m.path = p} = IF Rendered(p, t, all) THEN Templates(p, f) ELSE {}
  BY WhatIsRendered
<1>3. /\ p \in DOMAIN PlacedFor(a) /\ SameSaid(g, e)
      /\ g.enabled = IF Sought(a, k) THEN "yes" ELSE "no"
  BY Placement
<1>4. p \in Seq(STRING) \ {<<>>} /\ Name(p) = k
  <2>1. k \in STRING /\ HasChart(k, e)
    BY BuildScenariosType DEF Charted, KeysOf
  <2>. QED
    BY <2>1, ChartIsThere DEF Home
<1>5. AreRuns(Runs(k, e))
  <2>1. IsEntry(e)
    BY EntriesStay, BuildScenariosType DEF EntryOf
  <2>. QED
    BY <1>4, <2>1, RunsAre
<1>. HIDE DEF t, p, e, f, g
<1>6. \A h : SameSaid(h, e) => Runs(k, h) = Runs(k, e) /\ Searched(k, h) = Searched(k, e)
  BY DEF SameSaid, Runs, Single, Searched
<1>7. ASSUME Sought(a, k) PROVE Templates(p, f) # {}
  <2>1. p \in DOMAIN t /\ SameSaid(f, e)
    BY <1>1, <1>7 DEF Rendered
  <2>2. CASE KindsOf(Searched(k, e)) # {}
    BY <1>4, <1>6, <2>1, <2>2 DEF Templates
  <2>3. CASE Runs(k, e) # <<>>
    <3>1. ~Missing(Runs(Name(p), g))
      BY <1>3, <1>7 DEF Unknown, g, p
    <3>2. Compile(Runs(k, e)) # {}
      BY <1>3, <1>4, <1>5, <1>6, <2>3, <3>1, RunsAreMade
    <3>. QED
      BY <1>4, <1>6, <2>1, <3>2 DEF Templates
  <2>. QED
    BY <2>2, <2>3 DEF e
<1>. QED
  BY <1>1, <1>2, <1>7 DEF t, p

-----------------------------------------------------------------------------
StepName == {"dependencies", "values-compilers", "helm template", "patches",
             "post-renderer", "write", "validators", "debug-manifests", "end"}

\* Which step follows which.
LEMMA StepsAre ==
  /\ Steps[1] = "dependencies"
  /\ Following("dependencies") = "values-compilers"
  /\ Following("values-compilers") = "helm template"
  /\ Following("helm template") = "patches"
  /\ Following("patches") = "post-renderer"
  /\ Following("post-renderer") = "write"
  /\ Following("write") = "validators"
  /\ Following("validators") = "debug-manifests"
<1>1. DOMAIN Steps = 1..9
  BY DEF Steps
<1>2. /\ Steps[1] = "dependencies" /\ Steps[2] = "values-compilers"
      /\ Steps[3] = "helm template" /\ Steps[4] = "patches" /\ Steps[5] = "post-renderer"
      /\ Steps[6] = "write" /\ Steps[7] = "validators" /\ Steps[8] = "debug-manifests"
      /\ Steps[9] = "end"
  BY DEF Steps
<1>3. \A i \in 1..9 : i \in {1, 2, 3, 4, 5, 6, 7, 8, 9}
  OBVIOUS
<1>4. \A i, j \in 1..9 : Steps[i] = Steps[j] => i = j
  BY <1>2, <1>3
<1>5. ASSUME NEW i \in 1..8
      PROVE  Following(Steps[i]) = Steps[i + 1]
  <2>. DEFINE c == CHOOSE j \in DOMAIN Steps : Steps[j] = Steps[i]
  <2>1. i \in 1..9 /\ i \in DOMAIN Steps
    BY <1>1
  <2>2. c \in DOMAIN Steps /\ Steps[c] = Steps[i]
    BY <2>1
  <2>3. Following(Steps[i]) = Steps[1 + c]
    BY DEF Following
  <2>. HIDE DEF c
  <2>4. c = i
    BY <1>1, <1>4, <2>1, <2>2
  <2>. QED
    BY <2>3, <2>4
<1>. HIDE DEF Steps
<1>6. /\ Following(Steps[1]) = Steps[2] /\ Following(Steps[2]) = Steps[3]
      /\ Following(Steps[3]) = Steps[4] /\ Following(Steps[4]) = Steps[5]
      /\ Following(Steps[5]) = Steps[6] /\ Following(Steps[6]) = Steps[7]
      /\ Following(Steps[7]) = Steps[8]
  BY <1>5
<1>. QED
  BY <1>2, <1>6

\* What the build has made of what was asked, by the step that comes next.
BuildInv ==
  /\ asked \in BuildScenarios
  /\ step \in {"dependencies", "values-compilers"} => entries = asked.entries /\ tree = ChartTree
  /\ step \in {"helm template", "patches"} => Unknown(PlacedFor(asked)) = {}
  /\ step = "helm template" => tree = RemoveNotEnabled(PlacedFor(asked))
  /\ step = "patches" => manifests = Template(RemoveNotEnabled(PlacedFor(asked)), hasAll)
  /\ step \in {"post-renderer", "write", "validators"} /\ asked.spread = "waves"
       => InWaves(manifests)

\* The invariant holds at the start of a build,
LEMMA BuildInvInit == BuildInit => BuildInv
  BY StepsAre DEF BuildInit, BuildInv

\* each step keeps it,
LEMMA BuildInvNext == BuildInv /\ [BuildNext]_buildVars => BuildInv'
<1>. SUFFICES ASSUME BuildInv, [BuildNext]_buildVars PROVE BuildInv'
  OBVIOUS
<1>. USE StepsAre
<1>1. CASE DependenciesStep
  BY <1>1 DEF BuildInv, DependenciesStep, Starts, AtStep, GoesOn
<1>2. CASE CompileValues
  <2>1. /\ step = "values-compilers" /\ entries = asked.entries /\ tree = ChartTree
        /\ asked' = asked
    BY <1>2 DEF CompileValues, Starts, AtStep, BuildInv
  <2>2. ImplicitEnabled(ResolveAliasOf(GivenTo(asked), tree)) = PlacedFor(asked)
    BY <2>1 DEF PlacedFor, Resolved
  <2>3. \/ step' = step /\ tree' = tree /\ entries' = entries
        \/ /\ step' = "helm template" /\ tree' = RemoveNotEnabled(PlacedFor(asked))
           /\ Unknown(PlacedFor(asked)) = {}
    BY <1>2, <2>1, <2>2 DEF CompileValues, Throws, GoesOn, GivenTo
  <2>. QED
    BY <2>1, <2>3 DEF BuildInv
<1>3. CASE HelmTemplate
  BY <1>3 DEF BuildInv, HelmTemplate, Starts, AtStep, GoesOn, hasAll
<1>4. CASE ApplyPatches
  <2>. DEFINE labelled == ValuesPatches(manifests, tree)
              left == OnChanged(labelled, asked.changed)
  <2>1. step = "patches" /\ asked' = asked /\ tree' = tree /\ entries' = entries
    BY <1>4 DEF ApplyPatches, Starts, AtStep
  <2>2. ManifestsOK(left)
    <3>1. TreeOK(RemoveNotEnabled(PlacedFor(asked)))
      BY GivenIs, ChartTreeIs, ResolvedIs, EnabledIs DEF BuildInv, PlacedFor, Resolved, GivenTo
    <3>2. ManifestsOK(manifests)
      BY <2>1, <3>1, TemplateIs DEF BuildInv
    <3>. QED
      BY <3>2, PatchedStay
  <2>3. \/ step' = "post-renderer" /\ manifests' = {}
        \/ step' = "patches" /\ manifests' = manifests
        \/ step' = "post-renderer" /\ (asked.spread = "waves" =>
             ~Circular(left) /\ manifests' = WithoutKapp(SyncWaves(left)))
    BY <1>4, <2>1 DEF ApplyPatches, Throws, GoesOn
  <2>. HIDE DEF left, labelled
  <2>4. InWaves({})
    BY DEF InWaves
  <2>5. asked.spread = "waves" /\ step' = "post-renderer" => InWaves(manifests')
    BY <2>2, <2>3, <2>4, WavesAreRight
  <2>. QED
    BY <2>1, <2>3, <2>5 DEF BuildInv, hasAll
<1>5. CASE PostRenderer
  <2>1. InWaves({})
    BY DEF InWaves
  <2>. QED
    BY <1>5, <2>1 DEF BuildInv, PostRenderer, Starts, AtStep, GoesOn
<1>6. CASE WriteManifests
  BY <1>6 DEF BuildInv, WriteManifests, AtStep, GoesOn, Throws
<1>7. CASE Validators
  BY <1>7 DEF BuildInv, Validators, Starts, AtStep, GoesOn, Throws
<1>8. CASE DebugManifests
  BY <1>8 DEF BuildInv, DebugManifests, Starts, AtStep
<1>9. CASE ToolFails
  BY <1>9 DEF BuildInv, ToolFails, Starts, AtStep, Throws, hasAll
<1>10. CASE Abort \/ ThrowIfAborted \/ Ended \/ UNCHANGED buildVars
  BY <1>10 DEF BuildInv, Abort, ThrowIfAborted, Ended, buildVars, hasAll
<1>. QED
  BY <1>1, <1>2, <1>3, <1>4, <1>5, <1>6, <1>7, <1>8, <1>9, <1>10 DEF BuildNext

\* so it holds of every build.
LEMMA BuildInvHolds == BuildSpec => []BuildInv
BY BuildInvInit, BuildInvNext, PTL DEF BuildSpec

\* Whatever the files, --chart and --set ask for together: what helm renders of
\* the entries of the project is that (values-enable-standalone-charts.js,
\* values-override.js, the compilers 01 to 05, remove-not-enabled-values.js).
THEOREM SelectionIsBuilt == BuildSpec => []SelectedIsBuilt
<1>1. BuildInv => SelectedIsBuilt
  <2>. SUFFICES ASSUME BuildInv, step = "patches", NEW k \in Keys,
                       HasChart(k, Entry(k)), GivesManifests(k)
                PROVE  Wanted(k) <=> Of(k) # {}
    BY DEF SelectedIsBuilt
  <2>1. k \in Charted(asked)
    BY DEF Keys, Entry, Charted
  <2>2. \/ Runs(k, EntryOf(asked, k)) # <<>>
        \/ KindsOf(Searched(k, EntryOf(asked, k))) # {}
    BY DEF GivesManifests, RunsAsked, Entry
  <2>3. Of(k) = {m \in Template(RemoveNotEnabled(PlacedFor(asked)), hasAll) :
                   m.path = Home(asked, k)}
    BY DEF BuildInv, Of, Home, Entry
  <2>4. Sought(asked, k) <=> Of(k) # {}
    BY <2>1, <2>2, <2>3, SoughtIsRendered DEF BuildInv
  <2>5. Wanted(k) <=> Sought(asked, k)
    BY DEF Wanted, Sought, Entry, hasAll
  <2>. QED
    BY <2>4, <2>5
<1>. QED
  BY <1>1, BuildInvHolds, PTL

\* With sync waves, whatever needs what, the build puts nothing that a manifest
\* needs of another component in its wave or after it
\* (05.1-needs-using-argocd-sync-waves.js:11-51).
THEOREM WavesInOrder == BuildSpec => []WavesFollowNeeds
<1>1. BuildInv => WavesFollowNeeds
  BY DEF BuildInv, WavesFollowNeeds, InWaves
<1>. QED
  BY <1>1, BuildInvHolds, PTL

-----------------------------------------------------------------------------
(* What a build makes of what is asked, and what it can be refused for.     *)

Tree(a) == RemoveNotEnabled(PlacedFor(a))
Labelled(a) == ValuesPatches(Template(Tree(a), a.select = {}), Tree(a))
Left(a) == OnChanged(Labelled(a), a.changed)
Spread(a) == IF a.spread = "waves" THEN SyncWaves(Left(a)) ELSE Left(a)
Remains(a) == WithoutKapp(Spread(a))

\* Where a build stands, and the step that has refused it.
RefusalInv ==
  /\ step \in {"helm template", "patches"} => tree = Tree(asked)
  /\ step \in {"patches", "post-renderer", "write", "validators"} /\ asked.disabled = {} => defined
  /\ step \in {"post-renderer", "write", "validators"} =>
       manifests = Remains(asked) \/ (manifests = {} /\ asked.disabled # {})
  /\ outcome = "failed" /\ asked.disabled = {} =>
       \/ step \in {"dependencies", "helm template"}
       \/ step = "values-compilers" /\ Unknown(PlacedFor(asked)) # {}
       \/ /\ step = "patches"
          /\ \/ \E m \in Labelled(asked) : BadRule(m, asked.changed)
             \/ Unmet(Left(asked)) # {}
             \/ asked.spread = "waves" /\ Circular(Left(asked))
             \/ asked.spread = "init" /\ NoPods(Left(asked)) # {}
       \/ step = "validators" /\ (Unmet(Remains(asked)) # {} \/ Duplicates(Remains(asked)) # {})

\* A build starts in it.
LEMMA RefusalInvInit == BuildInit => RefusalInv
  BY StepsAre DEF BuildInit, RefusalInv

\* Each step of the build keeps it.
LEMMA RefusalInvNext == BuildInv /\ RefusalInv /\ [BuildNext]_buildVars => RefusalInv'
<1>. SUFFICES ASSUME BuildInv, RefusalInv, [BuildNext]_buildVars PROVE RefusalInv'
  OBVIOUS
<1>. USE StepsAre
<1>1. CASE DependenciesStep
  BY <1>1 DEF RefusalInv, DependenciesStep, Starts, AtStep, GoesOn
<1>2. CASE CompileValues
  <2>1. /\ step = "values-compilers" /\ entries = asked.entries /\ tree = ChartTree
        /\ asked' = asked
    BY <1>2 DEF CompileValues, Starts, AtStep, BuildInv
  <2>2. ImplicitEnabled(ResolveAliasOf(GivenTo(asked), tree)) = PlacedFor(asked)
    BY <2>1 DEF PlacedFor, Resolved
  <2>3. \/ step' = step /\ Unknown(PlacedFor(asked)) # {}
        \/ step' = "helm template" /\ tree' = Tree(asked) /\ outcome' = "running"
    BY <1>2, <2>1, <2>2 DEF CompileValues, Throws, GoesOn, GivenTo, Tree
  <2>. QED
    BY <2>1, <2>3 DEF RefusalInv
<1>3. CASE HelmTemplate
  BY <1>3 DEF RefusalInv, HelmTemplate, Starts, AtStep, GoesOn
<1>4. CASE ApplyPatches
  <2>1. /\ step = "patches" /\ asked' = asked /\ tree' = tree /\ tree = Tree(asked)
        /\ manifests = Template(Tree(asked), asked.select = {})
    BY <1>4 DEF ApplyPatches, Starts, AtStep, BuildInv, RefusalInv, Tree, hasAll
  <2>2. /\ ValuesPatches(manifests, tree) = Labelled(asked)
        /\ OnChanged(ValuesPatches(manifests, tree), asked.changed) = Left(asked)
    BY <2>1 DEF Labelled, Left
  <2>3. \/ /\ "patches" \in asked.disabled
           /\ manifests' = {} /\ step' = "post-renderer" /\ outcome' = "running"
        \/ /\ step' = "patches" /\ defined' = defined
           /\ \/ \E m \in Labelled(asked) : BadRule(m, asked.changed)
              \/ Unmet(Left(asked)) # {}
              \/ asked.spread = "waves" /\ Circular(Left(asked))
              \/ asked.spread = "init" /\ NoPods(Left(asked)) # {}
        \/ /\ step' = "post-renderer" /\ defined' = defined /\ outcome' = "running"
           /\ manifests' = Remains(asked)
    BY <1>4, <2>1, <2>2 DEF ApplyPatches, Throws, GoesOn, Remains, Spread
  <2>. QED
    BY <2>1, <2>3 DEF RefusalInv
<1>5. CASE PostRenderer
  BY <1>5 DEF RefusalInv, PostRenderer, Starts, AtStep, GoesOn
<1>6. CASE WriteManifests
  BY <1>6 DEF RefusalInv, WriteManifests, AtStep, GoesOn, Throws
<1>7. CASE Validators
  <2>1. \/ step' = "debug-manifests" /\ outcome' = "running"
        \/ step' = "validators" /\ (Unmet(manifests) # {} \/ Duplicates(manifests) # {})
    BY <1>7 DEF Validators, Starts, AtStep, GoesOn, Throws
  <2>. QED
    BY <1>7, <2>1 DEF RefusalInv, Validators, Starts, AtStep
<1>8. CASE DebugManifests
  BY <1>8 DEF RefusalInv, DebugManifests, Starts, AtStep
<1>9. CASE ToolFails
  BY <1>9 DEF RefusalInv, ToolFails, Starts, AtStep, Throws
<1>10. CASE Abort \/ ThrowIfAborted \/ Ended \/ UNCHANGED buildVars
  BY <1>10 DEF RefusalInv, Abort, ThrowIfAborted, Ended, buildVars
<1>. QED
  BY <1>1, <1>2, <1>3, <1>4, <1>5, <1>6, <1>7, <1>8, <1>9, <1>10 DEF BuildNext

\* A build is always in it.
LEMMA RefusalInvHolds == BuildSpec => [](BuildInv /\ RefusalInv)
BY BuildInvInit, BuildInvNext, RefusalInvInit, RefusalInvNext, PTL DEF BuildSpec

-----------------------------------------------------------------------------
(* What is made of the runs, when the jobs of the plugins use no job.       *)

\* A run that is written out, and run b of the job that a run uses.
OwnRun(r, run) == [name |-> <<r>>, needs |-> run.needs, stage |-> run.stage]
SubRun(r, run, b) ==
  [name |-> <<r, b>>,
   needs |-> Lifted(r, RunsOf(run.use)[b].needs) \union run.needs,
   stage |-> IF run.stage # <<>> THEN run.stage ELSE RunsOf(run.use)[b].stage]

OwnOf(runs) == {r \in DOMAIN runs : runs[r].use = ""}
UsingOf(runs) == {r \in DOMAIN runs : runs[r].use # "" /\ Locations(runs[r].use) # {}}

\* Two names, one after the other.
LEMMA Paired ==
  ASSUME NEW S, NEW r \in S, NEW b \in S
  PROVE  <<r>> \o <<b>> = <<r, b>>
<1>1. <<r>> \in Seq(S) /\ <<b>> \in Seq(S) /\ <<r, b>> \in Seq(S)
  OBVIOUS
<1>. DEFINE s == <<r>>
            t == <<b>>
            u == s \o t
            v == <<r, b>>
<1>2. Len(s) = 1 /\ Len(t) = 1 /\ s[1] = r /\ t[1] = b /\ Len(v) = 2 /\ v[1] = r /\ v[2] = b
  OBVIOUS
<1>. HIDE DEF s, t, v
<1>3. /\ u \in Seq(S) /\ Len(u) = Len(s) + Len(t)
      /\ \A i \in 1..Len(s) + Len(t) : u[i] = IF i <= Len(s) THEN s[i] ELSE t[i - Len(s)]
  BY <1>1, ConcatProperties DEF s, t
<1>. HIDE DEF u
<1>4. Len(u) = 2 /\ u[1] = s[1] /\ u[2] = t[1]
  BY <1>2, <1>3
<1>5. \A i \in 1..2 : u[i] = v[i]
  <2>1. \A i \in 1..2 : i = 1 \/ i = 2
    OBVIOUS
  <2>. QED
    BY <1>2, <1>4, <2>1
<1>6. u = v
  BY <1>1, <1>2, <1>3, <1>4, <1>5, SeqEqual DEF v
<1>. QED
  BY <1>6 DEF u, v, s, t

\* A job of a plugin makes its runs as they are.
LEMMA InsideIsFlat ==
  ASSUME PlainJobs, NEW first \in STRING, NEW job \in PluginJob
  PROVE  Inside(first)[job] = {OwnRun(b, RunsIn(job)[b]) : b \in DOMAIN RunsIn(job)}
<1>1. Inside(first)[job] = MadeOf(first, job, Inside(first))
  BY InsideIs
<1>2. \A b \in DOMAIN RunsIn(job) : RunsIn(job)[b].use = ""
  BY DEF PlainJobs
<1>3. \A b \in DOMAIN RunsIn(job) :
        CompileRun(first, b, RunsIn(job)[b], Inside(first)) = {OwnRun(b, RunsIn(job)[b])}
  BY <1>2 DEF CompileRun, OwnRun
<1>. DEFINE of == [b \in DOMAIN RunsIn(job) |-> CompileRun(first, b, RunsIn(job)[b], Inside(first))]
            own == [b \in DOMAIN RunsIn(job) |-> OwnRun(b, RunsIn(job)[b])]
<1>4. MadeOf(first, job, Inside(first)) = UNION {of[b] : b \in DOMAIN RunsIn(job)}
  BY DEF MadeOf
<1>5. \A b \in DOMAIN RunsIn(job) : of[b] = {own[b]}
  BY <1>3
<1>6. {OwnRun(b, RunsIn(job)[b]) : b \in DOMAIN RunsIn(job)} = {own[b] : b \in DOMAIN RunsIn(job)}
  OBVIOUS
<1>. HIDE DEF of, own
<1>. QED
  BY <1>1, <1>4, <1>5, <1>6

\* So each run is there once, or each of the runs of the job it uses under its
\* name.
LEMMA CompileIsFlat ==
  ASSUME PlainJobs, NEW runs, AreRuns(runs)
  PROVE  \A c : c \in Compile(runs) <=>
           \/ \E r \in OwnOf(runs) : c = OwnRun(r, runs[r])
           \/ \E r \in UsingOf(runs) : \E b \in DOMAIN RunsOf(runs[r].use) :
                c = SubRun(r, runs[r], b)
<1>. DEFINE of(r) == CompileRun(r, r, runs[r], Inside(r))
<1>1. Compile(runs) = UNION {of(r) : r \in DOMAIN runs}
  BY DEF Compile
<1>2. ASSUME NEW r \in OwnOf(runs)
      PROVE  of(r) = {OwnRun(r, runs[r])}
  BY DEF OwnOf, CompileRun, OwnRun
<1>3. ASSUME NEW r \in DOMAIN runs, r \notin OwnOf(runs), r \notin UsingOf(runs)
      PROVE  of(r) = {}
  BY <1>3 DEF OwnOf, UsingOf, CompileRun
<1>4. ASSUME NEW r \in UsingOf(runs)
      PROVE  of(r) = {SubRun(r, runs[r], b) : b \in DOMAIN RunsOf(runs[r].use)}
  <2>. DEFINE run == runs[r]
              job == JobFor(run.use)
              made(c) == [c EXCEPT
                 !.name = <<r>> \o @,
                 !.needs = Lifted(r, @) \union run.needs,
                 !.stage = IF run.stage # <<>> THEN run.stage ELSE @]
  <2>1. r \in STRING /\ run.use # "" /\ Locations(run.use) # {}
    BY DEF UsingOf, AreRuns
  <2>2. job \in PluginJob
    BY <2>1, JobsAreThere
  <2>3. of(r) = {made(c) : c \in Inside(r)[job]}
    BY <2>1 DEF CompileRun
  <2>4. Inside(r)[job] = {OwnRun(b, RunsIn(job)[b]) : b \in DOMAIN RunsIn(job)}
    BY <2>1, <2>2, InsideIsFlat
  <2>5. RunsOf(run.use) = RunsIn(job)
    BY DEF RunsOf
  <2>6. ASSUME NEW b \in DOMAIN RunsIn(job)
        PROVE  made(OwnRun(b, RunsIn(job)[b])) = SubRun(r, run, b)
    <3>1. b \in STRING
      BY <2>2, UsesType DEF AreRuns
    <3>2. <<r>> \o <<b>> = <<r, b>>
      BY <2>1, <3>1, Paired
    <3>. DEFINE c == OwnRun(b, RunsIn(job)[b])
    <3>3. made(c) = [name |-> <<r>> \o c.name, needs |-> Lifted(r, c.needs) \union run.needs,
                     stage |-> IF run.stage # <<>> THEN run.stage ELSE c.stage]
      <4>. DEFINE nm == <<r>> \o c.name
                  nd == Lifted(r, c.needs) \union run.needs
                  st == IF run.stage # <<>> THEN run.stage ELSE c.stage
      <4>1. c = [name |-> c.name, needs |-> c.needs, stage |-> c.stage]
        BY DEF OwnRun
      <4>2. made(c) = [c EXCEPT !.name = nm, !.needs = nd, !.stage = st]
        <5>. HIDE DEF c, run
        <5>. QED
          OBVIOUS
      <4>. HIDE DEF made, c, nm, nd, st
      <4>3. made(c) = [name |-> nm, needs |-> nd, stage |-> st]
        BY <4>1, <4>2
      <4>. QED
        BY <4>3 DEF nm, nd, st
    <3>4. /\ c.name = <<b>> /\ c.needs = RunsOf(run.use)[b].needs
          /\ c.stage = RunsOf(run.use)[b].stage
      BY <2>5 DEF OwnRun
    <3>. HIDE DEF made, run, job, c
    <3>. QED
      BY <3>2, <3>3, <3>4 DEF SubRun, c
  <2>. HIDE DEF made, job
  <2>. QED
    BY <2>3, <2>4, <2>5, <2>6
<1>5. OwnOf(runs) \subseteq DOMAIN runs /\ UsingOf(runs) \subseteq DOMAIN runs
  BY DEF OwnOf, UsingOf
<1>. HIDE DEF of
<1>. SUFFICES ASSUME NEW c
              PROVE  c \in Compile(runs) <=>
                       \/ \E r \in OwnOf(runs) : c = OwnRun(r, runs[r])
                       \/ \E r \in UsingOf(runs) : \E b \in DOMAIN RunsOf(runs[r].use) :
                            c = SubRun(r, runs[r], b)
  OBVIOUS
<1>6. c \in Compile(runs) <=> \E r \in DOMAIN runs : c \in of(r)
  BY <1>1
<1>7. \A r \in OwnOf(runs) : c \in of(r) <=> c = OwnRun(r, runs[r])
  BY <1>2
<1>8. \A r \in UsingOf(runs) : c \in of(r) <=>
        \E b \in DOMAIN RunsOf(runs[r].use) : c = SubRun(r, runs[r], b)
  BY <1>4
<1>. QED
  BY <1>3, <1>5, <1>6, <1>7, <1>8

-----------------------------------------------------------------------------
(* What the tree says of the charts that are rendered.                      *)

\* The charts that no entry takes the place of.
Bare(a) ==
  {p \in Path : /\ Charts[p] # "no" \/ p \in Global \/ Len(p) <= 2
                /\ \A k \in Charted(a) : p # Home(a, k)}

\* The entries that are built.
SoughtOf(a) == {k \in Charted(a) : Sought(a, k)}

\* The tree has what was said of each entry, and says nothing of the charts.
LEMMA TreeSays ==
  ASSUME NEW a \in BuildScenarios, NEW q \in DOMAIN Tree(a)
  PROVE  /\ q \in DOMAIN PlacedFor(a) /\ q \in Seq(STRING) \ {<<>>}
         /\ Tree(a)[q].enabled = IF Kept(q, PlacedFor(a)) THEN "yes" ELSE "no"
         /\ \/ \E k \in Charted(a) : q = Home(a, k) /\ SameSaid(Tree(a)[q], EntryOf(a, k))
            \/ /\ q \in Path /\ SameSaid(Tree(a)[q], Blank)
               /\ PlacedFor(a)[q].enabled = Charts[q]
               /\ \A k \in Charted(a) : q # Home(a, k)
<1>. DEFINE P == PlacedFor(a)
            D == {i \in DOMAIN P : \A r \in DOMAIN P : Below(r, i) => Kept(r, P)}
            t == Tree(a)
            n == P[q]
            v == IF Kept(q, P) THEN "yes" ELSE "no"
<1>1. TreeOK(P)
  BY GivenIs, ChartTreeIs, ResolvedIs, EnabledIs DEF PlacedFor, Resolved, GivenTo
<1>2. t = [i \in D |-> [P[i] EXCEPT !.enabled = IF Kept(i, P) THEN "yes" ELSE "no"]]
  BY DEF Tree, RemoveNotEnabled
<1>. HIDE DEF t, P
<1>3. q \in D /\ t[q] = [n EXCEPT !.enabled = v]
  BY <1>2 DEF t
<1>4. q \in DOMAIN P /\ q \in Seq(STRING) \ {<<>>} /\ IsEntry(n)
  BY <1>1, <1>3 DEF TreeOK
<1>5. SameSaid(t[q], n) /\ t[q].enabled = v
  <2>. DEFINE e == t[q]
  <2>1. e = [n EXCEPT !.enabled = v]
    BY <1>3
  <2>2. IsEntry(n)
    BY <1>4
  <2>. HIDE DEF e, n, v
  <2>3. SameSaid(e, n) /\ e.enabled = v
    BY <2>1, <2>2, OnlyFlags
  <2>. QED
    BY <2>3 DEF e
<1>6. CASE \E k \in Charted(a) : q = Home(a, k)
  <2>1. PICK k \in Charted(a) : q = Home(a, k)
    BY <1>6
  <2>2. SameSaid(n, EntryOf(a, k))
    BY <2>1, Placement DEF P
  <2>3. SameSaid(t[q], EntryOf(a, k))
    BY <1>5, <2>2 DEF SameSaid
  <2>. QED
    BY <1>4, <1>5, <2>1, <2>3 DEF t, P
<1>7. CASE ~ \E k \in Charted(a) : q = Home(a, k)
  <2>1. q \in Path /\ n.enabled = Charts[q] /\ SameSaid(n, Blank)
    BY <1>4, <1>7, Placement DEF P
  <2>2. SameSaid(t[q], Blank)
    BY <1>5, <2>1 DEF SameSaid
  <2>. QED
    BY <1>4, <1>5, <1>7, <2>1, <2>2 DEF t, P
<1>. QED
  BY <1>6, <1>7

\* A chart that is rendered is that of an entry that is sought, or bare.
LEMMA RenderedAre ==
  ASSUME NEW a \in BuildScenarios, NEW all, NEW q, Rendered(q, Tree(a), all)
  PROVE  \/ \E k \in SoughtOf(a) : q = Home(a, k) /\ SameSaid(Tree(a)[q], EntryOf(a, k))
         \/ q \in Bare(a) /\ SameSaid(Tree(a)[q], Blank)
<1>. DEFINE P == PlacedFor(a)
            t == Tree(a)
<1>1. q \in DOMAIN t
  BY DEF Rendered
<1>2. /\ q \in DOMAIN P /\ t[q].enabled = IF Kept(q, P) THEN "yes" ELSE "no"
      /\ \/ \E k \in Charted(a) : q = Home(a, k) /\ SameSaid(t[q], EntryOf(a, k))
         \/ /\ q \in Path /\ SameSaid(t[q], Blank) /\ P[q].enabled = Charts[q]
            /\ \A k \in Charted(a) : q # Home(a, k)
  BY <1>1, TreeSays
<1>3. ASSUME NEW k \in Charted(a), q = Home(a, k) PROVE Sought(a, k)
  BY <1>3, RenderedIsSought DEF Tree
<1>4. ASSUME q \in Path, P[q].enabled = Charts[q], q \notin Global, ~(Len(q) <= 2)
      PROVE  Charts[q] # "no"
  <2>1. Len(q) > 2
    <3>1. Len(q) \in Nat
      BY <1>1, TreeSays
    <3>. QED
      BY <1>4, <3>1
  <2>2. t[q].enabled = "yes"
    BY <1>1, <1>4, <2>1 DEF Rendered
  <2>3. Kept(q, P)
    BY <1>2, <2>2
  <2>4. P[q].enabled # "no"
    BY <1>2, <2>3 DEF Kept
  <2>. QED
    BY <1>4, <2>4
<1>. QED
  BY <1>2, <1>3, <1>4 DEF SoughtOf, Bare

-----------------------------------------------------------------------------
(* The patches read what the entry says: the charts above it say nothing.   *)

\* Nothing is said above the place of a manifest.
LEMMA NothingAbove ==
  ASSUME NEW a \in BuildScenarios, NEW p \in DOMAIN Tree(a),
         NEW i \in 1..Len(p), i # Len(p), SubSeq(p, 1, i) \in DOMAIN Tree(a)
  PROVE  SameSaid(Tree(a)[SubSeq(p, 1, i)], Blank)
<1>. DEFINE q == SubSeq(p, 1, i)
<1>1. p \in Seq(STRING) /\ p \in DOMAIN PlacedFor(a) /\ Len(p) \in Nat
  BY TreeSays
<1>2. Len(q) = i
  BY <1>1, SubSeqProperties
<1>3. Below(q, p)
  BY <1>1, <1>2 DEF Below
<1>. HIDE DEF q
<1>4. \A k \in Charted(a) : q # Home(a, k)
  BY <1>1, <1>3, Alone
<1>5. q \in DOMAIN Tree(a)
  BY DEF q
<1>. QED
  BY <1>4, <1>5, TreeSays DEF q

\* Down a path, only the last node may be one of those that say something.
LEMMA LastSays ==
  ASSUME NEW p \in Seq(STRING) \ {<<>>}, NEW says,
         \A i \in 1..Len(p) : SubSeq(p, 1, i) \in says => i = Len(p)
  PROVE  LET saying == {i \in 1..Len(p) : SubSeq(p, 1, i) \in says} IN
         /\ p \in says => /\ saying # {}
                          /\ SubSeq(p, 1, CHOOSE i \in saying : \A j \in saying : i <= j) = p
         /\ p \notin says => saying = {}
<1>. DEFINE saying == {i \in 1..Len(p) : SubSeq(p, 1, i) \in says}
            c == CHOOSE i \in saying : \A j \in saying : i <= j
<1>1. Len(p) \in Nat /\ Len(p) \in 1..Len(p)
  BY EmptySeq
<1>2. SubSeq(p, 1, Len(p)) = p
  <2>1. /\ SubSeq(p, 1, Len(p)) \in Seq(STRING) /\ Len(SubSeq(p, 1, Len(p))) = Len(p)
        /\ \A i \in 1..Len(p) : SubSeq(p, 1, Len(p))[i] = p[i]
    BY <1>1, SubSeqProperties
  <2>. QED
    BY <2>1, SeqEqual
<1>3. saying \subseteq {Len(p)} /\ (Len(p) \in saying <=> p \in says)
  BY <1>1, <1>2
<1>. HIDE DEF saying
<1>4. p \in says => c = Len(p)
  <2>1. p \in says => saying = {Len(p)}
    BY <1>3
  <2>. QED
    BY <1>1, <2>1
<1>. HIDE DEF c
<1>5. /\ p \in says => saying # {} /\ SubSeq(p, 1, c) = p
      /\ p \notin says => saying = {}
  BY <1>2, <1>3, <1>4
<1>. QED
  BY <1>5 DEF saying, c

\* A manifest with what its node says.
Patched(m, e) ==
  [m EXCEPT !.needs = IF @ = {} THEN e.needs ELSE @,
            !.paths = e.paths, !.rule = e.rule, !.annotate = e.annotate]

\* 00.0-values-patches gives each manifest what its own node says.
LEMMA LabelledIs ==
  ASSUME NEW a \in BuildScenarios
  PROVE  Labelled(a) = {Patched(m, Tree(a)[m.path]) : m \in Template(Tree(a), a.select = {})}
<1>. DEFINE t == Tree(a)
            ms == Template(t, a.select = {})
            D == DOMAIN t
            needs(n) == n.needs
            paths(n) == n.paths
            rule(n) == n.rule
            annotate(n) == n.annotate
<1>1. ASSUME NEW m \in ms
      PROVE  m.path \in D /\ m.path \in Seq(STRING) \ {<<>>}
  <2>1. PICK p \in D : Rendered(p, t, a.select = {}) /\ m \in Templates(p, t[p])
    BY DEF Template
  <2>2. m.path = p
    <3>1. \A kind : Manifest(p, kind).path = p
      BY DEF Manifest
    <3>2. \A r : Job(p, r).path = p
      BY DEF Job, Manifest
    <3>. QED
      BY <2>1, <3>1, <3>2 DEF Templates
  <2>. QED
    BY <2>1, <2>2, TreeSays
<1>2. ASSUME NEW p \in D
      PROVE  /\ FirstOf(p, t, needs, {}) = t[p].needs
             /\ FirstOf(p, t, paths, {}) = t[p].paths
             /\ FirstOf(p, t, rule, "") = t[p].rule
             /\ FirstOf(p, t, annotate, FALSE) = t[p].annotate
  <2>0. p \in Seq(STRING) \ {<<>>}
    BY TreeSays
  <2>1. \A i \in 1..Len(p) : i # Len(p) /\ SubSeq(p, 1, i) \in D =>
          /\ t[SubSeq(p, 1, i)].needs = {} /\ t[SubSeq(p, 1, i)].paths = {}
          /\ t[SubSeq(p, 1, i)].rule = "" /\ t[SubSeq(p, 1, i)].annotate = FALSE
    BY NothingAbove DEF SameSaid, Blank
  <2>. HIDE DEF t, D
  <2>2. FirstOf(p, t, needs, {}) = t[p].needs
    <3>. DEFINE says == {q \in D : t[q].needs # {}}
                saying == {i \in 1..Len(p) : SubSeq(p, 1, i) \in says}
                c == CHOOSE i \in saying : \A j \in saying : i <= j
    <3>1. \A i \in 1..Len(p) : SubSeq(p, 1, i) \in says => i = Len(p)
      BY <2>1
    <3>. DEFINE met == {i \in 1..Len(p) :
                         SubSeq(p, 1, i) \in DOMAIN t /\ needs(t[SubSeq(p, 1, i)]) # {}}
    <3>2. met = saying
      BY DEF D
    <3>3. FirstOf(p, t, needs, {}) =
            IF saying = {} THEN {} ELSE needs(t[SubSeq(p, 1, c)])
      <4>1. FirstOf(p, t, needs, {}) =
              IF met = {} THEN {}
              ELSE needs(t[SubSeq(p, 1, CHOOSE i \in met : \A j \in met : i <= j)])
        BY DEF FirstOf
      <4>. HIDE DEF met, saying
      <4>. QED
        BY <3>2, <4>1
    <3>4. p \in says <=> t[p].needs # {}
      OBVIOUS
    <3>. HIDE DEF says
    <3>5. /\ p \in says => saying # {} /\ SubSeq(p, 1, c) = p
          /\ p \notin says => saying = {}
      BY <2>0, <3>1, LastSays
    <3>. HIDE DEF saying, c
    <3>. QED
      BY <3>3, <3>4, <3>5
  <2>3. FirstOf(p, t, paths, {}) = t[p].paths
    <3>. DEFINE says == {q \in D : t[q].paths # {}}
                saying == {i \in 1..Len(p) : SubSeq(p, 1, i) \in says}
                c == CHOOSE i \in saying : \A j \in saying : i <= j
    <3>1. \A i \in 1..Len(p) : SubSeq(p, 1, i) \in says => i = Len(p)
      BY <2>1
    <3>. DEFINE met == {i \in 1..Len(p) :
                         SubSeq(p, 1, i) \in DOMAIN t /\ paths(t[SubSeq(p, 1, i)]) # {}}
    <3>2. met = saying
      BY DEF D
    <3>3. FirstOf(p, t, paths, {}) =
            IF saying = {} THEN {} ELSE paths(t[SubSeq(p, 1, c)])
      <4>1. FirstOf(p, t, paths, {}) =
              IF met = {} THEN {}
              ELSE paths(t[SubSeq(p, 1, CHOOSE i \in met : \A j \in met : i <= j)])
        BY DEF FirstOf
      <4>. HIDE DEF met, saying
      <4>. QED
        BY <3>2, <4>1
    <3>4. p \in says <=> t[p].paths # {}
      OBVIOUS
    <3>. HIDE DEF says
    <3>5. /\ p \in says => saying # {} /\ SubSeq(p, 1, c) = p
          /\ p \notin says => saying = {}
      BY <2>0, <3>1, LastSays
    <3>. HIDE DEF saying, c
    <3>. QED
      BY <3>3, <3>4, <3>5
  <2>4. FirstOf(p, t, rule, "") = t[p].rule
    <3>. DEFINE says == {q \in D : t[q].rule # ""}
                saying == {i \in 1..Len(p) : SubSeq(p, 1, i) \in says}
                c == CHOOSE i \in saying : \A j \in saying : i <= j
    <3>1. \A i \in 1..Len(p) : SubSeq(p, 1, i) \in says => i = Len(p)
      BY <2>1
    <3>. DEFINE met == {i \in 1..Len(p) :
                         SubSeq(p, 1, i) \in DOMAIN t /\ rule(t[SubSeq(p, 1, i)]) # ""}
    <3>2. met = saying
      BY DEF D
    <3>3. FirstOf(p, t, rule, "") =
            IF saying = {} THEN "" ELSE rule(t[SubSeq(p, 1, c)])
      <4>1. FirstOf(p, t, rule, "") =
              IF met = {} THEN ""
              ELSE rule(t[SubSeq(p, 1, CHOOSE i \in met : \A j \in met : i <= j)])
        BY DEF FirstOf
      <4>. HIDE DEF met, saying
      <4>. QED
        BY <3>2, <4>1
    <3>4. p \in says <=> t[p].rule # ""
      OBVIOUS
    <3>. HIDE DEF says
    <3>5. /\ p \in says => saying # {} /\ SubSeq(p, 1, c) = p
          /\ p \notin says => saying = {}
      BY <2>0, <3>1, LastSays
    <3>. HIDE DEF saying, c
    <3>. QED
      BY <3>3, <3>4, <3>5
  <2>5. FirstOf(p, t, annotate, FALSE) = t[p].annotate
    <3>. DEFINE says == {q \in D : t[q].annotate # FALSE}
                saying == {i \in 1..Len(p) : SubSeq(p, 1, i) \in says}
                c == CHOOSE i \in saying : \A j \in saying : i <= j
    <3>1. \A i \in 1..Len(p) : SubSeq(p, 1, i) \in says => i = Len(p)
      BY <2>1
    <3>. DEFINE met == {i \in 1..Len(p) :
                         SubSeq(p, 1, i) \in DOMAIN t /\ annotate(t[SubSeq(p, 1, i)]) # FALSE}
    <3>2. met = saying
      BY DEF D
    <3>3. FirstOf(p, t, annotate, FALSE) =
            IF saying = {} THEN FALSE ELSE annotate(t[SubSeq(p, 1, c)])
      <4>1. FirstOf(p, t, annotate, FALSE) =
              IF met = {} THEN FALSE
              ELSE annotate(t[SubSeq(p, 1, CHOOSE i \in met : \A j \in met : i <= j)])
        BY DEF FirstOf
      <4>. HIDE DEF met, saying
      <4>. QED
        BY <3>2, <4>1
    <3>4. p \in says <=> t[p].annotate # FALSE
      OBVIOUS
    <3>. HIDE DEF says
    <3>5. /\ p \in says => saying # {} /\ SubSeq(p, 1, c) = p
          /\ p \notin says => saying = {}
      BY <2>0, <3>1, LastSays
    <3>. HIDE DEF saying, c
    <3>. QED
      BY <3>3, <3>4, <3>5
  <2>. QED
    BY <2>2, <2>3, <2>4, <2>5 DEF t
<1>. DEFINE found(m) ==
              [m EXCEPT !.needs = IF @ = {} THEN FirstOf(m.path, t, needs, {}) ELSE @,
                        !.paths = FirstOf(m.path, t, paths, {}),
                        !.rule = FirstOf(m.path, t, rule, ""),
                        !.annotate = FirstOf(m.path, t, annotate, FALSE)]
<1>3. Labelled(a) = {found(m) : m \in ms}
  BY DEF Labelled, ValuesPatches
<1>4. \A m \in ms : found(m) = Patched(m, t[m.path])
  BY <1>1, <1>2 DEF Patched
<1>. HIDE DEF ms, found
<1>. QED
  BY <1>3, <1>4 DEF ms

-----------------------------------------------------------------------------
(* What is built of an entry.                                               *)

RunsFor(a, k) == Runs(k, EntryOf(a, k))
KindsFor(a, k) == KindsOf(Searched(k, EntryOf(a, k)))

\* The fields of a manifest.
Fields(p, kind, name, needs, stage, paths, annotate, rule) ==
  [path |-> p, kind |-> kind, name |-> name, needs |-> needs, stage |-> stage,
   paths |-> paths, annotate |-> annotate, rule |-> rule, wave |-> 0]

\* A manifest of entry k, that needs what the entry needs unless it says itself.
Made(a, k, kind, name, needs, stage) ==
  LET e == EntryOf(a, k) IN
  Fields(Home(a, k), kind, name, IF needs = {} THEN e.needs ELSE needs, stage,
         e.paths, e.annotate, e.rule)

OfKind(a, k, kind) == Made(a, k, kind, <<k>>, {}, <<>>)
OfRun(a, k, c) == Made(a, k, "Job", c.name, c.needs, c.stage)

OfEntry(a, k) ==
  {OfKind(a, k, kind) : kind \in KindsFor(a, k)}
  \union {OfRun(a, k, c) : c \in Compile(RunsFor(a, k))}

\* What a bare chart gives needs nothing.
OfBare(a) ==
  UNION {{Manifest(p, kind) : kind \in KindsOf(Name(p)) \union {"Job"}} : p \in Bare(a)}

\* A manifest is its fields.
FieldNames == {"path", "kind", "name", "needs", "stage", "paths", "annotate", "rule", "wave"}

\* It is made of those that are not fixed.
LEMMA FieldsAre ==
  ASSUME NEW m, m = [x \in FieldNames |-> m[x]], m.wave = 0
  PROVE  m = Fields(m.path, m.kind, m.name, m.needs, m.stage, m.paths, m.annotate, m.rule)
<1>. DEFINE g == Fields(m.path, m.kind, m.name, m.needs, m.stage, m.paths, m.annotate, m.rule)
<1>1. g = [x \in FieldNames |-> g[x]]
  BY DEF Fields, FieldNames
<1>2. /\ g.path = m.path /\ g.kind = m.kind /\ g.name = m.name /\ g.needs = m.needs
      /\ g.stage = m.stage /\ g.paths = m.paths /\ g.annotate = m.annotate /\ g.rule = m.rule
      /\ g.wave = m.wave
  BY DEF Fields
<1>. HIDE DEF g
<1>3. \A x \in FieldNames : g[x] = m[x]
  BY <1>2 DEF FieldNames
<1>4. [x \in FieldNames |-> g[x]] = [x \in FieldNames |-> m[x]]
  BY <1>3
<1>. QED
  BY <1>1, <1>4 DEF g

\* What the node says takes the place of what the manifest has, but its needs.
LEMMA PatchedFields ==
  ASSUME NEW m, m = [x \in FieldNames |-> m[x]], NEW e
  PROVE  /\ Patched(m, e) = [x \in FieldNames |-> Patched(m, e)[x]]
         /\ Patched(m, e).path = m.path /\ Patched(m, e).kind = m.kind
         /\ Patched(m, e).name = m.name /\ Patched(m, e).stage = m.stage
         /\ Patched(m, e).wave = m.wave /\ Patched(m, e).paths = e.paths
         /\ Patched(m, e).annotate = e.annotate /\ Patched(m, e).rule = e.rule
         /\ Patched(m, e).needs = IF m.needs = {} THEN e.needs ELSE m.needs
<1>. DEFINE n == Patched(m, e)
<1>1. DOMAIN m = FieldNames
  OBVIOUS
<1>2. n = [x \in FieldNames |-> n[x]]
  BY <1>1 DEF Patched
<1>3. /\ n.path = m.path /\ n.kind = m.kind /\ n.name = m.name /\ n.stage = m.stage
      /\ n.wave = m.wave /\ n.paths = e.paths /\ n.annotate = e.annotate /\ n.rule = e.rule
      /\ n.needs = IF m.needs = {} THEN e.needs ELSE m.needs
  BY <1>1 DEF Patched, FieldNames
<1>. QED
  BY <1>2, <1>3

\* What a template gives has all the fields.
LEMMA TemplateFields ==
  ASSUME NEW p, NEW kind
  PROVE  /\ Manifest(p, kind) = [x \in FieldNames |-> Manifest(p, kind)[x]]
         /\ Manifest(p, kind) = Fields(p, kind, <<Name(p)>>, {}, <<>>, {}, FALSE, "")
<1>1. Manifest(p, kind) = [x \in FieldNames |-> Manifest(p, kind)[x]]
  BY DEF Manifest, FieldNames
<1>2. Manifest(p, kind) = Fields(p, kind, <<Name(p)>>, {}, <<>>, {}, FALSE, "")
  BY DEF Manifest, Fields
<1>. QED
  BY <1>1, <1>2

\* So does a Job, those of its run among them.
LEMMA JobFields ==
  ASSUME NEW p, NEW c
  PROVE  /\ Job(p, c) = [x \in FieldNames |-> Job(p, c)[x]]
         /\ Job(p, c).path = p /\ Job(p, c).kind = "Job" /\ Job(p, c).name = c.name
         /\ Job(p, c).needs = c.needs /\ Job(p, c).stage = c.stage /\ Job(p, c).wave = 0
<1>. DEFINE m == Manifest(p, "Job")
            j == Job(p, c)
<1>1. m = [x \in FieldNames |-> m[x]] /\ m.path = p /\ m.kind = "Job" /\ m.wave = 0
  BY TemplateFields DEF Manifest
<1>2. j = [m EXCEPT !.name = c.name, !.needs = c.needs, !.stage = c.stage]
  BY DEF Job
<1>. HIDE DEF m, j
<1>3. DOMAIN m = FieldNames
  BY <1>1
<1>4. j = [x \in FieldNames |-> j[x]]
  BY <1>2, <1>3
<1>5. /\ j.path = p /\ j.kind = "Job" /\ j.name = c.name
      /\ j.needs = c.needs /\ j.stage = c.stage /\ j.wave = 0
  BY <1>1, <1>2, <1>3 DEF FieldNames
<1>. QED
  BY <1>4, <1>5 DEF j

\* A manifest of a node with what the node says.
LEMMA PatchedAre ==
  ASSUME NEW p, NEW e, NEW kind, NEW c
  PROVE  /\ Patched(Manifest(p, kind), e) =
              Fields(p, kind, <<Name(p)>>, e.needs, <<>>, e.paths, e.annotate, e.rule)
         /\ Patched(Job(p, c), e) =
              Fields(p, "Job", c.name, IF c.needs = {} THEN e.needs ELSE c.needs, c.stage,
                     e.paths, e.annotate, e.rule)
<1>1. Patched(Manifest(p, kind), e) =
        Fields(p, kind, <<Name(p)>>, e.needs, <<>>, e.paths, e.annotate, e.rule)
  <2>. DEFINE m == Manifest(p, kind)
              n == Patched(m, e)
  <2>1. /\ m.path = p /\ m.kind = kind /\ m.name = <<Name(p)>> /\ m.needs = {}
        /\ m.stage = <<>> /\ m.wave = 0
    BY DEF Manifest
  <2>2. m = [x \in FieldNames |-> m[x]]
    BY TemplateFields
  <2>. HIDE DEF m
  <2>3. /\ n = [x \in FieldNames |-> n[x]]
        /\ n.path = p /\ n.kind = kind /\ n.name = <<Name(p)>> /\ n.needs = e.needs
        /\ n.stage = <<>> /\ n.wave = 0 /\ n.paths = e.paths /\ n.annotate = e.annotate
        /\ n.rule = e.rule
    BY <2>1, <2>2, PatchedFields
  <2>. HIDE DEF n
  <2>4. n = Fields(n.path, n.kind, n.name, n.needs, n.stage, n.paths, n.annotate, n.rule)
    BY <2>3, FieldsAre
  <2>. QED
    BY <2>3, <2>4 DEF n, m
<1>2. Patched(Job(p, c), e) =
        Fields(p, "Job", c.name, IF c.needs = {} THEN e.needs ELSE c.needs, c.stage,
               e.paths, e.annotate, e.rule)
  <2>. DEFINE m == Job(p, c)
              n == Patched(m, e)
              needs == IF c.needs = {} THEN e.needs ELSE c.needs
  <2>1. /\ m = [x \in FieldNames |-> m[x]]
        /\ m.path = p /\ m.kind = "Job" /\ m.name = c.name /\ m.needs = c.needs
        /\ m.stage = c.stage /\ m.wave = 0
    BY JobFields
  <2>. HIDE DEF m
  <2>3. /\ n = [x \in FieldNames |-> n[x]]
        /\ n.path = p /\ n.kind = "Job" /\ n.name = c.name /\ n.needs = needs
        /\ n.stage = c.stage /\ n.wave = 0 /\ n.paths = e.paths /\ n.annotate = e.annotate
        /\ n.rule = e.rule
    BY <2>1, PatchedFields
  <2>. HIDE DEF n, needs
  <2>4. n = Fields(n.path, n.kind, n.name, n.needs, n.stage, n.paths, n.annotate, n.rule)
    BY <2>3, FieldsAre
  <2>. QED
    BY <2>3, <2>4 DEF n, m, needs
<1>. QED
  BY <1>1, <1>2

\* The place of an entry has its name.
LEMMA HomeIs ==
  ASSUME NEW a \in BuildScenarios, NEW k \in Charted(a)
  PROVE  /\ k \in STRING /\ k \in KeysOf(a) /\ HasChart(k, EntryOf(a, k))
         /\ Home(a, k) \in Seq(STRING) \ {<<>>} /\ Name(Home(a, k)) = k
         /\ IsEntry(EntryOf(a, k)) /\ AreRuns(RunsFor(a, k))
<1>1. k \in STRING /\ k \in KeysOf(a) /\ HasChart(k, EntryOf(a, k))
  BY BuildScenariosType DEF Charted, KeysOf
<1>2. Home(a, k) \in Seq(STRING) \ {<<>>} /\ Name(Home(a, k)) = k
  BY <1>1, ChartIsThere DEF Home
<1>3. IsEntry(EntryOf(a, k))
  BY EntriesStay, BuildScenariosType DEF EntryOf
<1>4. AreRuns(RunsFor(a, k))
  BY <1>2, <1>3, RunsAre DEF RunsFor
<1>. QED
  BY <1>1, <1>2, <1>3, <1>4

\* What the templates of a node and the patches after them make.
LEMMA NodeGives ==
  ASSUME NEW a \in BuildScenarios, NEW p \in DOMAIN Tree(a), NEW m
  PROVE  /\ \A k \in Charted(a) : p = Home(a, k) /\ SameSaid(Tree(a)[p], EntryOf(a, k)) =>
              (m \in OfEntry(a, k) <=>
                 \E n \in Templates(p, Tree(a)[p]) : m = Patched(n, Tree(a)[p]))
         /\ p \in Bare(a) /\ SameSaid(Tree(a)[p], Blank) =>
              \A n \in Templates(p, Tree(a)[p]) : Patched(n, Tree(a)[p]) \in OfBare(a)
<1>. DEFINE e == Tree(a)[p]
<1>1. ASSUME NEW k \in Charted(a), p = Home(a, k), SameSaid(e, EntryOf(a, k))
      PROVE  m \in OfEntry(a, k) <=> \E n \in Templates(p, e) : m = Patched(n, e)
  <2>. HIDE DEF e
  <2>1. Name(p) = k
    BY <1>1, HomeIs
  <2>2. Searched(k, e) = Searched(k, EntryOf(a, k)) /\ Runs(k, e) = RunsFor(a, k)
    BY <1>1 DEF SameSaid, Runs, Single, Searched, RunsFor
  <2>3. Templates(p, e) = {Manifest(p, kind) : kind \in KindsFor(a, k)}
                            \union {Job(p, c) : c \in Compile(RunsFor(a, k))}
    BY <2>1, <2>2 DEF Templates, KindsFor
  <2>4. \A kind : Patched(Manifest(p, kind), e) = OfKind(a, k, kind)
    <3>. TAKE kind
    <3>1. Patched(Manifest(p, kind), e) =
              Fields(p, kind, <<Name(p)>>, e.needs, <<>>, e.paths, e.annotate, e.rule)
      BY PatchedAre
    <3>. QED
      BY <1>1, <2>1, <3>1 DEF OfKind, Made, SameSaid
  <2>5. \A c : Patched(Job(p, c), e) = OfRun(a, k, c)
    <3>. TAKE c
    <3>1. Patched(Job(p, c), e) =
              Fields(p, "Job", c.name, IF c.needs = {} THEN e.needs ELSE c.needs, c.stage,
                     e.paths, e.annotate, e.rule)
      BY PatchedAre
    <3>. QED
      BY <1>1, <3>1 DEF OfRun, Made, SameSaid
  <2>. QED
    BY <2>3, <2>4, <2>5 DEF OfEntry
<1>2. ASSUME p \in Bare(a), SameSaid(e, Blank), NEW n \in Templates(p, e)
      PROVE  Patched(n, e) \in OfBare(a)
  <2>. HIDE DEF e
  <2>1. /\ e.chart = "" /\ e.runs = <<>> /\ e.use = "" /\ e.needs = {} /\ e.paths = {}
        /\ e.annotate = FALSE /\ e.rule = ""
    BY <1>2 DEF SameSaid, Blank
  <2>2. Searched(Name(p), e) = Name(p)
    BY <2>1 DEF Searched
  <2>3. CASE \E kind \in KindsOf(Name(p)) : n = Manifest(p, kind)
    <3>1. PICK kind \in KindsOf(Name(p)) : n = Manifest(p, kind)
      BY <2>3
    <3>2. Patched(n, e) = Manifest(p, kind)
      BY <2>1, <3>1, PatchedAre DEF Manifest, Fields
    <3>. QED
      BY <1>2, <3>2 DEF OfBare
  <2>4. CASE \E c \in Compile(Runs(Name(p), e)) : n = Job(p, c)
    <3>1. PICK c \in Compile(Runs(Name(p), e)) : n = Job(p, c)
      BY <2>4
    <3>. DEFINE runs == Runs(Name(p), e)
    <3>2. Compile(runs) = UNION {CompileRun(r, r, runs[r], Inside(r)) : r \in DOMAIN runs}
      BY DEF Compile
    <3>3. DOMAIN runs = {Name(p)} /\ runs[Name(p)] = [use |-> "", needs |-> {}, stage |-> <<>>]
      <4>1. DOMAIN e.runs = {}
        <5>1. DOMAIN <<>> = {}
          OBVIOUS
        <5>2. e.runs = <<>>
          BY <2>1
        <5>. QED
          BY <5>1, <5>2
      <4>2. CASE Name(p) = "job"
        BY <2>1, <2>2, <4>2 DEF Runs, Single
      <4>3. CASE Name(p) # "job"
        <5>1. runs = e.runs
          BY <2>2, <4>3 DEF Runs
        <5>2. Compile(runs) = {}
          BY <3>2, <4>1, <5>1
        <5>. QED
          BY <3>1, <5>2
      <4>. QED
        BY <4>2, <4>3
    <3>4. c \in CompileRun(Name(p), Name(p), runs[Name(p)], Inside(Name(p)))
      BY <3>1, <3>2, <3>3
    <3>5. c = [name |-> <<Name(p)>>, needs |-> {}, stage |-> <<>>]
      <4>. DEFINE run == runs[Name(p)]
      <4>1. run.use = "" /\ run.needs = {} /\ run.stage = <<>>
        <5>. HIDE DEF runs
        <5>1. run = [use |-> "", needs |-> {}, stage |-> <<>>]
          BY <3>3
        <5>. HIDE DEF run
        <5>. QED
          BY <5>1
      <4>. HIDE DEF run, runs
      <4>. QED
        BY <3>4, <4>1 DEF CompileRun, run
    <3>6. Patched(n, e) = Manifest(p, "Job")
      <4>1. Patched(Job(p, c), e) = Fields(p, "Job", <<Name(p)>>, {}, <<>>, {}, FALSE, "")
        <5>1. c.name = <<Name(p)>> /\ c.needs = {} /\ c.stage = <<>>
          BY <3>5
        <5>. QED
          BY <2>1, <5>1, PatchedAre
      <4>. QED
        BY <3>1, <4>1 DEF Manifest, Fields
    <3>. QED
      BY <1>2, <3>6 DEF OfBare
  <2>. QED
    BY <2>2, <2>3, <2>4 DEF Templates
<1>. QED
  BY <1>1, <1>2

\* What is built: that of the entries that are sought, all of it, and of the
\* bare charts.
LEMMA LabelledAre ==
  ASSUME NEW a \in BuildScenarios
  PROVE  /\ \A m \in Labelled(a) : m \in OfBare(a) \/ \E k \in SoughtOf(a) : m \in OfEntry(a, k)
         /\ \A k \in SoughtOf(a) : OfEntry(a, k) \subseteq Labelled(a)
<1>. DEFINE t == Tree(a)
            all == (a.select = {})
<1>1. Labelled(a) = {Patched(m, t[m.path]) : m \in Template(t, all)}
  BY LabelledIs
<1>. HIDE DEF all
<1>2. ASSUME NEW m \in Labelled(a)
      PROVE  m \in OfBare(a) \/ \E k \in SoughtOf(a) : m \in OfEntry(a, k)
  <2>1. PICK n \in Template(t, all) : m = Patched(n, t[n.path])
    BY <1>1
  <2>. DEFINE p == n.path
  <2>2. p \in DOMAIN t /\ Rendered(p, t, all) /\ n \in Templates(p, t[p])
    <3>1. {i \in Template(t, all) : i.path = p}
            = IF Rendered(p, t, all) THEN Templates(p, t[p]) ELSE {}
      BY WhatIsRendered
    <3>. QED
      BY <3>1 DEF Rendered
  <2>. HIDE DEF p
  <2>3. CASE \E k \in SoughtOf(a) : p = Home(a, k) /\ SameSaid(t[p], EntryOf(a, k))
    <3>1. PICK k \in SoughtOf(a) : p = Home(a, k) /\ SameSaid(t[p], EntryOf(a, k))
      BY <2>3
    <3>2. m \in OfEntry(a, k)
      BY <2>1, <2>2, <3>1, NodeGives DEF p, SoughtOf
    <3>. QED
      BY <3>2
  <2>4. CASE p \in Bare(a) /\ SameSaid(t[p], Blank)
    BY <2>1, <2>2, <2>4, NodeGives DEF p
  <2>. QED
    BY <2>2, <2>3, <2>4, RenderedAre
<1>3. ASSUME NEW k \in SoughtOf(a), NEW m \in OfEntry(a, k)
      PROVE  m \in Labelled(a)
  <2>. DEFINE p == Home(a, k)
  <2>1. k \in Charted(a) /\ Sought(a, k)
    BY DEF SoughtOf
  <2>2. Rendered(p, t, all) /\ p \in DOMAIN t /\ SameSaid(t[p], EntryOf(a, k))
    <3>1. /\ Rendered(p, t, all) <=> Sought(a, k)
          /\ p \in DOMAIN t => SameSaid(t[p], EntryOf(a, k))
      BY <2>1, RenderedIsSought DEF Tree
    <3>. QED
      BY <2>1, <3>1 DEF Rendered
  <2>3. PICK n \in Templates(p, t[p]) : m = Patched(n, t[p])
    BY <2>1, <2>2, NodeGives
  <2>4. n \in Template(t, all) /\ n.path = p
    <3>1. {i \in Template(t, all) : i.path = p}
            = IF Rendered(p, t, all) THEN Templates(p, t[p]) ELSE {}
      BY WhatIsRendered
    <3>. QED
      BY <2>2, <2>3, <3>1
  <2>. QED
    BY <1>1, <2>3, <2>4
<1>. QED
  BY <1>2, <1>3

-----------------------------------------------------------------------------
(* The names by which what is built of an entry can be needed.              *)

\* The beginnings of a sequence.
LEMMA Beginning ==
  ASSUME NEW S, NEW s \in Seq(S), NEW n \in Seq(S), Len(n) <= Len(s),
         \A i \in 1..Len(n) : s[i] = n[i]
  PROVE  SubSeq(s, 1, Len(n)) = n
<1>1. Len(n) \in Nat /\ Len(s) \in Nat
  OBVIOUS
<1>. DEFINE u == SubSeq(s, 1, Len(n))
<1>2. u \in Seq(S) /\ Len(u) = Len(n) /\ \A i \in 1..Len(n) : u[i] = s[i]
  BY <1>1, SubSeqProperties
<1>. HIDE DEF u
<1>3. u = n
  BY <1>2, SeqEqual
<1>. QED
  BY <1>3 DEF u

\* A name of one, two or three parts, cut short.
LEMMA CutShort ==
  ASSUME NEW S, NEW r \in S, NEW b \in S, NEW c \in S
  PROVE  /\ SubSeq(<<r>>, 1, 1) = <<r>>
         /\ SubSeq(<<r, b>>, 1, 1) = <<r>> /\ SubSeq(<<r, b>>, 1, 2) = <<r, b>>
         /\ SubSeq(<<r, b, c>>, 1, 1) = <<r>> /\ SubSeq(<<r, b, c>>, 1, 2) = <<r, b>>
         /\ SubSeq(<<r, b, c>>, 1, 3) = <<r, b, c>>
<1>. DEFINE s == <<r>>
            t == <<r, b>>
            u == <<r, b, c>>
<1>1. s \in Seq(S) /\ t \in Seq(S) /\ u \in Seq(S)
  OBVIOUS
<1>2. /\ Len(s) = 1 /\ s[1] = r
      /\ Len(t) = 2 /\ t[1] = r /\ t[2] = b
      /\ Len(u) = 3 /\ u[1] = r /\ u[2] = b /\ u[3] = c
  OBVIOUS
<1>. HIDE DEF s, t, u
<1>3. \A i : /\ i \in 1..1 => i = 1
             /\ i \in 1..2 => i = 1 \/ i = 2
             /\ i \in 1..3 => i = 1 \/ i = 2 \/ i = 3
  OBVIOUS
<1>4. /\ SubSeq(s, 1, Len(s)) = s
      /\ SubSeq(t, 1, Len(s)) = s /\ SubSeq(t, 1, Len(t)) = t
      /\ SubSeq(u, 1, Len(s)) = s /\ SubSeq(u, 1, Len(t)) = t /\ SubSeq(u, 1, Len(u)) = u
  <2>1. SubSeq(s, 1, Len(s)) = s
    BY <1>1, <1>2, Beginning
  <2>2. SubSeq(t, 1, Len(s)) = s
    BY <1>1, <1>2, <1>3, Beginning
  <2>3. SubSeq(t, 1, Len(t)) = t
    BY <1>1, <1>2, Beginning
  <2>4. SubSeq(u, 1, Len(s)) = s
    BY <1>1, <1>2, <1>3, Beginning
  <2>5. SubSeq(u, 1, Len(t)) = t
    BY <1>1, <1>2, <1>3, Beginning
  <2>6. SubSeq(u, 1, Len(u)) = u
    BY <1>1, <1>2, Beginning
  <2>. QED
    BY <2>1, <2>2, <2>3, <2>4, <2>5, <2>6
<1>. QED
  BY <1>2, <1>4 DEF s, t, u

\* Of the numbers that places in short names are.
LEMMA UpToThree ==
  /\ 1..1 = {1} /\ 1..2 = {1, 2} /\ 1..3 = {1, 2, 3}
  /\ 2 - 1 = 1 /\ 2 > 1 /\ ~(1 > 1)
  OBVIOUS

NamesOf(name) ==
  UNION {NamePrefixes(n) : n \in {name} \union Scopes(name)}

\* A run can be needed by its name; one made of a run by the name of that run
\* as well, and by both names with and without a dot more.
LEMMA NamesAre ==
  ASSUME NEW r \in STRING, NEW b \in STRING, r # "", b # ""
  PROVE  /\ NamesOf(<<r>>) = {<<r>>}
         /\ NamesOf(<<r, b>>) = {<<r>>, <<r, b>>, <<r, "", b>>}
<1>0. r \in Part /\ b \in Part /\ "" \in Part
  BY DEF Part
<1>. DEFINE s == <<r>>
            t == <<r, b>>
            u == <<r, "", b>>
            v == <<r, "">>
<1>1. /\ SubSeq(s, 1, 1) = s
      /\ SubSeq(t, 1, 1) = s /\ SubSeq(t, 1, 2) = t
      /\ SubSeq(u, 1, 1) = s /\ SubSeq(u, 1, 2) = v /\ SubSeq(u, 1, 3) = u
      /\ SubSeq(v, 1, 1) = s
  BY <1>0, CutShort
<1>2. /\ Len(s) = 1 /\ Len(t) = 2 /\ Len(u) = 3 /\ Len(v) = 2
      /\ s[1] = r /\ t[1] = r /\ t[2] = b /\ u[3] = b /\ v[2] = ""
  OBVIOUS
<1>3. u = <<t[1], "", t[Len(t)]>>
  OBVIOUS
<1>. HIDE DEF s, t, u, v
<1>4. 1..1 = {1} /\ 1..2 = {1, 2} /\ 1..3 = {1, 2, 3}
  BY UpToThree
<1>. DEFINE cut(n) == IF n[Len(n)] = "" THEN SubSeq(n, 1, Len(n) - 1) ELSE n
<1>5. cut(s) = s /\ cut(t) = t /\ cut(u) = u /\ cut(v) = s
  <2>. HIDE DEF cut
  <2>1. s[Len(s)] = r /\ t[Len(t)] = b /\ u[Len(u)] = b /\ v[Len(v)] = "" /\ Len(v) - 1 = 1
    <3>1. s[Len(s)] = r
      BY <1>2
    <3>2. t[Len(t)] = b
      BY <1>2
    <3>3. u[Len(u)] = b
      BY <1>2
    <3>4. v[Len(v)] = ""
      BY <1>2
    <3>5. Len(v) - 1 = 1
      BY <1>2, UpToThree
    <3>. QED
      BY <3>1, <3>2, <3>3, <3>4, <3>5
  <2>. HIDE DEF cut
  <2>2. \A n : cut(n) = IF n[Len(n)] = "" THEN SubSeq(n, 1, Len(n) - 1) ELSE n
    BY DEF cut
  <2>3. cut(s) = s /\ cut(t) = t /\ cut(u) = u
    BY <2>1, <2>2
  <2>4. cut(v) = SubSeq(v, 1, 1)
    BY <2>1, <2>2
  <2>. QED
    BY <1>1, <2>3, <2>4
<1>6. \A name : NamePrefixes(name) = {cut(SubSeq(name, 1, i)) : i \in 1..Len(name)}
  BY DEF NamePrefixes
<1>. HIDE DEF cut
<1>7. NamePrefixes(s) = {s} /\ NamePrefixes(t) = {s, t} /\ NamePrefixes(u) = {s, u}
  <2>1. NamePrefixes(s) = {s}
    BY <1>1, <1>2, <1>4, <1>5, <1>6
  <2>2. NamePrefixes(t) = {s, t}
    BY <1>1, <1>2, <1>4, <1>5, <1>6
  <2>3. NamePrefixes(u) = {s, u}
    BY <1>1, <1>2, <1>4, <1>5, <1>6
  <2>. QED
    BY <2>1, <2>2, <2>3
<1>8. Scopes(s) = {s} /\ Scopes(t) = {s, t, u}
  <2>1. Scopes(s) = {s}
    <3>0. Len(s) = 1 /\ ~(Len(s) > 1)
      BY <1>2, UpToThree
    <3>1. Scopes(s) = {SubSeq(s, 1, i) : i \in 1..1}
      BY <3>0 DEF Scopes
    <3>. QED
      BY <1>1, <1>4, <3>1
  <2>2. Scopes(t) = {s, t, u}
    <3>0. Len(t) = 2 /\ Len(t) > 1 /\ u = <<t[1], "", t[Len(t)]>>
      BY <1>2, <1>3, UpToThree
    <3>1. Scopes(t) = {SubSeq(t, 1, i) : i \in 1..2} \union {u}
      BY <3>0 DEF Scopes
    <3>2. {SubSeq(t, 1, i) : i \in 1..2} = {s, t}
      BY <1>1, <1>4
    <3>. QED
      BY <3>1, <3>2
  <2>. QED
    BY <2>1, <2>2
<1>9. NamesOf(s) = {s} /\ NamesOf(t) = {s, t, u}
  <2>1. NamesOf(s) = {s}
    BY <1>7, <1>8 DEF NamesOf
  <2>2. NamesOf(t) = {s, t, u}
    BY <1>7, <1>8 DEF NamesOf
  <2>. QED
    BY <2>1, <2>2
<1>. QED
  BY <1>9 DEF s, t, u

-----------------------------------------------------------------------------
(* The names by which what is built of an entry can be needed, all of them. *)

\* How the place of an entry starts.
Above == UNION {{p[i] : i \in 1..(Len(p) - 1)} : p \in Path}

\* The place of an entry is that of a chart but for its last name.
LEMMA PlaceIs ==
  ASSUME NEW a \in BuildScenarios, NEW k \in Charted(a)
  PROVE  /\ Home(a, k) \in Seq(STRING) /\ Len(Home(a, k)) \in Nat /\ Len(Home(a, k)) > 2
         /\ Home(a, k)[Len(Home(a, k))] = k
         /\ \A i \in 1..(Len(Home(a, k)) - 1) : Home(a, k)[i] \in Above
<1>. DEFINE e == EntryOf(a, k)
            c == ChartOf(k, e)
            p == Home(a, k)
            t == SubSeq(c, 1, Len(c) - 1)
<1>1. /\ k \in STRING /\ k \in KeysOf(a) /\ HasChart(k, e)
      /\ p \in Seq(STRING) \ {<<>>} /\ Name(p) = k
  BY HomeIs
<1>2. Len(p) > 2
  BY <1>1, LeavesType DEF Home
<1>3. c \in Path /\ c \in Seq(STRING) /\ Len(c) > 1
  BY <1>1, ChartIsThere
<1>4. p = Append(t, k)
  BY DEF Home, Instance, Parent
<1>. HIDE DEF e, c, p
<1>5. t \in Seq(STRING) /\ Len(t) = Len(c) - 1 /\ \A j \in 1..(Len(c) - 1) : t[j] = c[j]
  BY <1>3, SubSeqProperties
<1>. HIDE DEF t
<1>6. /\ Len(p) = Len(t) + 1
      /\ \A j \in 1..Len(t) : p[j] = t[j]
  <2>1. k \in STRING /\ t \in Seq(STRING)
    BY <1>1, <1>5
  <2>. QED
    BY <1>4, <2>1, AppendProperties
<1>7. Len(t) \in Nat /\ Len(p) - 1 = Len(t) /\ Len(c) - 1 = Len(t)
  BY <1>3, <1>5, <1>6
<1>8. \A i \in 1..(Len(p) - 1) : p[i] = c[i]
  BY <1>5, <1>6, <1>7
<1>9. \A i \in 1..(Len(c) - 1) : c[i] \in Above
  BY <1>3 DEF Above
<1>10. \A i \in 1..(Len(p) - 1) : p[i] \in Above
  BY <1>7, <1>8, <1>9
<1>11. Len(p) \in Nat /\ p[Len(p)] = k
  BY <1>1 DEF Name
<1>. QED
  BY <1>1, <1>2, <1>10, <1>11 DEF p

\* The path without the plugins is an end of it.
LEMMA TopIs ==
  ASSUME NEW p \in Seq(STRING), Len(p) > 0
  PROVE  TopParts(p) = <<>> \/ \E l \in 1..(Len(p) - 1) : TopParts(p) = SubSeq(p, l + 1, Len(p))
<1>. DEFINE plugins == {i \in 1..Len(p) : \A j \in 2..i : SubSeq(p, 1, j) \in Dependencies}
            last == CHOOSE i \in plugins : \A j \in plugins : j <= i
<1>1. Len(p) \in Nat /\ 1 \in 1..Len(p)
  OBVIOUS
<1>2. 1 \in plugins
  <2>1. 2..1 = {}
    OBVIOUS
  <2>. QED
    BY <1>1, <2>1
<1>3. IsFiniteSet(plugins) /\ plugins \in SUBSET Nat
  <2>1. plugins \subseteq 1..Len(p) /\ IsFiniteSet(1..Len(p))
    BY <1>1, FS_Interval
  <2>2. IsFiniteSet(plugins)
    BY <2>1, FS_Subset
  <2>3. 1..Len(p) \subseteq Nat
    BY <1>1
  <2>. QED
    BY <2>1, <2>2, <2>3
<1>4. plugins \subseteq 1..Len(p)
  OBVIOUS
<1>5. TopParts(p) = SubSeq(p, last + 1, Len(p))
  BY DEF TopParts
<1>. HIDE DEF plugins
<1>6. last \in plugins
  <2>1. \E i \in plugins : \A j \in plugins : j <= i
    BY <1>2, <1>3, Greatest
  <2>. QED
    BY <2>1
<1>. HIDE DEF last
<1>7. last \in 1..Len(p)
  BY <1>4, <1>6
<1>8. CASE last = Len(p)
  <2>1. SubSeq(p, Len(p) + 1, Len(p)) = <<>>
    BY <1>1
  <2>. QED
    BY <1>5, <1>8, <2>1
<1>9. CASE last # Len(p)
  BY <1>1, <1>5, <1>7, <1>9
<1>. QED
  BY <1>8, <1>9

\* One sequence after another.
LEMMA OneThenOther ==
  ASSUME NEW S, NEW s \in Seq(S), s # <<>>, NEW t \in Seq(S)
  PROVE  /\ s \o t \in Seq(S) /\ Len(s \o t) = Len(s) + Len(t) /\ (s \o t)[1] = s[1]
         /\ s \o t # <<>>
         /\ Len(s) = 1 /\ t # <<>> => (s \o t)[2] = t[1]
         /\ Len(s) = 2 => (s \o t)[2] = s[2]
<1>1. Len(s) \in Nat /\ Len(t) \in Nat /\ Len(s) > 0 /\ (t # <<>> => Len(t) > 0)
  BY EmptySeq
<1>. DEFINE u == s \o t
<1>2. /\ u \in Seq(S) /\ Len(u) = Len(s) + Len(t)
      /\ \A i \in 1..Len(s) : u[i] = s[i]
      /\ \A i \in 1..Len(t) : u[Len(s) + i] = t[i]
  BY Joined
<1>. HIDE DEF u
<1>3. u[1] = s[1] /\ Len(u) > 0
  BY <1>1, <1>2
<1>4. u # <<>>
  BY <1>2, <1>3, EmptySeq
<1>5. Len(s) = 1 /\ t # <<>> => u[2] = t[1]
  BY <1>1, <1>2
<1>6. Len(s) = 2 => u[2] = s[2]
  BY <1>1, <1>2
<1>. QED
  BY <1>2, <1>3, <1>4, <1>5, <1>6 DEF u

\* Lengths.
LEMMA Counts == \A l \in Nat : l > 0 => 1 + l > 1 /\ 2 + l > 1 /\ (1 + l = 3 => l = 2)
  OBVIOUS

NoName == ""

\* The names of a manifest of an entry, said by their first part: those of its
\* run, its entry, or a name that goes by a place, a kind or a stage.
LEMMA KeysAre ==
  ASSUME NEW a \in BuildScenarios, NEW k \in Charted(a),
         NEW m, m.path = Home(a, k), m.kind # NoName,
         \A n \in NamesOf(m.name) : n \in Seq(Part) /\ n # <<>> /\ (Len(n) = 2 => n[1] # NoName),
         NEW x \in NeedKeys(m)
  PROVE  \/ x \in NamesOf(m.name) \union {<<k>>}
         \/ x[1] \in Above \union {m.kind}
         \/ m.stage # <<>> /\ x[1] = m.stage[1]
         \/ x[1] = k /\ Len(x) > 1 /\ (Len(x) = 3 => x[2] # NoName)
<1>. DEFINE S == Part \union {m.kind}
            p == Home(a, k)
            chart == <<k>>
            kind == <<m.kind>>
            top == TopParts(p)
            both == chart \o kind
            pathKind == p \o kind
<1>1. /\ p \in Seq(STRING) /\ Len(p) \in Nat /\ Len(p) > 2 /\ p[Len(p)] = k
      /\ \A i \in 1..(Len(p) - 1) : p[i] \in Above
  BY PlaceIs
<1>2. Name(p) = k /\ k \in STRING
  BY HomeIs
<1>3. \/ x \in {chart, p}
      \/ \E n \in NamesOf(m.name) :
           x \in {p \o kind \o n, p \o n, chart \o kind \o n, chart \o n, kind \o n, n}
      \/ top # <<>> /\ x \in {<<top[1]>>, top}
      \/ m.stage # <<>> /\ x = m.stage
  <2>1. m.path = p /\ <<Name(m.path)>> = chart
    BY <1>2
  <2>. HIDE DEF chart, kind, top, p
  <2>2. NeedKeys(m) =
          {chart, p}
            \union (UNION {{p \o kind \o n, p \o n, chart \o kind \o n,
                            chart \o n, kind \o n, n} : n \in NamesOf(m.name)})
            \union (IF top = <<>> THEN {} ELSE {<<top[1]>>, top})
            \union (IF m.stage = <<>> THEN {} ELSE {m.stage})
    BY <2>1 DEF NeedKeys, NamesOf, kind, top
  <2>. QED
    BY <2>2
<1>4. p[1] \in Above /\ p \in Seq(S) /\ p # <<>>
  <2>1. 1 \in 1..(Len(p) - 1)
    BY <1>1
  <2>2. p # <<>>
    BY <1>1
  <2>3. STRING \subseteq S
    BY DEF Part
  <2>4. p \in Seq(S)
    BY <1>1, <2>3, Wider
  <2>. QED
    BY <1>1, <2>1, <2>2, <2>4
<1>5. /\ chart \in Seq(S) /\ chart[1] = k /\ Len(chart) = 1 /\ chart # <<>>
      /\ kind \in Seq(S) /\ kind[1] = m.kind /\ kind # <<>>
      /\ both \in Seq(S) /\ both # <<>> /\ both[1] = k /\ both[2] = m.kind /\ Len(both) = 2
  <2>1. k \in S /\ m.kind \in S
    BY <1>2 DEF Part
  <2>. HIDE DEF S
  <2>2. both = <<k, m.kind>>
    BY <2>1, Paired
  <2>. HIDE DEF both
  <2>. QED
    BY <2>1, <2>2
<1>6. CASE x \in {chart, p}
  BY <1>4, <1>6
<1>7. CASE top # <<>> /\ x \in {<<top[1]>>, top}
  <2>1. PICK l \in 1..(Len(p) - 1) : top = SubSeq(p, l + 1, Len(p))
    BY <1>1, <1>7, TopIs
  <2>2. top \in Seq(STRING) /\ Len(top) = Len(p) - l /\ top[1] = p[l + 1]
    BY <1>1, <2>1
  <2>3. CASE l + 1 = Len(p)
    <3>1. Len(top) = 1 /\ top[1] = k
      BY <1>1, <2>2, <2>3
    <3>2. chart \in Seq(STRING) /\ Len(chart) = 1 /\ chart[1] = k
      BY <1>2
    <3>. HIDE DEF top, chart
    <3>3. top = chart
      BY <2>2, <3>1, <3>2, SeqEqual
    <3>. QED
      BY <1>7, <3>1, <3>3 DEF chart
  <2>4. CASE l + 1 # Len(p)
    <3>1. l + 1 \in 1..(Len(p) - 1)
      BY <1>1, <2>4
    <3>2. top[1] \in Above
      BY <1>1, <2>2, <3>1
    <3>3. x[1] = top[1]
      <4>. HIDE DEF top
      <4>. QED
        BY <1>7
    <3>. QED
      BY <3>2, <3>3
  <2>. QED
    BY <2>3, <2>4
<1>8. ASSUME NEW n \in NamesOf(m.name),
             x \in {p \o kind \o n, p \o n, chart \o kind \o n, chart \o n, kind \o n, n}
      PROVE  \/ x \in NamesOf(m.name)
             \/ x[1] \in Above \union {m.kind}
             \/ x[1] = k /\ Len(x) > 1 /\ (Len(x) = 3 => x[2] # NoName)
  <2>1. n \in Seq(S) /\ n # <<>> /\ (Len(n) = 2 => n[1] # NoName) /\ Len(n) \in Nat /\ Len(n) > 0
    <3>1. n \in Seq(Part) /\ n # <<>> /\ (Len(n) = 2 => n[1] # NoName)
      OBVIOUS
    <3>2. n \in Seq(S)
      BY <3>1, Wider
    <3>3. Len(n) \in Nat /\ Len(n) > 0
      BY <3>1
    <3>. QED
      BY <3>1, <3>2, <3>3
  <2>. HIDE DEF S, p, chart, kind, both, pathKind
  <2>2. pathKind \in Seq(S) /\ pathKind # <<>> /\ pathKind[1] = p[1]
    BY <1>4, <1>5, OneThenOther DEF pathKind
  <2>3. CASE x = pathKind \o n
    <3>1. x[1] = p[1]
      BY <2>1, <2>2, <2>3, OneThenOther
    <3>. QED
      BY <1>4, <3>1
  <2>4. CASE x = p \o n
    <3>1. x[1] = p[1]
      BY <1>4, <2>1, <2>4, OneThenOther
    <3>. QED
      BY <1>4, <3>1
  <2>5. CASE x = both \o n
    <3>0. both \in Seq(S) /\ both # <<>> /\ n \in Seq(S) /\ Len(both) = 2
      BY <1>5, <2>1
    <3>1. (both \o n)[1] = both[1] /\ Len(both \o n) = 2 + Len(n)
      <4>1. (both \o n)[1] = both[1]
        BY <3>0, OneThenOther
      <4>2. Len(both \o n) = Len(both) + Len(n)
        BY <3>0, ConcatProperties
      <4>. QED
        BY <3>0, <4>1, <4>2
    <3>2. (both \o n)[2] = both[2]
      BY <3>0, OneThenOther
    <3>3. x[1] = k /\ x[2] = m.kind
      BY <1>5, <2>5, <3>1, <3>2
    <3>4. Len(x) > 1
      BY <2>1, <2>5, <3>1, Counts
    <3>. QED
      BY <3>3, <3>4
  <2>6. CASE x = chart \o n
    <3>1. x[1] = k /\ x[2] = n[1] /\ Len(x) = 1 + Len(n)
      BY <1>5, <2>1, <2>6, OneThenOther
    <3>2. Len(x) > 1 /\ (Len(x) = 3 => Len(n) = 2)
      BY <2>1, <3>1, Counts
    <3>. QED
      BY <2>1, <3>1, <3>2
  <2>7. CASE x = kind \o n
    <3>1. x[1] = m.kind
      BY <1>5, <2>1, <2>7, OneThenOther
    <3>. QED
      BY <3>1
  <2>. QED
    BY <1>8, <2>3, <2>4, <2>5, <2>6, <2>7 DEF pathKind, both
<1>. HIDE DEF S, p, chart, kind, top, both, pathKind
<1>. QED
  BY <1>3, <1>6, <1>7, <1>8

-----------------------------------------------------------------------------
(* What is built of an entry, by what it is made of.                        *)

Otherwise(needs, e) == IF needs = {} THEN e.needs ELSE needs

OfItsKinds(k, d) ==
  /\ d.kind \in KindsFor(asked, k) /\ d.name = <<k>> /\ d.stage = <<>>
  /\ d.needs = Entry(k).needs

OfOwnRun(k, d, r) ==
  /\ r \in OwnOf(RunsAsked(k))
  /\ d.kind = "Job" /\ d.name = <<r>> /\ d.stage = RunsAsked(k)[r].stage
  /\ d.needs = Otherwise(RunsAsked(k)[r].needs, Entry(k))

OfUsedRun(k, d, r, b) ==
  /\ r \in UsingOf(RunsAsked(k)) /\ b \in DOMAIN RunsOf(RunsAsked(k)[r].use)
  /\ d.kind = "Job" /\ d.name = <<r, b>>
  /\ d.stage = SubRun(r, RunsAsked(k)[r], b).stage
  /\ d.needs = Otherwise(SubRun(r, RunsAsked(k)[r], b).needs, Entry(k))

IsShaped(k, d) ==
  /\ d.path = Home(asked, k)
  /\ \/ OfItsKinds(k, d)
     \/ \E r \in DOMAIN RunsAsked(k) :
          \/ OfOwnRun(k, d, r)
          \/ \E b \in DOMAIN RunsOf(RunsAsked(k)[r].use) : OfUsedRun(k, d, r, b)

\* What is built of an entry is of one of its kinds or one of its runs.
LEMMA ShapesAre ==
  ASSUME PlainJobs, asked \in BuildScenarios, NEW k \in Charted(asked),
         NEW d \in OfEntry(asked, k)
  PROVE  IsShaped(k, d)
<1>. DEFINE runs == RunsAsked(k)
            e == Entry(k)
<1>1. runs = RunsFor(asked, k) /\ e = EntryOf(asked, k)
  BY DEF RunsAsked, RunsFor, Entry
<1>2. CASE d \in {OfKind(asked, k, kind) : kind \in KindsFor(asked, k)}
  <2>1. PICK kind \in KindsFor(asked, k) : d = OfKind(asked, k, kind)
    BY <1>2
  <2>2. /\ d.path = Home(asked, k) /\ d.kind = kind /\ d.name = <<k>> /\ d.stage = <<>>
        /\ d.needs = e.needs
    BY <1>1, <2>1 DEF OfKind, Made, Fields
  <2>. QED
    BY <2>2 DEF IsShaped, OfItsKinds
<1>3. CASE d \in {OfRun(asked, k, c) : c \in Compile(runs)}
  <2>1. PICK c \in Compile(runs) : d = OfRun(asked, k, c)
    BY <1>3
  <2>2. /\ d.path = Home(asked, k) /\ d.kind = "Job" /\ d.name = c.name /\ d.stage = c.stage
        /\ d.needs = Otherwise(c.needs, e)
    BY <1>1, <2>1 DEF OfRun, Made, Fields, Otherwise
  <2>3. AreRuns(runs)
    BY <1>1, HomeIs
  <2>4. \/ \E r \in OwnOf(runs) : c = OwnRun(r, runs[r])
        \/ \E r \in UsingOf(runs) : \E b \in DOMAIN RunsOf(runs[r].use) : c = SubRun(r, runs[r], b)
    BY <2>1, <2>3, CompileIsFlat
  <2>5. CASE \E r \in OwnOf(runs) : c = OwnRun(r, runs[r])
    <3>1. PICK r \in OwnOf(runs) : c = OwnRun(r, runs[r])
      BY <2>5
    <3>2. c.name = <<r>> /\ c.stage = runs[r].stage /\ c.needs = runs[r].needs
      BY <3>1 DEF OwnRun
    <3>3. OfOwnRun(k, d, r) /\ r \in DOMAIN runs
      BY <2>2, <3>2 DEF OfOwnRun, OwnOf
    <3>. QED
      BY <2>2, <3>3 DEF IsShaped
  <2>6. CASE \E r \in UsingOf(runs) : \E b \in DOMAIN RunsOf(runs[r].use) : c = SubRun(r, runs[r], b)
    <3>1. PICK r \in UsingOf(runs) : \E b \in DOMAIN RunsOf(runs[r].use) : c = SubRun(r, runs[r], b)
      BY <2>6
    <3>2. PICK b \in DOMAIN RunsOf(runs[r].use) : c = SubRun(r, runs[r], b)
      BY <3>1
    <3>3. c.name = <<r, b>>
      BY <3>2 DEF SubRun
    <3>4. OfUsedRun(k, d, r, b) /\ r \in DOMAIN runs
      BY <2>2, <3>2, <3>3 DEF OfUsedRun, UsingOf
    <3>. QED
      BY <2>2, <3>4 DEF IsShaped
  <2>. QED
    BY <2>4, <2>5, <2>6
<1>. QED
  BY <1>1, <1>2, <1>3 DEF OfEntry

\* Where it comes from, a manifest keeps all but its wave.
Alike(d, m) ==
  d.path = m.path /\ d.kind = m.kind /\ d.name = m.name /\ d.needs = m.needs /\ d.stage = m.stage

\* What keeps all but its wave is made of the same entry or run.
LEMMA AlikeShaped ==
  ASSUME NEW k, NEW m, NEW d, Alike(d, m), IsShaped(k, m)
  PROVE  IsShaped(k, d)
BY DEF Alike, IsShaped, OfItsKinds, OfOwnRun, OfUsedRun

\* It is needed by the same names and can be waited for as well.
LEMMA AlikeKeys ==
  ASSUME NEW m, NEW d, Alike(d, m)
  PROVE  NeedKeys(d) = NeedKeys(m) /\ (Waitable(d) <=> Waitable(m))
BY DEF Alike, NeedKeys, Waitable

\* What is left is manifests, which keep all but their wave when moved.
LEMMA LeftAre ==
  ASSUME NEW a \in BuildScenarios
  PROVE  \A m \in Left(a) : IsManifest(m) /\ Alike(m, m) /\ \A l : Alike(Moved(m, l), m)
<1>1. \A m \in Labelled(a) : IsManifest(m)
  <2>1. ASSUME NEW m \in OfBare(a) PROVE IsManifest(m)
    <3>1. \A p, kind : IsManifest(Manifest(p, kind))
      BY DEF Manifest, IsManifest
    <3>. QED
      BY <3>1 DEF OfBare
  <2>2. ASSUME NEW k, NEW m \in OfEntry(a, k) PROVE IsManifest(m)
    BY DEF OfEntry, OfKind, OfRun, Made, Fields, IsManifest
  <2>. QED
    BY <2>1, <2>2, LabelledAre
<1>2. \A m \in Left(a) : IsManifest(m)
  BY <1>1 DEF Left, OnChanged
<1>. QED
  BY <1>2 DEF Moved, Alike, IsManifest

\* What is built before the last patches is what is built after, but Config.
LEMMA KeptAre ==
  ASSUME NEW a \in BuildScenarios
  PROVE  /\ \A d \in Remains(a) : d.kind # "Config" /\ \E m \in Left(a) : Alike(d, m)
         /\ \A m \in Left(a) : m.kind # "Config" => \E d \in Remains(a) : Alike(d, m)
<1>1. \A m \in Left(a) : \A l : Alike(Moved(m, l), m) /\ Alike(m, m)
  BY LeftAre
<1>2. CASE a.spread = "waves"
  <2>. DEFINE L == Level(Left(a))
  <2>1. Spread(a) = {Moved(m, L[m]) : m \in Left(a)}
    BY <1>2 DEF Spread, SyncWaves, Moved
  <2>. HIDE DEF L
  <2>. QED
    BY <1>1, <2>1 DEF Remains, WithoutKapp, Alike
<1>3. CASE a.spread # "waves"
  BY <1>1, <1>3 DEF Remains, Spread, WithoutKapp
<1>. QED
  BY <1>2, <1>3

\* What is built at the place of an entry is built of it.
LEMMA OfIts ==
  ASSUME PlainJobs, asked \in BuildScenarios, NEW k \in Charted(asked),
         NEW d \in Left(asked) \union Remains(asked), d.path = Home(asked, k)
  PROVE  IsShaped(k, d)
<1>1. PICK m \in Left(asked) : Alike(d, m)
  BY KeptAre DEF Alike
<1>2. m \in Labelled(asked)
  BY DEF Left, OnChanged
<1>3. m.path = Home(asked, k)
  BY <1>1 DEF Alike
<1>4. m \notin OfBare(asked)
  <2>1. \A p \in Bare(asked) : \A kind : Manifest(p, kind).path = p /\ p # Home(asked, k)
    BY DEF Manifest, Bare
  <2>. QED
    BY <1>3, <2>1 DEF OfBare
<1>5. PICK l \in SoughtOf(asked) : m \in OfEntry(asked, l)
  BY <1>2, <1>4, LabelledAre
<1>6. l \in Charted(asked) /\ IsShaped(l, m)
  BY <1>5, ShapesAre DEF SoughtOf
<1>7. Home(asked, l) = Home(asked, k)
  BY <1>3, <1>6 DEF IsShaped
<1>8. l = k
  BY <1>6, <1>7, HomeIs
<1>. QED
  BY <1>1, <1>6, <1>8, AlikeShaped

-----------------------------------------------------------------------------
(* What goes by the name that a need gives.                                 *)

\* The names that do not start with that of a run or an entry.
LEMMA ElsewhereAre ==
  ASSUME asked \in BuildScenarios, NEW k \in Charted(asked)
  PROVE  /\ Above \subseteq Elsewhere
         /\ "Job" \in Elsewhere
         /\ \A kind \in KindsFor(asked, k) : kind \in Elsewhere /\ kind # "" /\ kind # "Job"
         /\ \A r \in DOMAIN RunsAsked(k) :
              RunsAsked(k)[r].stage # <<>> => RunsAsked(k)[r].stage[1] \in Elsewhere
         /\ \A job \in PluginJob : \A b \in DOMAIN RunsIn(job) :
              RunsIn(job)[b].stage # <<>> => RunsIn(job)[b].stage[1] \in Elsewhere
<1>1. k \in Keys
  BY HomeIs DEF Keys
<1>2. Above \subseteq Elsewhere /\ "Job" \in Elsewhere
  BY DEF Above, Elsewhere
<1>3. \A kind \in KindsFor(asked, k) : kind \in Elsewhere /\ kind # "" /\ kind # "Job"
  BY KindsType DEF KindsFor, KindsOf, Elsewhere
<1>4. \A stage \in Stages : stage # <<>> => stage[1] \in Elsewhere
  BY DEF Elsewhere
<1>5. \A r \in DOMAIN RunsAsked(k) : RunsAsked(k)[r].stage \in Stages
  BY <1>1 DEF Stages
<1>6. \A job \in PluginJob : \A b \in DOMAIN RunsIn(job) : RunsIn(job)[b].stage \in Stages
  BY DEF Stages
<1>. QED
  BY <1>2, <1>3, <1>4, <1>5, <1>6

\* The runs of an entry have names.
LEMMA RunsHaveNames ==
  ASSUME asked \in BuildScenarios, NEW k \in Charted(asked)
  PROVE  /\ k \in STRING /\ k # "" /\ AreRuns(RunsAsked(k)) /\ IsEntry(Entry(k))
         /\ DOMAIN RunsAsked(k) \subseteq STRING
         /\ \A r \in DOMAIN RunsAsked(k) :
              /\ r # ""
              /\ RunsAsked(k)[r].needs \subseteq Seq(STRING) /\ RunsAsked(k)[r].stage \in Seq(STRING)
         /\ \A r \in UsingOf(RunsAsked(k)) :
              /\ JobFor(RunsAsked(k)[r].use) \in PluginJob
              /\ AreRuns(RunsOf(RunsAsked(k)[r].use))
              /\ \A b \in DOMAIN RunsOf(RunsAsked(k)[r].use) : b \in STRING /\ b # ""
<1>1. /\ k \in STRING /\ k \in KeysOf(asked) /\ IsEntry(Entry(k)) /\ AreRuns(RunsAsked(k))
  BY HomeIs DEF Entry, RunsAsked, RunsFor
<1>2. k # "" /\ \A r \in DOMAIN RunsAsked(k) : r # ""
  BY <1>1, NamesType DEF RunsAsked, Entry
<1>3. /\ DOMAIN RunsAsked(k) \subseteq STRING
      /\ \A r \in DOMAIN RunsAsked(k) :
           RunsAsked(k)[r].needs \subseteq Seq(STRING) /\ RunsAsked(k)[r].stage \in Seq(STRING)
  BY <1>1 DEF AreRuns
<1>4. ASSUME NEW r \in UsingOf(RunsAsked(k))
      PROVE  /\ JobFor(RunsAsked(k)[r].use) \in PluginJob
             /\ AreRuns(RunsOf(RunsAsked(k)[r].use))
             /\ \A b \in DOMAIN RunsOf(RunsAsked(k)[r].use) : b \in STRING /\ b # ""
  <2>. DEFINE job == JobFor(RunsAsked(k)[r].use)
  <2>1. job \in PluginJob
    BY JobsAreThere DEF UsingOf
  <2>2. RunsOf(RunsAsked(k)[r].use) = RunsIn(job)
    BY DEF RunsOf
  <2>. HIDE DEF job
  <2>3. AreRuns(RunsIn(job)) /\ \A b \in DOMAIN RunsIn(job) : b # ""
    BY <2>1, UsesType, NamesType
  <2>4. DOMAIN RunsIn(job) \subseteq STRING
    BY <2>3 DEF AreRuns
  <2>. QED
    BY <2>1, <2>2, <2>3, <2>4 DEF job
<1>. QED
  BY <1>1, <1>2, <1>3, <1>4

\* The names of run b of the job that run r uses.
UsedNames(r, b) == {<<r>>, <<r, b>>, <<r, NoName, b>>}

\* The names of each shape.
LEMMA ShapeNames ==
  ASSUME asked \in BuildScenarios, NEW k \in Charted(asked), NEW d
  PROVE  /\ OfItsKinds(k, d) => NamesOf(d.name) = {<<k>>}
         /\ \A r \in DOMAIN RunsAsked(k) :
              /\ OfOwnRun(k, d, r) => NamesOf(d.name) = {<<r>>}
              /\ \A b \in DOMAIN RunsOf(RunsAsked(k)[r].use) :
                   OfUsedRun(k, d, r, b) => NamesOf(d.name) = UsedNames(r, b)
<1>1. k \in STRING /\ k # ""
  BY RunsHaveNames
<1>2. OfItsKinds(k, d) => NamesOf(d.name) = {<<k>>}
  BY <1>1, NamesAre DEF OfItsKinds
<1>3. ASSUME NEW r \in DOMAIN RunsAsked(k)
      PROVE  r \in STRING /\ r # ""
  BY RunsHaveNames
<1>4. ASSUME NEW r \in DOMAIN RunsAsked(k), OfOwnRun(k, d, r)
      PROVE  NamesOf(d.name) = {<<r>>}
  <2>1. d.name = <<r>>
    BY <1>4 DEF OfOwnRun
  <2>. QED
    BY <1>3, <2>1, NamesAre
<1>5. ASSUME NEW r \in DOMAIN RunsAsked(k), NEW b \in DOMAIN RunsOf(RunsAsked(k)[r].use),
             OfUsedRun(k, d, r, b)
      PROVE  NamesOf(d.name) = UsedNames(r, b)
  <2>1. d.name = <<r, b>> /\ r \in UsingOf(RunsAsked(k))
    BY <1>5 DEF OfUsedRun
  <2>2. b \in STRING /\ b # ""
    BY <2>1, RunsHaveNames
  <2>. QED
    BY <1>3, <2>1, <2>2, NamesAre DEF UsedNames, NoName
<1>. QED
  BY <1>2, <1>4, <1>5

\* Names of up to three parts.
LEMMA ShortNames ==
  ASSUME NEW r \in Part, NEW b \in Part, r # NoName
  PROVE  /\ <<r>> \in Seq(Part) /\ <<r>> # <<>> /\ Len(<<r>>) = 1
         /\ <<r, b>> \in Seq(Part) /\ <<r, b>> # <<>> /\ <<r, b>>[1] # NoName
         /\ \A c \in Part : <<r, c, b>> \in Seq(Part) /\ <<r, c, b>> # <<>> /\ Len(<<r, c, b>>) = 3
OBVIOUS

\* The names of what is made of an entry have parts that are not empty.
LEMMA ShapeNamesAreNames ==
  ASSUME asked \in BuildScenarios, NEW k \in Charted(asked), NEW d, IsShaped(k, d)
  PROVE  \A n \in NamesOf(d.name) : n \in Seq(Part) /\ n # <<>> /\ (Len(n) = 2 => n[1] # NoName)
<1>1. k \in Part /\ k # NoName
  BY RunsHaveNames DEF Part, NoName
<1>2. \A r \in DOMAIN RunsAsked(k) : r \in Part /\ r # NoName
  BY RunsHaveNames DEF Part, NoName
<1>3. \A r \in UsingOf(RunsAsked(k)) : \A b \in DOMAIN RunsOf(RunsAsked(k)[r].use) : b \in Part
  BY RunsHaveNames DEF Part
<1>4. "" \in Part
  BY DEF Part
<1>5. ASSUME NEW n, NEW r \in Part, r # NoName, n = <<r>>
      PROVE  n \in Seq(Part) /\ n # <<>> /\ (Len(n) = 2 => n[1] # NoName)
  <2>1. n \in Seq(Part) /\ n # <<>> /\ Len(n) = 1
    BY <1>5, ShortNames
  <2>. QED
    BY <2>1
<1>6. ASSUME NEW n, NEW r \in Part, NEW b \in Part, r # NoName, n \in {<<r, b>>, <<r, "", b>>}
      PROVE  n \in Seq(Part) /\ n # <<>> /\ (Len(n) = 2 => n[1] # NoName)
  <2>1. CASE n = <<r, b>>
    BY <1>6, <2>1, ShortNames
  <2>2. CASE n = <<r, "", b>>
    <3>1. n \in Seq(Part) /\ n # <<>> /\ Len(n) = 3
      BY <1>4, <1>6, <2>2, ShortNames
    <3>. QED
      BY <3>1
  <2>. QED
    BY <1>6, <2>1, <2>2
<1>7. CASE OfItsKinds(k, d)
  <2>1. NamesOf(d.name) = {<<k>>}
    BY <1>7, ShapeNames
  <2>. QED
    BY <1>1, <1>5, <2>1
<1>8. ASSUME NEW r \in DOMAIN RunsAsked(k), OfOwnRun(k, d, r)
      PROVE  \A n \in NamesOf(d.name) :
               n \in Seq(Part) /\ n # <<>> /\ (Len(n) = 2 => n[1] # NoName)
  <2>1. NamesOf(d.name) = {<<r>>}
    BY <1>8, ShapeNames
  <2>. QED
    BY <1>2, <1>5, <2>1
<1>9. ASSUME NEW r \in DOMAIN RunsAsked(k), NEW b \in DOMAIN RunsOf(RunsAsked(k)[r].use),
             OfUsedRun(k, d, r, b)
      PROVE  \A n \in NamesOf(d.name) :
               n \in Seq(Part) /\ n # <<>> /\ (Len(n) = 2 => n[1] # NoName)
  <2>1. NamesOf(d.name) = UsedNames(r, b)
    BY <1>9, ShapeNames
  <2>2. b \in Part
    BY <1>3, <1>9 DEF OfUsedRun
  <2>. QED
    BY <1>2, <1>5, <1>6, <2>1, <2>2 DEF UsedNames, NoName
<1>. QED
  BY <1>7, <1>8, <1>9 DEF IsShaped

IsJob(d) == d.kind = "Job"

\* A manifest can be needed by its names and that of its chart.
LEMMA NamesAreKeys ==
  ASSUME NEW d
  PROVE  NamesOf(d.name) \subseteq NeedKeys(d) /\ <<Name(d.path)>> \in NeedKeys(d)
<1>1. \A n \in NamesOf(d.name) : n \in NeedKeys(d)
  <2>. DEFINE chart == <<Name(d.path)>>
              kind == <<d.kind>>
              with(n) == {d.path \o kind \o n, d.path \o n, chart \o kind \o n,
                          chart \o n, kind \o n, n}
  <2>1. (UNION {with(n) : n \in NamesOf(d.name)}) \subseteq NeedKeys(d)
    BY DEF NeedKeys, NamesOf
  <2>2. \A n : n \in with(n)
    OBVIOUS
  <2>. HIDE DEF with
  <2>. QED
    BY <2>1, <2>2
<1>2. <<Name(d.path)>> \in NeedKeys(d)
  BY DEF NeedKeys
<1>. QED
  BY <1>1, <1>2

\* What is built of an entry can be needed by its own names, or by one that
\* starts with a place, a kind, a stage or the entry.
LEMMA ShapeKeys ==
  ASSUME asked \in BuildScenarios, NEW k \in Charted(asked), NEW d, IsShaped(k, d),
         NEW x \in NeedKeys(d)
  PROVE  \/ x \in NamesOf(d.name) \union {<<k>>}
         \/ x[1] \in Elsewhere
         \/ x[1] = k /\ Len(x) > 1 /\ (Len(x) = 3 => x[2] # NoName)
<1>1. d.path = Home(asked, k)
  BY DEF IsShaped
<1>2. d.kind # NoName /\ d.kind \in Elsewhere
  <2>1. CASE OfItsKinds(k, d)
    BY <2>1, ElsewhereAre DEF OfItsKinds, NoName
  <2>2. CASE d.kind = "Job"
    BY <2>2, ElsewhereAre DEF NoName
  <2>. QED
    BY <2>1, <2>2 DEF IsShaped, OfOwnRun, OfUsedRun
<1>3. d.stage # <<>> => d.stage[1] \in Elsewhere
  <2>1. CASE OfItsKinds(k, d)
    BY <2>1 DEF OfItsKinds
  <2>2. ASSUME NEW r \in DOMAIN RunsAsked(k), OfOwnRun(k, d, r), d.stage # <<>>
        PROVE  d.stage[1] \in Elsewhere
    BY <2>2, ElsewhereAre DEF OfOwnRun
  <2>3. ASSUME NEW r \in DOMAIN RunsAsked(k), NEW b \in DOMAIN RunsOf(RunsAsked(k)[r].use),
               OfUsedRun(k, d, r, b), d.stage # <<>>
        PROVE  d.stage[1] \in Elsewhere
    <3>. DEFINE job == JobFor(RunsAsked(k)[r].use)
    <3>1. job \in PluginJob /\ b \in DOMAIN RunsIn(job)
      BY <2>3, RunsHaveNames DEF OfUsedRun, RunsOf
    <3>2. d.stage \in {RunsAsked(k)[r].stage, RunsIn(job)[b].stage}
      BY <2>3 DEF OfUsedRun, SubRun, RunsOf
    <3>. HIDE DEF job
    <3>. QED
      BY <2>3, <3>1, <3>2, ElsewhereAre
  <2>. QED
    BY <2>1, <2>2, <2>3 DEF IsShaped
<1>4. \A n \in NamesOf(d.name) : n \in Seq(Part) /\ n # <<>> /\ (Len(n) = 2 => n[1] # NoName)
  BY ShapeNamesAreNames
<1>5. Above \subseteq Elsewhere
  BY ElsewhereAre
<1>6. \/ x \in NamesOf(d.name) \union {<<k>>}
      \/ x[1] \in Above \union {d.kind}
      \/ d.stage # <<>> /\ x[1] = d.stage[1]
      \/ x[1] = k /\ Len(x) > 1 /\ (Len(x) = 3 => x[2] # NoName)
  BY <1>1, <1>2, <1>4, KeysAre
<1>. QED
  BY <1>2, <1>3, <1>5, <1>6

\* Sequences of so many parts.
LEMMA ByParts ==
  ASSUME NEW S, NEW n \in Seq(S)
  PROVE  /\ Len(n) = 1 => n[1] \in S /\ n = <<n[1]>>
         /\ Len(n) = 3 => n[1] \in S /\ n[2] \in S /\ n[3] \in S /\ n = <<n[1], n[2], n[3]>>
<1>1. ASSUME Len(n) = 1 PROVE n[1] \in S /\ n = <<n[1]>>
  <2>1. n[1] \in S
    BY <1>1
  <2>. QED
    BY <1>1, <2>1
<1>2. ASSUME Len(n) = 3
      PROVE  n[1] \in S /\ n[2] \in S /\ n[3] \in S /\ n = <<n[1], n[2], n[3]>>
  <2>1. \A i \in 1..Len(n) : n[i] \in S
    OBVIOUS
  <2>2. 1 \in 1..Len(n) /\ 2 \in 1..Len(n) /\ 3 \in 1..Len(n)
    BY <1>2, UpToThree
  <2>3. n[1] \in S /\ n[2] \in S /\ n[3] \in S
    BY <2>1, <2>2
  <2>4. n = <<n[1], n[2], n[3]>>
    BY <1>2
  <2>. QED
    BY <2>3, <2>4
<1>. QED
  BY <1>1, <1>2

\* A short name is not a long one.
LEMMA UsedNamesAre ==
  ASSUME NEW r, NEW b, NEW q, NEW c
  PROVE  /\ <<q>> \in UsedNames(r, b) <=> q = r
         /\ <<q, NoName, c>> \in UsedNames(r, b) <=> q = r /\ c = b
         /\ <<q, NoName, c>> # <<r>>
<1>. DEFINE s == <<q>>
            t == <<q, NoName, c>>
            x == <<r>>
            y == <<r, b>>
            z == <<r, NoName, b>>
<1>1. s # y /\ s # z /\ (s = x <=> q = r)
  OBVIOUS
<1>2. t # x /\ t # y /\ (t = z <=> q = r /\ c = b)
  OBVIOUS
<1>. HIDE DEF s, t, x, y, z
<1>3. UsedNames(r, b) = {x, y, z}
  BY DEF UsedNames, x, y, z
<1>4. /\ s \in UsedNames(r, b) <=> q = r
      /\ t \in UsedNames(r, b) <=> q = r /\ c = b
      /\ t # x
  BY <1>1, <1>2, <1>3
<1>. QED
  BY <1>4 DEF s, t, x

\* "q" is a name of run "r.b" only when q is r.
LEMMA UsedFirst ==
  ASSUME NEW r, NEW b, NEW q
  PROVE  <<q>> \in UsedNames(r, b) <=> q = r
BY UsedNamesAre

\* So is "q..c" only when c is b too.
LEMMA UsedThird ==
  ASSUME NEW r, NEW b, NEW q, NEW c
  PROVE  <<q, NoName, c>> \in UsedNames(r, b) <=> q = r /\ c = b
BY UsedNamesAre

\* "q..c" is not "r".
LEMMA NeverShort ==
  ASSUME NEW r, NEW q, NEW c
  PROVE  <<q, NoName, c>> # <<r>>
BY UsedNamesAre

\* The names of what is made of a run start with its own.
LEMMA UsedNamesStart ==
  ASSUME NEW r, NEW b, NEW n \in UsedNames(r, b)
  PROVE  n[1] = r
<1>1. <<r>>[1] = r /\ <<r, b>>[1] = r /\ <<r, NoName, b>>[1] = r
  OBVIOUS
<1>. QED
  BY <1>1 DEF UsedNames

\* A need of the entry itself reaches nothing that is built of it.
LEMMA NotCalled ==
  ASSUME asked \in BuildScenarios, NEW k \in Charted(asked), NEW d, IsShaped(k, d),
         NEW n, n[1] \notin {k} \union DOMAIN RunsAsked(k) \union Elsewhere
  PROVE  n \notin NeedKeys(d)
<1>. SUFFICES ASSUME n \in NeedKeys(d) PROVE FALSE
  OBVIOUS
<1>1. n \in NamesOf(d.name) \union {<<k>>}
  BY ShapeKeys
<1>2. <<k>>[1] = k
  OBVIOUS
<1>3. CASE OfItsKinds(k, d)
  BY <1>1, <1>2, <1>3, ShapeNames
<1>4. ASSUME NEW r \in DOMAIN RunsAsked(k), OfOwnRun(k, d, r) PROVE FALSE
  <2>1. NamesOf(d.name) = {<<r>>}
    BY <1>4, ShapeNames
  <2>2. <<r>>[1] = r
    OBVIOUS
  <2>. QED
    BY <1>1, <1>2, <2>1, <2>2
<1>5. ASSUME NEW r \in DOMAIN RunsAsked(k), NEW b \in DOMAIN RunsOf(RunsAsked(k)[r].use),
             OfUsedRun(k, d, r, b)
      PROVE  FALSE
  <2>1. NamesOf(d.name) = UsedNames(r, b)
    BY <1>5, ShapeNames
  <2>2. n[1] = r \/ n[1] = k
    BY <1>1, <1>2, <2>1, UsedNamesStart
  <2>. QED
    BY <2>2
<1>. QED
  BY <1>3, <1>4, <1>5 DEF IsShaped

\* What is built of an entry, by name.
LEMMA JobsAre ==
  ASSUME asked \in BuildScenarios, NEW k \in Charted(asked), NEW d, IsShaped(k, d), IsJob(d)
  PROVE  \E r \in DOMAIN RunsAsked(k) :
           /\ d.name[1] = r
           /\ \/ /\ OfOwnRun(k, d, r) /\ Len(d.name) = 1
                 /\ NamesOf(d.name) = {<<r>>}
              \/ \E b \in DOMAIN RunsOf(RunsAsked(k)[r].use) :
                   /\ OfUsedRun(k, d, r, b) /\ Len(d.name) = 2 /\ d.name[2] = b
                   /\ NamesOf(d.name) = UsedNames(r, b)
<1>1. ~OfItsKinds(k, d)
  BY ElsewhereAre DEF OfItsKinds, IsJob
<1>2. ASSUME NEW r \in DOMAIN RunsAsked(k), OfOwnRun(k, d, r)
      PROVE  d.name[1] = r /\ Len(d.name) = 1 /\ NamesOf(d.name) = {<<r>>}
  <2>1. NamesOf(d.name) = {<<r>>}
    BY <1>2, ShapeNames
  <2>2. d.name = <<r>>
    BY <1>2 DEF OfOwnRun
  <2>3. d.name[1] = r /\ Len(d.name) = 1
    BY <2>2
  <2>. QED
    BY <2>1, <2>3
<1>3. ASSUME NEW r \in DOMAIN RunsAsked(k), NEW b \in DOMAIN RunsOf(RunsAsked(k)[r].use),
             OfUsedRun(k, d, r, b)
      PROVE  d.name[1] = r /\ d.name[2] = b /\ Len(d.name) = 2 /\ NamesOf(d.name) = UsedNames(r, b)
  <2>1. NamesOf(d.name) = UsedNames(r, b)
    BY <1>3, ShapeNames
  <2>2. d.name = <<r, b>>
    BY <1>3 DEF OfUsedRun
  <2>3. d.name[1] = r /\ d.name[2] = b /\ Len(d.name) = 2
    BY <2>2
  <2>. QED
    BY <2>1, <2>3
<1>4. \/ \E r \in DOMAIN RunsAsked(k) : OfOwnRun(k, d, r)
      \/ \E r \in DOMAIN RunsAsked(k) : \E b \in DOMAIN RunsOf(RunsAsked(k)[r].use) :
           OfUsedRun(k, d, r, b)
  BY <1>1 DEF IsShaped
<1>5. CASE \E r \in DOMAIN RunsAsked(k) : OfOwnRun(k, d, r)
  BY <1>2, <1>5
<1>6. CASE \E r \in DOMAIN RunsAsked(k) : \E b \in DOMAIN RunsOf(RunsAsked(k)[r].use) :
             OfUsedRun(k, d, r, b)
  BY <1>3, <1>6
<1>. QED
  BY <1>4, <1>5, <1>6

\* A need of a run reaches the Jobs of the run it names.
LEMMA CalledBy ==
  ASSUME asked \in BuildScenarios, NEW k \in Charted(asked), NEW d, IsShaped(k, d),
         NEW n \in Seq(STRING), n[1] \notin {k} \union Elsewhere,
         Len(n) = 1 \/ (Len(n) = 3 /\ n[2] = NoName)
  PROVE  n \in NeedKeys(d) <=> IsJob(d) /\ d.name[1] = n[1] /\ Meant(d, n)
<1>1. /\ Len(n) = 1 => n = <<n[1]>>
      /\ Len(n) = 3 => n = <<n[1], NoName, n[3]>>
  BY ByParts
<1>2. n \in NeedKeys(d) <=> n \in NamesOf(d.name)
  <2>1. <<k>>[1] = k
    OBVIOUS
  <2>2. n \in NeedKeys(d) => n \in NamesOf(d.name)
    BY <2>1, ShapeKeys
  <2>3. n \in NamesOf(d.name) => n \in NeedKeys(d)
    BY NamesAreKeys
  <2>. QED
    BY <2>2, <2>3
<1>3. ASSUME n \in NamesOf(d.name) PROVE IsJob(d)
  <2>1. CASE OfItsKinds(k, d)
    <3>1. n = <<k>>
      BY <1>3, <2>1, ShapeNames
    <3>2. n[1] = k
      BY <3>1
    <3>. QED
      BY <3>2
  <2>. QED
    BY <2>1 DEF IsShaped, OfOwnRun, OfUsedRun, IsJob
<1>4. ASSUME IsJob(d)
      PROVE  n \in NamesOf(d.name) <=> d.name[1] = n[1] /\ Meant(d, n)
  <2>1. PICK r \in DOMAIN RunsAsked(k) :
           /\ d.name[1] = r
           /\ \/ Len(d.name) = 1 /\ NamesOf(d.name) = {<<r>>}
              \/ \E b : /\ Len(d.name) = 2 /\ d.name[2] = b
                        /\ NamesOf(d.name) = UsedNames(r, b)
    BY <1>4, JobsAre
  <2>2. CASE Len(d.name) = 1 /\ NamesOf(d.name) = {<<r>>}
    <3>1. CASE Len(n) = 1
      <4>1. n = <<n[1]>> /\ Meant(d, n)
        BY <1>1, <3>1 DEF Meant
      <4>2. <<n[1]>> = <<r>> <=> n[1] = r
        OBVIOUS
      <4>. QED
        BY <2>1, <2>2, <4>1, <4>2
    <3>2. CASE Len(n) = 3
      <4>1. n = <<n[1], NoName, n[3]>> /\ ~Meant(d, n)
        BY <1>1, <2>2, <3>2 DEF Meant
      <4>2. <<n[1], NoName, n[3]>> # <<r>>
        OBVIOUS
      <4>. QED
        BY <2>2, <4>1, <4>2
    <3>. QED
      BY <3>1, <3>2
  <2>3. ASSUME NEW b, Len(d.name) = 2, d.name[2] = b, NamesOf(d.name) = UsedNames(r, b)
        PROVE  n \in NamesOf(d.name) <=> d.name[1] = n[1] /\ Meant(d, n)
    <3>1. CASE Len(n) = 1
      <4>1. n = <<n[1]>> /\ Meant(d, n)
        BY <1>1, <3>1 DEF Meant
      <4>2. <<n[1]>> \in UsedNames(r, b) <=> n[1] = r
        BY UsedFirst
      <4>. QED
        BY <2>1, <2>3, <4>1, <4>2
    <3>2. CASE Len(n) = 3
      <4>. DEFINE q == n[1]
                  c == n[3]
      <4>1. n = <<q, NoName, c>> /\ (Meant(d, n) <=> c = b) /\ q = n[1]
        BY <1>1, <2>3, <3>2 DEF Meant
      <4>. HIDE DEF q, c
      <4>2. <<q, NoName, c>> \in UsedNames(r, b) <=> q = r /\ c = b
        BY UsedThird
      <4>. QED
        BY <2>1, <2>3, <4>1, <4>2
    <3>. QED
      BY <3>1, <3>2
  <2>. QED
    BY <2>1, <2>2, <2>3
<1>. QED
  BY <1>2, <1>3, <1>4

\* A need of a sibling, inside a job that run r uses, reaches that one only.
LEMMA LiftedTo ==
  ASSUME asked \in BuildScenarios, NEW k \in Charted(asked), NEW d, IsShaped(k, d),
         NEW r \in DOMAIN RunsAsked(k), r \notin Elsewhere, NEW s
  PROVE  <<r, NoName, s>> \in NeedKeys(d) <=>
           IsJob(d) /\ d.name[1] = r /\ Len(d.name) = 2 /\ d.name[2] = s
<1>. DEFINE x == <<r, NoName, s>>
<1>1. x[1] = r /\ Len(x) = 3 /\ x[2] = NoName
  OBVIOUS
<1>. HIDE DEF x
<1>2. ASSUME NEW q PROVE x # <<q>>
  BY NeverShort DEF x
<1>3. x \in NeedKeys(d) <=> x \in NamesOf(d.name)
  <2>1. x \in NeedKeys(d) => x \in NamesOf(d.name)
    BY <1>1, <1>2, ShapeKeys
  <2>2. x \in NamesOf(d.name) => x \in NeedKeys(d)
    BY NamesAreKeys
  <2>. QED
    BY <2>1, <2>2
<1>4. ASSUME x \in NamesOf(d.name) PROVE IsJob(d)
  <2>1. CASE OfItsKinds(k, d)
    <3>1. x = <<k>>
      BY <1>4, <2>1, ShapeNames
    <3>. QED
      BY <1>2, <3>1
  <2>. QED
    BY <2>1 DEF IsShaped, OfOwnRun, OfUsedRun, IsJob
<1>5. ASSUME IsJob(d)
      PROVE  x \in NamesOf(d.name) <=> d.name[1] = r /\ Len(d.name) = 2 /\ d.name[2] = s
  <2>1. PICK q \in DOMAIN RunsAsked(k) :
           /\ d.name[1] = q
           /\ \/ Len(d.name) = 1 /\ NamesOf(d.name) = {<<q>>}
              \/ \E b : /\ Len(d.name) = 2 /\ d.name[2] = b
                        /\ NamesOf(d.name) = UsedNames(q, b)
    BY <1>5, JobsAre
  <2>2. CASE Len(d.name) = 1 /\ NamesOf(d.name) = {<<q>>}
    <3>1. x \notin NamesOf(d.name)
      BY <1>2, <2>2
    <3>2. Len(d.name) # 2
      BY <2>2
    <3>. QED
      BY <3>1, <3>2
  <2>3. ASSUME NEW b, Len(d.name) = 2, d.name[2] = b, NamesOf(d.name) = UsedNames(q, b)
        PROVE  x \in NamesOf(d.name) <=> d.name[1] = r /\ Len(d.name) = 2 /\ d.name[2] = s
    <3>1. x \in UsedNames(q, b) <=> r = q /\ s = b
      BY UsedThird DEF x
    <3>. QED
      BY <2>1, <2>3, <3>1
  <2>. QED
    BY <2>1, <2>2, <2>3
<1>6. x \in NeedKeys(d) <=> IsJob(d) /\ d.name[1] = r /\ Len(d.name) = 2 /\ d.name[2] = s
  BY <1>3, <1>4, <1>5
<1>. QED
  BY <1>6 DEF x

\* A name after that of a run and a dot more.
LEMMA Dotted ==
  ASSUME NEW S, NEW r \in S, NEW e \in S, NEW s \in S
  PROVE  <<r, e>> \o <<s>> = <<r, e, s>>
<1>1. <<r, e>> \in Seq(S) /\ <<s>> \in Seq(S) /\ <<r, e, s>> \in Seq(S)
  OBVIOUS
<1>. DEFINE x == <<r, e>>
            t == <<s>>
            u == x \o t
            v == <<r, e, s>>
<1>2. /\ Len(x) = 2 /\ x[1] = r /\ x[2] = e /\ Len(t) = 1 /\ t[1] = s
      /\ Len(v) = 3 /\ v[1] = r /\ v[2] = e /\ v[3] = s
  OBVIOUS
<1>. HIDE DEF x, t, v
<1>3. /\ u \in Seq(S) /\ Len(u) = Len(x) + Len(t)
      /\ \A i \in 1..Len(x) + Len(t) : u[i] = IF i <= Len(x) THEN x[i] ELSE t[i - Len(x)]
  BY <1>1, ConcatProperties DEF x, t
<1>. HIDE DEF u
<1>4. Len(u) = 3 /\ u[1] = r /\ u[2] = e /\ u[3] = s
  BY <1>2, <1>3
<1>5. \A i \in 1..3 : i = 1 \/ i = 2 \/ i = 3
  OBVIOUS
<1>6. u = v
  BY <1>1, <1>2, <1>3, <1>4, <1>5, SeqEqual DEF v
<1>. QED
  BY <1>6 DEF u, x, t, v

\* The runs of a job need one another: each need is lifted to a sibling.
LEMMA LiftedAre ==
  ASSUME PlainJobs, NEW job \in PluginJob, NEW b \in DOMAIN RunsIn(job), NEW r \in STRING
  PROVE  Lifted(r, RunsIn(job)[b].needs) = {<<r, NoName, n[1]>> : n \in RunsIn(job)[b].needs}
<1>1. RunsIn(job)[b].needs \subseteq {<<s>> : s \in DOMAIN RunsIn(job)}
  BY DEF PlainJobs
<1>2. DOMAIN RunsIn(job) \subseteq STRING
  BY UsesType DEF AreRuns
<1>3. ASSUME NEW n \in RunsIn(job)[b].needs
      PROVE  n[1] \in DOMAIN RunsIn(job) /\ n = <<n[1]>>
  <2>1. PICK s \in DOMAIN RunsIn(job) : n = <<s>>
    BY <1>1
  <2>2. n[1] = s
    BY <2>1
  <2>. QED
    BY <2>1, <2>2
<1>4. ASSUME NEW n \in RunsIn(job)[b].needs
      PROVE  <<r, "">> \o n = <<r, NoName, n[1]>>
  <2>. DEFINE s == n[1]
  <2>1. n = <<s>> /\ s \in Part /\ r \in Part /\ "" \in Part
    BY <1>2, <1>3 DEF Part
  <2>. HIDE DEF s
  <2>2. <<r, "">> \o <<s>> = <<r, "", s>>
    BY <2>1, Dotted
  <2>. QED
    BY <2>1, <2>2 DEF NoName, s
<1>. QED
  BY <1>3, <1>4 DEF Lifted

\* In what is built of an entry that needs nothing of its own.
LEMMA ReachesRuns ==
  ASSUME PlainJobs, asked \in BuildScenarios,
         manifests = Remains(asked) \/ manifests = {},
         NEW k \in Charted(asked), NamesItsRuns(k),
         NEW r \in DOMAIN RunsAsked(k), NEW m \in MadeFrom(k, r)
  PROVE  LET runs == RunsAsked(k)
             outer == UNION {{d \in MadeFrom(k, n[1]) : Meant(d, n)} : n \in runs[r].needs}
             inner == IF runs[r].use = "" THEN {}
                      ELSE {d \in MadeFrom(k, r) :
                              \E n \in RunsOf(runs[r].use)[m.name[2]].needs :
                                d.name[2] = n[1]} IN
         NeedsOf(m, manifests) \cap Of(k) = outer \union inner
<1>. DEFINE runs == RunsAsked(k)
            outer == UNION {{d \in MadeFrom(k, n[1]) : Meant(d, n)} : n \in runs[r].needs}
            inner == IF runs[r].use = "" THEN {}
                     ELSE {d \in MadeFrom(k, r) :
                             \E n \in RunsOf(runs[r].use)[m.name[2]].needs :
                               d.name[2] = n[1]}
<1>1. \A d \in Of(k) : d \in manifests /\ IsShaped(k, d)
  BY OfIts DEF Of, Home, Entry
<1>2. m \in Of(k) /\ IsJob(m) /\ m.name[1] = r
  BY DEF MadeFrom, IsJob
<1>3. /\ r \notin Elsewhere /\ r \in STRING
      /\ \A n \in runs[r].needs :
           /\ n \in Seq(STRING) /\ n[1] \notin {k} \union Elsewhere
           /\ Len(n) = 1 \/ (Len(n) = 3 /\ n[2] = NoName)
      /\ \A n \in Entry(k).needs : n[1] \notin {k} \union DOMAIN runs \union Elsewhere
  BY RunsHaveNames DEF NamesItsRuns, NoName
<1>4. \A d \in Of(k) : d \in NeedsOf(m, manifests) <=>
                          Waitable(d) /\ \E n \in m.needs : n \in NeedKeys(d)
  BY <1>1 DEF NeedsOf, Matching
<1>5. \A d : IsJob(d) => Waitable(d)
  BY DEF IsJob, Waitable
<1>6. \A d : d \in outer <=> d \in Of(k) /\ \E n \in runs[r].needs :
                                IsJob(d) /\ d.name[1] = n[1] /\ Meant(d, n)
  BY DEF MadeFrom, IsJob
<1>7. \A d \in Of(k) : d \in outer <=> \E n \in runs[r].needs : n \in NeedKeys(d)
  <2>1. ASSUME NEW d \in Of(k), NEW n \in runs[r].needs
        PROVE  n \in NeedKeys(d) <=> IsJob(d) /\ d.name[1] = n[1] /\ Meant(d, n)
    BY <1>1, <1>3, CalledBy
  <2>. QED
    BY <1>6, <2>1
<1>8. \A d \in outer \union inner : d \in Of(k) /\ Waitable(d)
  BY <1>5, <1>6 DEF MadeFrom, IsJob
<1>9. \A d \in Of(k) : \A n \in Entry(k).needs : n \notin NeedKeys(d)
  BY <1>1, <1>3, NotCalled
<1>10. PICK q \in DOMAIN runs :
         /\ m.name[1] = q
         /\ \/ OfOwnRun(k, m, q)
            \/ \E b \in DOMAIN RunsOf(runs[q].use) : OfUsedRun(k, m, q, b) /\ m.name[2] = b
  BY <1>1, <1>2, JobsAre
<1>. HIDE DEF outer
<1>11. ASSUME OfOwnRun(k, m, r)
       PROVE  NeedsOf(m, manifests) \cap Of(k) = outer \union inner
  <2>1. inner = {} /\ m.needs = Otherwise(runs[r].needs, Entry(k))
    BY <1>11 DEF OfOwnRun, OwnOf
  <2>. HIDE DEF inner, runs
  <2>2. \A d \in Of(k) : (\E n \in m.needs : n \in NeedKeys(d))
                           <=> \E n \in runs[r].needs : n \in NeedKeys(d)
    BY <1>9, <2>1 DEF Otherwise
  <2>3. NeedsOf(m, manifests) \cap Of(k) = outer \union inner
    BY <1>4, <1>7, <1>8, <2>1, <2>2
  <2>. QED
    BY <2>3
<1>12. ASSUME NEW b \in DOMAIN RunsOf(runs[r].use), OfUsedRun(k, m, r, b), m.name[2] = b
       PROVE  NeedsOf(m, manifests) \cap Of(k) = outer \union inner
  <2>. DEFINE job == JobFor(runs[r].use)
              lifted == Lifted(r, RunsIn(job)[b].needs)
  <2>1. /\ runs[r].use # "" /\ job \in PluginJob /\ b \in DOMAIN RunsIn(job)
        /\ RunsOf(runs[r].use) = RunsIn(job)
    BY <1>12, RunsHaveNames DEF OfUsedRun, UsingOf, RunsOf
  <2>2. m.needs = Otherwise(lifted \union runs[r].needs, Entry(k))
    BY <1>12 DEF OfUsedRun, SubRun, RunsOf
  <2>. HIDE DEF job
  <2>3. \A d : d \in inner <=> d \in Of(k) /\ IsJob(d) /\ d.name[1] = r
                                 /\ \E n \in RunsIn(job)[b].needs : d.name[2] = n[1]
    BY <1>12, <2>1 DEF MadeFrom, IsJob
  <2>. HIDE DEF inner
  <2>4. ASSUME NEW d \in Of(k), IsJob(d), d.name[1] = r
        PROVE  Len(d.name) = 2
    <3>1. PICK p \in DOMAIN RunsAsked(k) :
            /\ d.name[1] = p
            /\ OfOwnRun(k, d, p) \/ Len(d.name) = 2
      BY <1>1, <2>4, JobsAre
    <3>. QED
      BY <2>1, <2>4, <3>1 DEF OfOwnRun, OwnOf
  <2>5. \A d \in Of(k) : d \in inner <=> \E x \in lifted : x \in NeedKeys(d)
    <3>1. ASSUME NEW d \in Of(k), NEW n \in RunsIn(job)[b].needs
          PROVE  <<r, NoName, n[1]>> \in NeedKeys(d) <=>
                   IsJob(d) /\ d.name[1] = r /\ d.name[2] = n[1]
      <4>1. <<r, NoName, n[1]>> \in NeedKeys(d) <=>
              IsJob(d) /\ d.name[1] = r /\ Len(d.name) = 2 /\ d.name[2] = n[1]
        BY <1>1, <1>3, LiftedTo
      <4>. QED
        BY <2>4, <4>1
    <3>2. lifted = {<<r, NoName, n[1]>> : n \in RunsIn(job)[b].needs}
      BY <1>3, <2>1, LiftedAre
    <3>. HIDE DEF lifted
    <3>3. ASSUME NEW d \in Of(k)
          PROVE  d \in inner <=> \E x \in lifted : x \in NeedKeys(d)
      <4>1. d \in inner <=> \E n \in RunsIn(job)[b].needs : <<r, NoName, n[1]>> \in NeedKeys(d)
        BY <2>3, <3>1
      <4>. QED
        BY <3>2, <4>1
    <3>. QED
      BY <3>3
  <2>. HIDE DEF lifted, runs
  <2>6. \A d \in Of(k) : (\E n \in m.needs : n \in NeedKeys(d)) <=> d \in outer \union inner
    BY <1>7, <1>9, <2>2, <2>5 DEF Otherwise
  <2>. QED
    BY <1>4, <1>8, <2>6
<1>13. NeedsOf(m, manifests) \cap Of(k) = outer \union inner
  <2>. HIDE DEF runs, inner
  <2>1. q = r
    BY <1>2, <1>10
  <2>2. \/ OfOwnRun(k, m, r)
        \/ \E b \in DOMAIN RunsOf(runs[r].use) : OfUsedRun(k, m, r, b) /\ m.name[2] = b
    BY <1>10, <2>1
  <2>3. CASE \E b \in DOMAIN RunsOf(runs[r].use) : OfUsedRun(k, m, r, b) /\ m.name[2] = b
    BY <1>12, <2>3
  <2>. QED
    BY <1>11, <2>2, <2>3
<1>. QED
  BY <1>13 DEF outer

\* A run waits for the runs it needs, and no other of its entry, whatever the
\* entry is called, the plugins it is built with and the jobs that it uses
\* (05-jobs.js:290, get-needs-deps.js).
THEOREM RunsAreReached == ASSUME PlainJobs PROVE BuildSpec => []NeedsReachTheirRuns
<1>1. BuildInv /\ RefusalInv => NeedsReachTheirRuns
  <2>. SUFFICES ASSUME BuildInv, RefusalInv, step = "validators",
                       NEW k \in DOMAIN asked.entries, Wanted(k), NamesItsRuns(k),
                       NEW r \in DOMAIN RunsAsked(k), NEW m \in MadeFrom(k, r)
                PROVE  LET runs == RunsAsked(k)
                           outer == UNION {{d \in MadeFrom(k, n[1]) : Meant(d, n)} : n \in runs[r].needs}
                           inner == IF runs[r].use = "" THEN {}
                                    ELSE {d \in MadeFrom(k, r) :
                                            \E n \in RunsOf(runs[r].use)[m.name[2]].needs :
                                              d.name[2] = n[1]} IN
                       NeedsOf(m, manifests) \cap Of(k) = outer \union inner
    BY DEF NeedsReachTheirRuns
  <2>1. asked \in BuildScenarios /\ (manifests = Remains(asked) \/ manifests = {})
    BY DEF BuildInv, RefusalInv
  <2>2. k \in Charted(asked)
    BY DEF Wanted, Entry, Charted, KeysOf
  <2>. QED
    BY <2>1, <2>2, ReachesRuns
<1>. QED
  BY <1>1, RefusalInvHolds, PTL

-----------------------------------------------------------------------------
(* Why a build is refused.                                                  *)

\* The entries that are built are those that are asked for.
LEMMA WantedIsSought ==
  ASSUME NEW k
  PROVE  /\ k \in Charted(asked) => k \in Keys
         /\ k \in SoughtOf(asked) <=> k \in Keys /\ Wanted(k)
<1>1. Wanted(k) <=> HasChart(k, EntryOf(asked, k)) /\ Sought(asked, k)
  BY DEF Wanted, Sought, Entry, hasAll
<1>. QED
  BY <1>1 DEF SoughtOf, Charted, Keys

\* A job that is not there was asked for by an entry that is built.
LEMMA UnknownIsMissing ==
  ASSUME asked \in BuildScenarios, Unknown(PlacedFor(asked)) # {}
  PROVE  \E k \in SoughtOf(asked) : Missing(RunsAsked(k))
<1>. DEFINE P == PlacedFor(asked)
<1>1. PICK p \in DOMAIN P : P[p].enabled = "yes" /\ Missing(Runs(Name(p), P[p]))
  BY DEF Unknown
<1>2. CASE \E k \in Charted(asked) : p = Home(asked, k)
  <2>1. PICK k \in Charted(asked) : p = Home(asked, k)
    BY <1>2
  <2>2. SameSaid(P[p], EntryOf(asked, k)) /\ Sought(asked, k)
    <3>1. /\ SameSaid(P[p], EntryOf(asked, k))
          /\ P[p].enabled = IF Sought(asked, k) THEN "yes" ELSE "no"
      BY <2>1, Placement
    <3>. QED
      BY <1>1, <3>1
  <2>3. Name(p) = k
    BY <2>1, HomeIs
  <2>4. Runs(k, P[p]) = Runs(k, EntryOf(asked, k))
    BY <2>2 DEF SameSaid, Runs, Single, Searched
  <2>. QED
    BY <1>1, <2>2, <2>3, <2>4 DEF SoughtOf, RunsAsked, Entry
<1>3. CASE ~\E k \in Charted(asked) : p = Home(asked, k)
  <2>1. SameSaid(P[p], Blank)
    BY <1>3, Placement
  <2>2. \A j \in DOMAIN Runs(Name(p), P[p]) : Runs(Name(p), P[p])[j].use = ""
    <3>1. P[p].use = "" /\ P[p].runs = <<>>
      BY <2>1 DEF SameSaid, Blank
    <3>2. \A j \in DOMAIN Single(Name(p), P[p]) : Single(Name(p), P[p])[j].use = ""
      BY <3>1 DEF Single
    <3>3. DOMAIN <<>> = {}
      OBVIOUS
    <3>4. CASE Searched(Name(p), P[p]) = "job"
      BY <3>2, <3>4 DEF Runs
    <3>5. CASE Searched(Name(p), P[p]) # "job"
      <4>1. Runs(Name(p), P[p]) = <<>>
        BY <3>1, <3>5 DEF Runs
      <4>. QED
        BY <3>3, <4>1
    <3>. QED
      BY <3>4, <3>5
  <2>. HIDE DEF P
  <2>3. Missing(Runs(Name(p), P[p])) = Lacks(Runs(Name(p), P[p]), Lacking)
    BY MissingIs
  <2>4. ~Lacks(Runs(Name(p), P[p]), Lacking)
    BY <2>2 DEF Lacks
  <2>. QED
    BY <1>1, <2>3, <2>4
<1>. QED
  BY <1>2, <1>3

\* What is built of an entry that is left alone is unchanged.
LEMMA UnchangedIs ==
  ASSUME NEW k, NEW m \in OfEntry(asked, k)
  PROVE  /\ Unchanged(m, asked.changed) <=> LeftAlone(k)
         /\ m.rule = Entry(k).rule /\ m.annotate = Entry(k).annotate
         /\ m.path = Home(asked, k)
<1>1. /\ m.paths = Entry(k).paths /\ m.rule = Entry(k).rule /\ m.annotate = Entry(k).annotate
      /\ m.path = Home(asked, k)
  BY DEF OfEntry, OfKind, OfRun, Made, Fields, Entry
<1>2. Unchanged(m, asked.changed) <=> LeftAlone(k)
  BY <1>1 DEF Unchanged, LeftAlone
<1>. QED
  BY <1>1, <1>2

\* What a bare chart gives has no paths and no needs.
LEMMA BareAre ==
  ASSUME NEW a, NEW m \in OfBare(a)
  PROVE  /\ m.paths = {} /\ m.needs = {} /\ m.path \in Bare(a)
         /\ m = Manifest(m.path, m.kind) /\ m.name = <<Name(m.path)>>
<1>1. PICK p \in Bare(a) : \E kind : m = Manifest(p, kind)
  BY DEF OfBare
<1>2. PICK kind : m = Manifest(p, kind)
  BY <1>1
<1>3. /\ m.paths = {} /\ m.needs = {} /\ m.path = p /\ m.kind = kind /\ m.name = <<Name(p)>>
  BY <1>2 DEF Manifest
<1>. QED
  BY <1>2, <1>3

\* A rule that is none was asked for of an entry that is left alone.
LEMMA BadRuleIs ==
  ASSUME asked \in BuildScenarios, NEW m \in Labelled(asked), BadRule(m, asked.changed)
  PROVE  \E k \in SoughtOf(asked) :
           LeftAlone(k) /\ Entry(k).rule \notin {"", "unbind", "cascade"}
<1>1. m \notin OfBare(asked)
  BY BareAre DEF BadRule, Unchanged
<1>2. PICK k \in SoughtOf(asked) : m \in OfEntry(asked, k)
  BY <1>1, LabelledAre
<1>. QED
  BY <1>2, UnchangedIs DEF BadRule

\* Of an entry that is built all is left, or nothing.
LEMMA LeftTogether ==
  ASSUME asked \in BuildScenarios, NEW k \in SoughtOf(asked),
         ~LeftAlone(k) \/ Entry(k).annotate \/ \E m \in OfEntry(asked, k) : m \in Left(asked)
  PROVE  OfEntry(asked, k) \subseteq Left(asked)
<1>1. OfEntry(asked, k) \subseteq Labelled(asked)
  BY LabelledAre
<1>2. \A m \in OfEntry(asked, k) : m \in Left(asked) <=> Entry(k).annotate \/ ~LeftAlone(k)
  BY <1>1, UnchangedIs DEF Left, OnChanged
<1>. QED
  BY <1>2

\* What needs something is built of an entry.
LEMMA NeedyIs ==
  ASSUME PlainJobs, asked \in BuildScenarios, NEW m \in Left(asked), m.needs # {}
  PROVE  \E k \in SoughtOf(asked) : m \in OfEntry(asked, k) /\ IsShaped(k, m)
<1>1. m \in Labelled(asked)
  BY DEF Left, OnChanged
<1>2. m \notin OfBare(asked)
  BY BareAre
<1>3. PICK k \in SoughtOf(asked) : m \in OfEntry(asked, k)
  BY <1>1, <1>2, LabelledAre
<1>4. k \in Charted(asked)
  BY DEF SoughtOf
<1>. QED
  BY <1>3, <1>4, ShapesAre

\* What can be waited for and is left is found, before the last patches and
\* after.
LEMMA StillMatched ==
  ASSUME asked \in BuildScenarios, NEW ms, ms = Left(asked) \/ ms = Remains(asked),
         NEW m \in Left(asked), m.kind # "Config", Waitable(m), NEW n \in NeedKeys(m)
  PROVE  Matching(n, ms) # {}
<1>1. PICK d \in ms : Alike(d, m)
  BY KeptAre DEF Alike
<1>2. Waitable(d) /\ n \in NeedKeys(d)
  BY <1>1, AlikeKeys
<1>. QED
  BY <1>1, <1>2 DEF Matching

\* So is a run, by its names and that of its entry.
LEMMA RunFound ==
  ASSUME asked \in BuildScenarios, NEW ms, ms = Left(asked) \/ ms = Remains(asked),
         NEW k \in SoughtOf(asked), OfEntry(asked, k) \subseteq Left(asked),
         NEW c \in Compile(RunsAsked(k)), NEW n \in NamesOf(c.name) \union {<<k>>}
  PROVE  Matching(n, ms) # {}
<1>. DEFINE m == OfRun(asked, k, c)
<1>1. m \in Left(asked)
  BY DEF OfEntry, RunsAsked, RunsFor, Entry
<1>2. m.kind = "Job" /\ m.name = c.name /\ m.path = Home(asked, k)
  BY DEF OfRun, Made, Fields
<1>3. Name(Home(asked, k)) = k
  BY HomeIs DEF SoughtOf
<1>. HIDE DEF m
<1>4. Waitable(m) /\ m.kind # "Config"
  BY <1>2 DEF Waitable
<1>5. n \in NeedKeys(m)
  BY <1>2, <1>3, NamesAreKeys
<1>. QED
  BY <1>1, <1>4, <1>5, StillMatched

\* The runs that are made of those asked for, with their names.
LEMMA RunsAreNamed ==
  ASSUME PlainJobs, asked \in BuildScenarios, NEW k \in Charted(asked),
         NEW r \in DOMAIN RunsAsked(k)
  PROVE  /\ RunsAsked(k)[r].use = "" =>
              \E c \in Compile(RunsAsked(k)) : NamesOf(c.name) = {<<r>>}
         /\ r \in UsingOf(RunsAsked(k)) =>
              \A b \in DOMAIN RunsOf(RunsAsked(k)[r].use) :
                \E c \in Compile(RunsAsked(k)) : NamesOf(c.name) = UsedNames(r, b)
<1>1. AreRuns(RunsAsked(k)) /\ r \in STRING /\ r # ""
  BY RunsHaveNames
<1>2. ASSUME RunsAsked(k)[r].use = ""
      PROVE  \E c \in Compile(RunsAsked(k)) : NamesOf(c.name) = {<<r>>}
  <2>. DEFINE c == OwnRun(r, RunsAsked(k)[r])
  <2>1. c \in Compile(RunsAsked(k))
    <3>1. r \in OwnOf(RunsAsked(k))
      BY <1>2 DEF OwnOf
    <3>. QED
      BY <1>1, <3>1, CompileIsFlat
  <2>2. c.name = <<r>>
    BY DEF OwnRun
  <2>. HIDE DEF c
  <2>3. NamesOf(c.name) = {<<r>>}
    BY <1>1, <2>2, NamesAre
  <2>. QED
    BY <2>1, <2>3
<1>3. ASSUME r \in UsingOf(RunsAsked(k)), NEW b \in DOMAIN RunsOf(RunsAsked(k)[r].use)
      PROVE  \E c \in Compile(RunsAsked(k)) : NamesOf(c.name) = UsedNames(r, b)
  <2>. DEFINE c == SubRun(r, RunsAsked(k)[r], b)
  <2>1. c \in Compile(RunsAsked(k))
    BY <1>1, <1>3, CompileIsFlat
  <2>2. c.name = <<r, b>>
    BY DEF SubRun
  <2>. HIDE DEF c
  <2>3. b \in STRING /\ b # ""
    BY <1>3, RunsHaveNames
  <2>4. NamesOf(c.name) = UsedNames(r, b)
    BY <1>1, <2>2, <2>3, NamesAre DEF UsedNames, NoName
  <2>. QED
    BY <2>1, <2>4
<1>. QED
  BY <1>2, <1>3

\* What is answered is found, unless a job that it uses is not there.
LEMMA AnsweredIs ==
  ASSUME PlainJobs, asked \in BuildScenarios,
         NEW ms, ms = Left(asked) \/ ms = Remains(asked),
         NEW n, Answered(n), \A k \in SoughtOf(asked) : ~Missing(RunsAsked(k))
  PROVE  Matching(n, ms) # {}
<1>1. PICK k \in Keys :
        /\ Wanted(k) /\ (~LeftAlone(k) \/ Entry(k).annotate)
        /\ \/ n = <<k>> /\ (WaitableOf(k) \ {"Config"} # {} \/ RunsAsked(k) # <<>>)
           \/ \E r \in DOMAIN RunsAsked(k) :
                \/ n = <<r>>
                \/ /\ UsesJob(k, r)
                   /\ \E b \in DOMAIN RunsOf(RunsAsked(k)[r].use) : n \in {<<r, b>>, <<r, "", b>>}
  BY DEF Answered
<1>2. k \in SoughtOf(asked) /\ k \in Charted(asked)
  BY <1>1, WantedIsSought DEF SoughtOf
<1>3. OfEntry(asked, k) \subseteq Left(asked)
  BY <1>1, <1>2, LeftTogether
<1>4. ~Missing(RunsAsked(k)) /\ AreRuns(RunsAsked(k))
  BY <1>2, RunsHaveNames
<1>5. CASE n = <<k>> /\ WaitableOf(k) \ {"Config"} # {}
  <2>1. PICK kind \in WaitableOf(k) : kind # "Config"
    BY <1>5
  <2>. DEFINE m == OfKind(asked, k, kind)
  <2>2. kind \in KindsFor(asked, k)
    BY DEF WaitableOf, KindsFor, Entry
  <2>3. m \in Left(asked)
    BY <1>3, <2>2 DEF OfEntry
  <2>4. m.kind = kind /\ m.path = Home(asked, k)
    BY DEF OfKind, Made, Fields
  <2>. HIDE DEF m
  <2>5. Waitable(m)
    BY <2>4 DEF Waitable, WaitableOf
  <2>6. n \in NeedKeys(m)
    BY <1>2, <1>5, <2>4, HomeIs, NamesAreKeys
  <2>. QED
    BY <2>1, <2>3, <2>4, <2>5, <2>6, StillMatched
<1>6. CASE n = <<k>> /\ RunsAsked(k) # <<>>
  <2>1. PICK c \in Compile(RunsAsked(k)) : TRUE
    BY <1>4, <1>6, RunsAreMade
  <2>. QED
    BY <1>2, <1>3, <1>6, <2>1, RunFound
<1>7. ASSUME NEW r \in DOMAIN RunsAsked(k),
             \/ n = <<r>>
             \/ UsesJob(k, r) /\ \E b \in DOMAIN RunsOf(RunsAsked(k)[r].use) :
                                    n \in {<<r, b>>, <<r, "", b>>}
      PROVE  \E c \in Compile(RunsAsked(k)) : n \in NamesOf(c.name)
  <2>1. RunsAsked(k)[r].use = "" \/ r \in UsingOf(RunsAsked(k))
    <3>1. ~Lacks(RunsAsked(k), Lacking)
      BY <1>4, MissingIs
    <3>. QED
      BY <3>1 DEF Lacks, UsingOf
  <2>2. CASE n = <<r>> /\ RunsAsked(k)[r].use = ""
    BY <1>2, <2>2, RunsAreNamed
  <2>3. CASE n = <<r>> /\ r \in UsingOf(RunsAsked(k))
    <3>. DEFINE job == JobFor(RunsAsked(k)[r].use)
    <3>1. job \in PluginJob /\ RunsOf(RunsAsked(k)[r].use) = RunsIn(job)
      BY <1>2, <2>3, RunsHaveNames DEF RunsOf
    <3>. HIDE DEF job
    <3>2. PICK b \in DOMAIN RunsIn(job) : TRUE
      <4>1. AreRuns(RunsIn(job)) /\ RunsIn(job) # <<>>
        BY <3>1, UsesType
      <4>2. DOMAIN RunsIn(job) = {} => RunsIn(job) = <<>>
        BY <4>1 DEF AreRuns
      <4>. QED
        BY <4>1, <4>2
    <3>3. PICK c \in Compile(RunsAsked(k)) : NamesOf(c.name) = UsedNames(r, b)
      BY <1>2, <2>3, <3>1, <3>2, RunsAreNamed
    <3>4. n \in UsedNames(r, b)
      BY <2>3 DEF UsedNames
    <3>. QED
      BY <3>3, <3>4
  <2>4. ASSUME UsesJob(k, r), NEW b \in DOMAIN RunsOf(RunsAsked(k)[r].use),
               n \in {<<r, b>>, <<r, "", b>>}
        PROVE  \E c \in Compile(RunsAsked(k)) : n \in NamesOf(c.name)
    <3>1. r \in UsingOf(RunsAsked(k))
      BY <2>4 DEF UsesJob, UsingOf
    <3>2. PICK c \in Compile(RunsAsked(k)) : NamesOf(c.name) = UsedNames(r, b)
      BY <1>2, <3>1, RunsAreNamed
    <3>3. n \in UsedNames(r, b)
      BY <2>4 DEF UsedNames, NoName
    <3>. QED
      BY <3>2, <3>3
  <2>. QED
    BY <1>7, <2>1, <2>2, <2>3, <2>4
<1>8. CASE \E r \in DOMAIN RunsAsked(k) :
             \/ n = <<r>>
             \/ UsesJob(k, r) /\ \E b \in DOMAIN RunsOf(RunsAsked(k)[r].use) :
                                    n \in {<<r, b>>, <<r, "", b>>}
  <2>1. PICK c \in Compile(RunsAsked(k)) : n \in NamesOf(c.name)
    BY <1>7, <1>8
  <2>. QED
    BY <1>2, <1>3, <2>1, RunFound
<1>. QED
  BY <1>1, <1>5, <1>6, <1>8

\* Who asks for what a manifest needs: its entry, its run, or the job used.
LEMMA AskerIs ==
  ASSUME asked \in BuildScenarios, NEW k \in SoughtOf(asked)
  PROVE  /\ \A kind \in WaitableOf(k) : <<k>> \in Asker
         /\ AskedBy(<<k>>) = Entry(k).needs
         /\ \A r \in DOMAIN RunsAsked(k) :
              <<k, r>> \in Asker /\ AskedBy(<<k, r>>) = Otherwise(RunsAsked(k)[r].needs, Entry(k))
<1>1. k \in {e \in Keys : Wanted(e)}
  BY WantedIsSought
<1>2. \A kind \in WaitableOf(k) : <<k>> \in Asker
  BY <1>1 DEF Asker
<1>3. \A r \in DOMAIN RunsAsked(k) : <<k, r>> \in Asker
  BY <1>1 DEF Asker
<1>4. AskedBy(<<k>>) = Entry(k).needs
  BY DEF AskedBy
<1>5. ASSUME NEW r \in DOMAIN RunsAsked(k)
      PROVE  AskedBy(<<k, r>>) = Otherwise(RunsAsked(k)[r].needs, Entry(k))
  BY DEF AskedBy, Otherwise
<1>. QED
  BY <1>2, <1>3, <1>4, <1>5

\* x asks for what m needs: the entry k, or its run that m is made of.
StandsFor(k, m, x) ==
  /\ k \in SoughtOf(asked) /\ x \in Asker /\ IsShaped(k, m)
  /\ \/ OfItsKinds(k, m) /\ x = <<k>>
     \/ \E r \in DOMAIN RunsAsked(k) :
          /\ x = <<k, r>>
          /\ \/ OfOwnRun(k, m, r)
             \/ \E b \in DOMAIN RunsOf(RunsAsked(k)[r].use) : OfUsedRun(k, m, r, b)

\* What can wait is made for who asks.
LEMMA SomeoneAsks ==
  ASSUME asked \in BuildScenarios, NEW k \in SoughtOf(asked),
         NEW m, IsShaped(k, m), Waitable(m)
  PROVE  \E x \in Asker : StandsFor(k, m, x)
<1>1. CASE OfItsKinds(k, m)
  <2>1. m.kind \in WaitableOf(k)
    BY <1>1 DEF OfItsKinds, WaitableOf, KindsFor, Waitable, Entry
  <2>. QED
    BY <1>1, <2>1, AskerIs DEF StandsFor
<1>2. ASSUME NEW r \in DOMAIN RunsAsked(k),
             \/ OfOwnRun(k, m, r)
             \/ \E b \in DOMAIN RunsOf(RunsAsked(k)[r].use) : OfUsedRun(k, m, r, b)
      PROVE  StandsFor(k, m, <<k, r>>) /\ <<k, r>> \in Asker
  BY <1>2, AskerIs DEF StandsFor
<1>. QED
  BY <1>1, <1>2 DEF IsShaped

\* A need of a manifest is asked for, or is one that a job has of its own.
LEMMA NeedIsAsked ==
  ASSUME asked \in BuildScenarios, NEW k, NEW m, NEW x, StandsFor(k, m, x), NEW n \in m.needs
  PROVE  \/ n \in AskedBy(x)
         \/ \E r \in UsingOf(RunsAsked(k)) : \E b \in DOMAIN RunsOf(RunsAsked(k)[r].use) :
              /\ x = <<k, r>> /\ OfUsedRun(k, m, r, b)
              /\ n \in Lifted(r, RunsOf(RunsAsked(k)[r].use)[b].needs)
<1>1. k \in SoughtOf(asked)
  BY DEF StandsFor
<1>2. CASE OfItsKinds(k, m) /\ x = <<k>>
  BY <1>1, <1>2, AskerIs DEF OfItsKinds
<1>3. ASSUME NEW r \in DOMAIN RunsAsked(k), OfOwnRun(k, m, r), x = <<k, r>>
      PROVE  n \in AskedBy(x)
  BY <1>1, <1>3, AskerIs DEF OfOwnRun
<1>4. ASSUME NEW r \in DOMAIN RunsAsked(k), NEW b \in DOMAIN RunsOf(RunsAsked(k)[r].use),
             OfUsedRun(k, m, r, b), x = <<k, r>>
      PROVE  \/ n \in AskedBy(x)
             \/ /\ r \in UsingOf(RunsAsked(k))
                /\ n \in Lifted(r, RunsOf(RunsAsked(k)[r].use)[b].needs)
  <2>1. /\ n \in Otherwise(Lifted(r, RunsOf(RunsAsked(k)[r].use)[b].needs)
                             \union RunsAsked(k)[r].needs, Entry(k))
        /\ r \in UsingOf(RunsAsked(k))
    BY <1>4 DEF OfUsedRun, SubRun
  <2>2. \/ n \in Otherwise(RunsAsked(k)[r].needs, Entry(k))
        \/ n \in Lifted(r, RunsOf(RunsAsked(k)[r].use)[b].needs)
    BY <2>1 DEF Otherwise
  <2>. QED
    BY <1>1, <1>4, <2>1, <2>2, AskerIs
<1>. QED
  BY <1>2, <1>3, <1>4 DEF StandsFor

\* What a job needs of its own is built with it.
LEMMA OwnNeedsAreThere ==
  ASSUME PlainJobs, asked \in BuildScenarios,
         NEW ms, ms = Left(asked) \/ ms = Remains(asked),
         NEW k \in SoughtOf(asked), OfEntry(asked, k) \subseteq Left(asked),
         NEW r \in UsingOf(RunsAsked(k)), NEW b \in DOMAIN RunsOf(RunsAsked(k)[r].use),
         NEW n \in Lifted(r, RunsOf(RunsAsked(k)[r].use)[b].needs)
  PROVE  Matching(n, ms) # {}
<1>. DEFINE job == JobFor(RunsAsked(k)[r].use)
<1>1. k \in Charted(asked) /\ r \in DOMAIN RunsAsked(k)
  BY DEF SoughtOf, UsingOf
<1>2. /\ job \in PluginJob /\ RunsOf(RunsAsked(k)[r].use) = RunsIn(job) /\ r \in STRING
  BY <1>1, RunsHaveNames DEF RunsOf
<1>. HIDE DEF job
<1>3. PICK o \in RunsIn(job)[b].needs : n = <<r, NoName, o[1]>>
  <2>1. b \in DOMAIN RunsIn(job) /\ n \in Lifted(r, RunsIn(job)[b].needs)
    BY <1>2
  <2>2. Lifted(r, RunsIn(job)[b].needs) = {<<r, NoName, o[1]>> : o \in RunsIn(job)[b].needs}
    BY <1>2, <2>1, LiftedAre
  <2>. QED
    BY <2>1, <2>2
<1>4. PICK s \in DOMAIN RunsIn(job) : o = <<s>>
  BY <1>2, <1>3 DEF PlainJobs
<1>5. n = <<r, NoName, s>>
  BY <1>3, <1>4
<1>6. PICK c \in Compile(RunsAsked(k)) : NamesOf(c.name) = UsedNames(r, s)
  BY <1>1, <1>2, RunsAreNamed
<1>7. n \in NamesOf(c.name)
  BY <1>5, <1>6, UsedThird
<1>. QED
  BY <1>7, RunFound

\* A need that is not met is one that is asked for and not answered.
LEMMA UnmetIsUnanswered ==
  ASSUME PlainJobs, asked \in BuildScenarios,
         NEW ms, ms = Left(asked) \/ ms = Remains(asked), Unmet(ms) # {}
  PROVE  \/ \E x \in Asker : \E n \in AskedBy(x) : ~Answered(n)
         \/ \E k \in SoughtOf(asked) : Missing(RunsAsked(k))
<1>1. PICK d \in ms : Waitable(d) /\ \E n \in d.needs : Matching(n, ms) = {}
  BY DEF Unmet
<1>2. PICK n \in d.needs : Matching(n, ms) = {}
  BY <1>1
<1>3. PICK m \in Left(asked) : Alike(d, m)
  BY <1>1, KeptAre DEF Alike
<1>4. n \in m.needs /\ Waitable(m)
  BY <1>1, <1>2, <1>3, AlikeKeys DEF Alike
<1>5. PICK k \in SoughtOf(asked) : m \in OfEntry(asked, k) /\ IsShaped(k, m)
  BY <1>4, NeedyIs
<1>6. OfEntry(asked, k) \subseteq Left(asked)
  BY <1>5, LeftTogether
<1>7. PICK x \in Asker : StandsFor(k, m, x)
  BY <1>4, <1>5, SomeoneAsks
<1>8. n \in AskedBy(x)
  BY <1>2, <1>4, <1>5, <1>6, <1>7, NeedIsAsked, OwnNeedsAreThere
<1>. QED
  BY <1>2, <1>8, AnsweredIs

\* The runs that are made have names of their own.
LEMMA CompiledOnce ==
  ASSUME PlainJobs, NEW runs, AreRuns(runs),
         NEW c \in Compile(runs), NEW d \in Compile(runs), c.name = d.name
  PROVE  c = d
<1>1. \A x \in {c, d} :
        \/ \E r \in OwnOf(runs) : x = OwnRun(r, runs[r]) /\ x.name = <<r>>
        \/ \E r \in UsingOf(runs) : \E b \in DOMAIN RunsOf(runs[r].use) :
             x = SubRun(r, runs[r], b) /\ x.name = <<r, b>>
  <2>1. \A r : OwnRun(r, runs[r]).name = <<r>>
    BY DEF OwnRun
  <2>2. \A r, b : SubRun(r, runs[r], b).name = <<r, b>>
    BY DEF SubRun
  <2>3. ASSUME NEW x \in Compile(runs)
        PROVE  \/ \E r \in OwnOf(runs) : x = OwnRun(r, runs[r]) /\ x.name = <<r>>
               \/ \E r \in UsingOf(runs) : \E b \in DOMAIN RunsOf(runs[r].use) :
                    x = SubRun(r, runs[r], b) /\ x.name = <<r, b>>
    <3>1. \/ \E r \in OwnOf(runs) : x = OwnRun(r, runs[r])
          \/ \E r \in UsingOf(runs) : \E b \in DOMAIN RunsOf(runs[r].use) :
               x = SubRun(r, runs[r], b)
      BY CompileIsFlat
    <3>. QED
      BY <2>1, <2>2, <3>1
  <2>. QED
    BY <2>3
<1>2. \A r, s, b : <<r>> # <<s, b>>
  OBVIOUS
<1>3. \A r, s : <<r>> = <<s>> => r = s
  OBVIOUS
<1>4. \A r, s, b, e : <<r, b>> = <<s, e>> => r = s /\ b = e
  OBVIOUS
<1>. QED
  BY <1>1, <1>2, <1>3, <1>4

\* At one place a kind and a name are those of one manifest.
LEMMA NamedOnce ==
  ASSUME PlainJobs, asked \in BuildScenarios,
         NEW m \in Labelled(asked), NEW d \in Labelled(asked),
         d.path = m.path, d.kind = m.kind, d.name = m.name
  PROVE  d = m
<1>1. CASE m \in OfBare(asked) /\ d \in OfBare(asked)
  <2>1. m = Manifest(m.path, m.kind) /\ d = Manifest(d.path, d.kind)
    BY <1>1, BareAre
  <2>. QED
    BY <2>1
<1>2. \A x \in OfBare(asked) : \A k \in SoughtOf(asked) : \A y \in OfEntry(asked, k) :
        x.path # y.path
  <2>1. \A x \in OfBare(asked) : x.path \in Bare(asked)
    BY BareAre
  <2>2. \A k : \A y \in OfEntry(asked, k) : y.path = Home(asked, k)
    BY UnchangedIs
  <2>. QED
    BY <2>1, <2>2 DEF Bare, SoughtOf
<1>3. ASSUME NEW k \in SoughtOf(asked), NEW l \in SoughtOf(asked),
             m \in OfEntry(asked, k), d \in OfEntry(asked, l)
      PROVE  d = m
  <2>1. k = l
    <3>1. Home(asked, k) = Home(asked, l)
      BY <1>3, UnchangedIs
    <3>2. Name(Home(asked, k)) = k /\ Name(Home(asked, l)) = l
      BY HomeIs DEF SoughtOf
    <3>. QED
      BY <3>1, <3>2
  <2>2. \A x \in OfEntry(asked, k) :
          \/ \E kind \in KindsFor(asked, k) : x = OfKind(asked, k, kind) /\ x.kind = kind
          \/ \E c \in Compile(RunsFor(asked, k)) :
               x = OfRun(asked, k, c) /\ x.kind = "Job" /\ x.name = c.name
    BY DEF OfEntry, OfKind, OfRun, Made, Fields
  <2>3. "Job" \notin KindsFor(asked, k)
    BY KindsType DEF KindsFor, KindsOf
  <2>4. \A c, e \in Compile(RunsFor(asked, k)) : c.name = e.name => c = e
    <3>1. AreRuns(RunsFor(asked, k))
      BY HomeIs DEF SoughtOf
    <3>. QED
      BY <3>1, CompiledOnce
  <2>. QED
    BY <1>3, <2>1, <2>2, <2>3, <2>4
<1>. QED
  BY <1>1, <1>2, <1>3, LabelledAre

\* What is built is at a chart that is built and, unless it is a run, has its
\* name.
LEMMA PlacedAtBuilt ==
  ASSUME PlainJobs, asked \in BuildScenarios, NEW m \in Labelled(asked)
  PROVE  m.path \in Built /\ (m.kind # "Job" => m.name = <<Name(m.path)>>)
<1>1. CASE m \in OfBare(asked)
  <2>1. m.path \in Bare(asked) /\ m.name = <<Name(m.path)>>
    BY <1>1, BareAre
  <2>. QED
    BY <2>1 DEF Bare, Built
<1>2. ASSUME NEW k \in SoughtOf(asked), m \in OfEntry(asked, k)
      PROVE  m.path \in Built /\ (m.kind # "Job" => m.name = <<Name(m.path)>>)
  <2>1. k \in Charted(asked) /\ IsShaped(k, m)
    BY <1>2, ShapesAre DEF SoughtOf
  <2>2. m.path = Home(asked, k) /\ Name(m.path) = k
    BY <2>1, HomeIs DEF IsShaped
  <2>3. k \in {e \in Keys : Wanted(e)}
    BY WantedIsSought
  <2>4. m.path \in Built
    BY <2>2, <2>3 DEF Built, Home, Entry
  <2>5. m.kind # "Job" => m.name = <<k>>
    BY <2>1 DEF IsShaped, OfItsKinds, OfOwnRun, OfUsedRun
  <2>. QED
    BY <2>2, <2>4, <2>5
<1>. QED
  BY <1>1, <1>2, LabelledAre

\* Two that are kept come from one only when they are one.
LEMMA KeptOnce ==
  ASSUME asked \in BuildScenarios, NEW d \in Remains(asked), NEW e \in Remains(asked)
  PROVE  \E m, n \in Left(asked) : Alike(d, m) /\ Alike(e, n) /\ (m = n => d = e)
<1>1. \A m \in Left(asked) : \A l : Alike(Moved(m, l), m) /\ Alike(m, m)
  BY LeftAre
<1>2. CASE asked.spread = "waves"
  <2>. DEFINE L == Level(Left(asked))
  <2>1. Spread(asked) = {Moved(m, L[m]) : m \in Left(asked)}
    BY <1>2 DEF Spread, SyncWaves, Moved
  <2>. HIDE DEF L
  <2>. QED
    BY <1>1, <2>1 DEF Remains, WithoutKapp
<1>3. CASE asked.spread # "waves"
  BY <1>1, <1>3 DEF Remains, Spread, WithoutKapp
<1>. QED
  BY <1>2, <1>3

\* Two manifests of one kind and name are of two charts of one name.
LEMMA DuplicatesAreCharts ==
  ASSUME PlainJobs, asked \in BuildScenarios, Duplicates(Remains(asked)) # {}
  PROVE  \E p, q \in Built : p # q /\ Name(p) = Name(q)
<1>1. PICK d \in Remains(asked) : \E e \in Remains(asked) \ {d} :
        e.kind = d.kind /\ e.name = d.name /\ (d.kind = "Job" => e.path = d.path)
  BY DEF Duplicates
<1>2. PICK e \in Remains(asked) \ {d} :
        e.kind = d.kind /\ e.name = d.name /\ (d.kind = "Job" => e.path = d.path)
  BY <1>1
<1>3. PICK m, n \in Left(asked) : Alike(d, m) /\ Alike(e, n) /\ (m = n => d = e)
  BY <1>2, KeptOnce
<1>4. /\ m \in Labelled(asked) /\ n \in Labelled(asked)
      /\ n.kind = m.kind /\ n.name = m.name /\ (m.kind = "Job" => n.path = m.path)
  BY <1>2, <1>3 DEF Left, OnChanged, Alike
<1>5. m.path # n.path
  BY <1>2, <1>3, <1>4, NamedOnce
<1>6. /\ m.path \in Built /\ n.path \in Built
      /\ m.name = <<Name(m.path)>> /\ n.name = <<Name(n.path)>>
  BY <1>4, <1>5, PlacedAtBuilt
<1>7. Name(m.path) = Name(n.path)
  BY <1>4, <1>6
<1>. QED
  BY <1>5, <1>6, <1>7

\* The parts of a name of one or two.
Parts(y) == {y[i] : i \in DOMAIN y}

\* Each part of such a name is one of them.
LEMMA PartsAre ==
  /\ \A l : l \in Parts(<<l>>)
  /\ \A l, q : l \in Parts(<<l, q>>) /\ q \in Parts(<<l, q>>)
<1>1. \A l : DOMAIN <<l>> = {1} /\ <<l>>[1] = l
  OBVIOUS
<1>2. \A l, q : DOMAIN <<l, q>> = {1, 2} /\ <<l, q>>[1] = l /\ <<l, q>>[2] = q
  OBVIOUS
<1>. QED
  BY <1>1, <1>2 DEF Parts

\* The names of a manifest start with a part of who asks for it.
LEMMA NamedAfter ==
  ASSUME asked \in BuildScenarios, NEW l, NEW d, NEW y, StandsFor(l, d, y)
  PROVE  /\ l \in Parts(y)
         /\ \A n \in NamesOf(d.name) : n[1] \in Parts(y)
<1>1. l \in SoughtOf(asked) /\ l \in Charted(asked)
  BY DEF StandsFor, SoughtOf
<1>2. \A q : <<q>>[1] = q
  OBVIOUS
<1>3. CASE OfItsKinds(l, d) /\ y = <<l>>
  BY <1>1, <1>2, <1>3, PartsAre, ShapeNames
<1>4. ASSUME NEW r \in DOMAIN RunsAsked(l), y = <<l, r>>, OfOwnRun(l, d, r)
      PROVE  l \in Parts(y) /\ \A n \in NamesOf(d.name) : n[1] \in Parts(y)
  BY <1>1, <1>2, <1>4, PartsAre, ShapeNames
<1>5. ASSUME NEW r \in DOMAIN RunsAsked(l), y = <<l, r>>,
             NEW b \in DOMAIN RunsOf(RunsAsked(l)[r].use), OfUsedRun(l, d, r, b)
      PROVE  l \in Parts(y) /\ \A n \in NamesOf(d.name) : n[1] \in Parts(y)
  <2>1. NamesOf(d.name) = UsedNames(r, b)
    BY <1>1, <1>5, ShapeNames
  <2>2. \A n \in NamesOf(d.name) : n[1] = r
    BY <2>1, UsedNamesStart
  <2>. QED
    BY <1>5, <2>2, PartsAre
<1>. QED
  BY <1>3, <1>4, <1>5 DEF StandsFor

\* Who asks for what is found may need who it is found for.
LEMMA AskedMayNeed ==
  ASSUME asked \in BuildScenarios, NEW l, NEW d, NEW y, StandsFor(l, d, y),
         NEW x, NEW n \in AskedBy(x), n \in NeedKeys(d)
  PROVE  MayNeed(x, y)
<1>1. l \in Charted(asked) /\ IsShaped(l, d)
  BY DEF StandsFor, SoughtOf
<1>2. \/ n \in NamesOf(d.name) \union {<<l>>}
      \/ n[1] \in Elsewhere
      \/ n[1] = l
  BY <1>1, ShapeKeys
<1>3. <<l>>[1] = l
  OBVIOUS
<1>4. n[1] \in Parts(y) \union Elsewhere
  BY <1>2, <1>3, NamedAfter
<1>. QED
  BY <1>4 DEF MayNeed, Parts

\* What a job needs of its own is found in the run that uses it, or in one of
\* its name.
LEMMA Siblings ==
  ASSUME asked \in BuildScenarios, NEW l, NEW d, NEW y, StandsFor(l, d, y),
         NEW r \in STRING, r \notin Elsewhere, NEW s, <<r, NoName, s>> \in NeedKeys(d)
  PROVE  /\ y = <<l, r>> /\ r \in DOMAIN RunsAsked(l)
         /\ s \in DOMAIN RunsOf(RunsAsked(l)[r].use) /\ OfUsedRun(l, d, r, s)
<1>. DEFINE n == <<r, NoName, s>>
<1>1. l \in Charted(asked) /\ IsShaped(l, d)
  BY DEF StandsFor, SoughtOf
<1>2. n[1] = r /\ Len(n) = 3 /\ n[2] = NoName
  OBVIOUS
<1>3. n \in NeedKeys(d)
  OBVIOUS
<1>4. n # <<l>> /\ \A q : n # <<q>>
  BY NeverShort
<1>5. \A q, c : n \in UsedNames(q, c) => r = q /\ s = c
  BY UsedThird
<1>. HIDE DEF n
<1>6. n \in NamesOf(d.name)
  BY <1>1, <1>2, <1>3, <1>4, ShapeKeys
<1>7. ~OfItsKinds(l, d)
  BY <1>1, <1>4, <1>6, ShapeNames
<1>8. \A q \in DOMAIN RunsAsked(l) : ~OfOwnRun(l, d, q)
  BY <1>1, <1>4, <1>6, ShapeNames
<1>9. PICK q \in DOMAIN RunsAsked(l) :
        y = <<l, q>> /\ \E b \in DOMAIN RunsOf(RunsAsked(l)[q].use) : OfUsedRun(l, d, q, b)
  BY <1>7, <1>8 DEF StandsFor
<1>10. PICK c \in DOMAIN RunsOf(RunsAsked(l)[q].use) : OfUsedRun(l, d, q, c)
  BY <1>9
<1>11. NamesOf(d.name) = UsedNames(q, c)
  BY <1>1, <1>10, ShapeNames
<1>12. r = q /\ s = c
  BY <1>5, <1>6, <1>11
<1>. QED
  BY <1>9, <1>10, <1>12

\* m and d are made by run r of entry k, from runs b and s of the job it uses.
UsedTogether(k, r, b, s, m, d) ==
  /\ r \in UsingOf(RunsAsked(k))
  /\ b \in DOMAIN RunsOf(RunsAsked(k)[r].use) /\ s \in DOMAIN RunsOf(RunsAsked(k)[r].use)
  /\ OfUsedRun(k, m, r, b) /\ OfUsedRun(k, d, r, s)
  /\ <<s>> \in RunsOf(RunsAsked(k)[r].use)[b].needs

\* Unless who asks may need who the other is for, only a job has one wait for
\* the other.
LEMMA MayNeedOrUsed ==
  ASSUME PlainJobs, asked \in BuildScenarios,
         NEW k, NEW m, NEW x, StandsFor(k, m, x), NEW l, NEW d, NEW y, StandsFor(l, d, y),
         NEW n \in m.needs, n \in NeedKeys(d), ~MayNeed(x, y)
  PROVE  y = x /\ \E r, b, s : x = <<k, r>> /\ UsedTogether(k, r, b, s, m, d)
<1>1. n \notin AskedBy(x)
  BY AskedMayNeed
<1>2. PICK r \in UsingOf(RunsAsked(k)) : \E b \in DOMAIN RunsOf(RunsAsked(k)[r].use) :
        /\ x = <<k, r>> /\ OfUsedRun(k, m, r, b)
        /\ n \in Lifted(r, RunsOf(RunsAsked(k)[r].use)[b].needs)
  BY <1>1, NeedIsAsked
<1>3. PICK b \in DOMAIN RunsOf(RunsAsked(k)[r].use) :
        /\ x = <<k, r>> /\ OfUsedRun(k, m, r, b)
        /\ n \in Lifted(r, RunsOf(RunsAsked(k)[r].use)[b].needs)
  BY <1>2
<1>4. k \in Charted(asked) /\ r \in DOMAIN RunsAsked(k)
  BY DEF StandsFor, SoughtOf, UsingOf
<1>. DEFINE job == JobFor(RunsAsked(k)[r].use)
<1>5. job \in PluginJob /\ RunsOf(RunsAsked(k)[r].use) = RunsIn(job) /\ r \in STRING
  BY <1>4, RunsHaveNames DEF RunsOf
<1>. HIDE DEF job
<1>6. PICK o \in RunsIn(job)[b].needs : n = <<r, NoName, o[1]>>
  <2>1. b \in DOMAIN RunsIn(job) /\ n \in Lifted(r, RunsIn(job)[b].needs)
    BY <1>3, <1>5
  <2>2. Lifted(r, RunsIn(job)[b].needs) = {<<r, NoName, o[1]>> : o \in RunsIn(job)[b].needs}
    BY <1>5, <2>1, LiftedAre
  <2>. QED
    BY <2>1, <2>2
<1>7. PICK s \in DOMAIN RunsIn(job) : o = <<s>>
  BY <1>3, <1>5, <1>6 DEF PlainJobs
<1>8. n = <<r, NoName, s>> /\ <<s>> \in RunsIn(job)[b].needs
  BY <1>6, <1>7
<1>9. /\ Len(x) = 2 /\ x[1] = k /\ x[2] = r
  BY <1>3
<1>10. UsesJob(k, r)
  BY DEF UsesJob, UsingOf
<1>11. r \notin Elsewhere /\ (x # y => r \notin Parts(y))
  BY <1>9, <1>10 DEF MayNeed, Parts
<1>12. y = <<l, r>> /\ r \in DOMAIN RunsAsked(l) /\ OfUsedRun(l, d, r, s)
  BY <1>5, <1>8, <1>11, Siblings
<1>13. x = y
  BY <1>11, <1>12, PartsAre
<1>14. k = l
  <2>1. \A e, f : <<e, r>> = <<f, r>> => e = f
    OBVIOUS
  <2>. QED
    BY <1>3, <1>12, <1>13, <2>1
<1>15. UsedTogether(k, r, b, s, m, d)
  BY <1>3, <1>5, <1>7, <1>8, <1>12, <1>14 DEF UsedTogether
<1>. QED
  BY <1>3, <1>13, <1>15

\* A circle of needs is one that is asked for.
LEMMA CircularIsAsked ==
  ASSUME PlainJobs, asked \in BuildScenarios, Circular(Left(asked))
  PROVE  CircleAsked
<1>. DEFINE ms == Left(asked)
<1>1. PICK circle \in SUBSET ms :
        circle # {} /\ \A m \in circle : NeedsBeyond(m, ms) \cap circle # {}
  BY DEF Circular
<1>2. \A m \in circle : Waitable(m) /\ \E d \in circle : \E n \in m.needs : n \in NeedKeys(d)
  BY <1>1 DEF NeedsBeyond, NeedsOf, Matching
<1>3. ASSUME NEW m \in circle
      PROVE  \E x \in Asker : \E k : StandsFor(k, m, x)
  <2>1. m \in Left(asked) /\ m.needs # {} /\ Waitable(m)
    BY <1>2
  <2>2. PICK k \in SoughtOf(asked) : IsShaped(k, m)
    BY <2>1, NeedyIs
  <2>. QED
    BY <2>1, <2>2, SomeoneAsks
<1>. DEFINE X == {x \in Asker : \E m \in circle : \E k : StandsFor(k, m, x)}
<1>4. X # {} /\ X \in SUBSET Asker
  BY <1>1, <1>3
<1>5. SUFFICES ASSUME NEW x \in X, \A y \in X : ~MayNeed(x, y)
               PROVE  FALSE
  BY <1>4 DEF CircleAsked
\* One that x stands for waits for another, inside one job.
<1>6. ASSUME NEW m \in circle, NEW k, StandsFor(k, m, x)
      PROVE  \E d \in circle : \E l : \E r, b, s :
               /\ StandsFor(l, d, x)
               /\ x = <<k, r>> /\ UsedTogether(k, r, b, s, m, d)
  <2>1. PICK d \in circle : \E n \in m.needs : n \in NeedKeys(d)
    BY <1>2
  <2>2. PICK n \in m.needs : n \in NeedKeys(d)
    BY <2>1
  <2>3. PICK y \in Asker : \E l : StandsFor(l, d, y)
    BY <1>3
  <2>4. PICK l : StandsFor(l, d, y)
    BY <2>3
  <2>5. ~MayNeed(x, y)
    BY <1>5, <2>3
  <2>6. y = x /\ \E r, b, s : x = <<k, r>> /\ UsedTogether(k, r, b, s, m, d)
    BY <1>6, <2>2, <2>4, <2>5, MayNeedOrUsed
  <2>. QED
    BY <2>4, <2>6
<1>7. PICK m0 \in circle : \E k : StandsFor(k, m0, x)
  OBVIOUS
<1>8. PICK k : StandsFor(k, m0, x)
  BY <1>7
<1>9. PICK r : x = <<k, r>> /\ \E b, s, d : UsedTogether(k, r, b, s, m0, d)
  BY <1>6, <1>8
<1>. HIDE DEF X
<1>10. \A e, q : <<k, r>> = <<e, q>> => e = k /\ q = r
  OBVIOUS
<1>. DEFINE job == JobFor(RunsAsked(k)[r].use)
            runs == RunsIn(job)
            B == {b \in DOMAIN runs : \E m \in circle : StandsFor(k, m, x) /\ OfUsedRun(k, m, r, b)}
<1>11. RunsOf(RunsAsked(k)[r].use) = runs
  BY DEF RunsOf
<1>12. job \in PluginJob
  <2>1. k \in Charted(asked) /\ r \in UsingOf(RunsAsked(k))
    BY <1>8, <1>9 DEF StandsFor, SoughtOf, UsedTogether
  <2>. QED
    BY <2>1, RunsHaveNames
<1>13. B # {}
  BY <1>8, <1>9, <1>11 DEF UsedTogether
<1>. HIDE DEF job
<1>14. ASSUME NEW b \in B
       PROVE  \E s \in B : <<s>> \in runs[b].needs
  <2>1. PICK m \in circle : StandsFor(k, m, x) /\ OfUsedRun(k, m, r, b)
    OBVIOUS
  <2>2. PICK d \in circle : \E l, q, c, s :
          StandsFor(l, d, x) /\ x = <<k, q>> /\ UsedTogether(k, q, c, s, m, d)
    BY <1>6, <2>1
  <2>3. PICK l, q, c, s :
         StandsFor(l, d, x) /\ x = <<k, q>> /\ UsedTogether(k, q, c, s, m, d)
    BY <2>2
  <2>4. q = r
    BY <1>9, <1>10, <2>3
  <2>5. c = b
    <3>1. m.name = <<r, b>> /\ m.name = <<r, c>>
      BY <2>1, <2>3, <2>4 DEF UsedTogether, OfUsedRun
    <3>2. \A e, f : <<r, e>> = <<r, f>> => e = f
      OBVIOUS
    <3>. QED
      BY <3>1, <3>2
  <2>6. l = k
    <3>1. \E y : x = <<l>> \/ x = <<l, y>>
      BY <2>3 DEF StandsFor
    <3>2. \A e : <<k, r>> # <<e>>
      OBVIOUS
    <3>. QED
      BY <1>9, <1>10, <3>1, <3>2
  <2>7. s \in B /\ <<s>> \in runs[b].needs
    BY <1>11, <2>3, <2>4, <2>5, <2>6 DEF UsedTogether
  <2>. QED
    BY <2>7
<1>15. B \in SUBSET DOMAIN runs
  OBVIOUS
<1>. HIDE DEF B
<1>. QED
  BY <1>12, <1>13, <1>14, <1>15 DEF PlainJobs

\* What needs others and has no pods is of an entry that is left.
LEMMA NoPodsIs ==
  ASSUME PlainJobs, asked \in BuildScenarios, NoPods(Left(asked)) # {}
  PROVE  \E k \in Keys : NeedsWithoutPods(k)
<1>1. PICK m \in Left(asked) : Waitable(m) /\ m.needs # {} /\ m.kind \notin Templated
  BY DEF NoPods
<1>2. PICK k \in SoughtOf(asked) : m \in OfEntry(asked, k)
  BY <1>1, NeedyIs
<1>3. PICK kind \in KindsFor(asked, k) : m = OfKind(asked, k, kind)
  <2>1. \A c : OfRun(asked, k, c).kind \in Templated
    BY DEF OfRun, Made, Fields, Templated
  <2>. QED
    BY <1>1, <1>2, <2>1 DEF OfEntry
<1>4. m.kind = kind /\ m.needs = Entry(k).needs
  BY <1>3 DEF OfKind, Made, Fields, Entry
<1>5. kind \in WaitableOf(k)
  BY <1>1, <1>4 DEF WaitableOf, KindsFor, Waitable, Entry
<1>6. ~LeftAlone(k) \/ Entry(k).annotate
  BY <1>2, UnchangedIs DEF Left, OnChanged
<1>. QED
  BY <1>1, <1>2, <1>4, <1>5, <1>6, WantedIsSought DEF NeedsWithoutPods

\* The reasons a user can see are those of what is asked.
LEMMA ReasonOf ==
  ASSUME \/ step \in {"dependencies", "helm template"}
         \/ asked.spread = "waves" /\ CircleAsked
         \/ asked.spread = "init" /\ \E k \in Keys : NeedsWithoutPods(k)
         \/ \E p, q \in Built : p # q /\ Name(p) = Name(q)
         \/ \E x \in Asker : \E n \in AskedBy(x) : ~Answered(n)
         \/ \E k \in SoughtOf(asked) :
              \/ LeftAlone(k) /\ Entry(k).rule \notin {"", "unbind", "cascade"}
              \/ Missing(RunsAsked(k))
  PROVE  FailureHasReason
BY WantedIsSought DEF FailureHasReason

\* A build that is refused has a reason in what was asked.
LEMMA RefusedForReason ==
  ASSUME PlainJobs, BuildInv, RefusalInv
  PROVE  FailureHasReason
<1>. SUFFICES ASSUME outcome = "failed", asked.disabled = {}
              PROVE  FailureHasReason
  BY DEF FailureHasReason
<1>1. asked \in BuildScenarios
  BY DEF BuildInv
<1>2. CASE Unknown(PlacedFor(asked)) # {}
  BY <1>1, <1>2, UnknownIsMissing, ReasonOf
<1>3. CASE \E m \in Labelled(asked) : BadRule(m, asked.changed)
  BY <1>1, <1>3, BadRuleIs, ReasonOf
<1>4. CASE Unmet(Left(asked)) # {}
  BY <1>1, <1>4, UnmetIsUnanswered, ReasonOf
<1>5. CASE asked.spread = "waves" /\ Circular(Left(asked))
  BY <1>1, <1>5, CircularIsAsked, ReasonOf
<1>6. CASE Unmet(Remains(asked)) # {}
  BY <1>1, <1>6, UnmetIsUnanswered, ReasonOf
<1>7. CASE Duplicates(Remains(asked)) # {}
  BY <1>1, <1>7, DuplicatesAreCharts, ReasonOf
<1>8. CASE asked.spread = "init" /\ NoPods(Left(asked)) # {}
  BY <1>1, <1>8, NoPodsIs, ReasonOf
<1>9. CASE step \in {"dependencies", "helm template"}
  BY <1>9, ReasonOf
<1>. QED
  BY <1>2, <1>3, <1>4, <1>5, <1>6, <1>7, <1>8, <1>9 DEF RefusalInv

\* Refusal.  A build none of whose steps is disabled fails where a tool that it
\* calls does, or for a reason that the user can see in what was asked, needs of
\* what has no pods among them (05.1-needs-using-initcontainers.js:49): whatever
\* the charts, the plugins and their jobs are, when the jobs of the plugins use
\* no other job and go in no circle.
THEOREM RefusalsHaveReasons == ASSUME PlainJobs PROVE BuildSpec => []FailureHasReason
<1>1. BuildInv /\ RefusalInv => FailureHasReason
  BY RefusedForReason
<1>. QED
  BY <1>1, RefusalInvHolds, PTL

=============================================================================
