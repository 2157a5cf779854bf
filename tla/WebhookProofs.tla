---------------------------- MODULE WebhookProofs ---------------------------
(***************************************************************************)
(* For any number of hooks and followers of a branch: hooks that replace   *)
(* each other's Job never leave the branch without one, and a follower is  *)
(* told ok only about the commit it asked for.                             *)
(*                                                                         *)
(* The argument of the first: a hook that finds no Job where it looked for *)
(* one was overtaken by the delete of another hook, and that one still has *)
(* its own create before it (SomeoneCreates).  Of the second: a pod that   *)
(* runs is the pod of the Job the tail reads, and a pod that stopped was   *)
(* replaced (PodOfTheJob), so what a follower has seen of its commit stays *)
(* true until the tail finds the Job inactive (FollowersKnow).             *)
(*                                                                         *)
(* Before that, what the followers are told it with: the log stream and    *)
(* its client.  Last, which Job a request is about: those who follow it    *)
(* are led to that one.                                                    *)
(***************************************************************************)
EXTENDS PipelineJobs, PipelineRequest, LogStream, SequenceTheorems, WellFoundedInduction, TLAPS

-----------------------------------------------------------------------------
(* The stream of the log, whatever the job writes and wherever it is cut:   *)
(* the exit code is the service's word, and a stream that is not cut within *)
(* a write is understood.                                                   *)
(*                                                                          *)
(* The argument: currentLine is a stretch of the stream that begins with a  *)
(* line, or its beginning is lost and it says "undefined" (LineOK), so what *)
(* handleOut takes for the flag or the verdict are two tokens that lie side *)
(* by side on a line of their own: only the service's can be.  While the    *)
(* chunks are writes, nothing is held back where the flag and the verdict   *)
(* begin, so neither is missed (WholeOK).                                   *)

\* Where the lines of a stream are: a stretch from after b to e is within one
\* line, and begins with it.
Stretch(s, b, e) ==
  /\ b = 0 \/ s[b] = "nl"
  /\ \A i \in (b + 1)..e : s[i] # "nl"

\* currentLine is the line being received, unless its beginning is lost.
LineOK ==
  \/ line = <<"undefined">>
  \/ \E b \in 0..pos : Stretch(Stream(word), b, pos) /\ line = SubSeq(Stream(word), b + 1, pos)

\* As long as the chunks are writes, no line is cut that matters.
WholeOK ==
  whole =>
    /\ pos \in Writes
    /\ conn = "open" /\ pos \in {Len(Log), Len(Log) + 3} => line = <<>>
    /\ pos >= Len(Log) + 3 => finished
    /\ pos = Length => final = word

LogInv ==
  /\ LogTypeOK /\ WholeOK
  /\ conn = "open" => word \in Verdict /\ LineOK /\ (finished => pos >= Len(Log) + 2)
  /\ conn = "idle" => ~finished /\ attempt <= Retries
  /\ final # "none" => finished /\ pos = Length /\ final = word
  /\ exit = "0" => conn = "done" /\ finished /\ final = "ok"

-----------------------------------------------------------------------------
(* Numbers: a set of them has a least one, a bounded one a greatest.        *)

LEMMA Least ==
  ASSUME NEW T \in SUBSET Nat, T # {}
  PROVE  \E n \in T : \A m \in T : n <= m
<1>1. IsWellFoundedOn(OpToRel(<, Nat), Nat)
  BY NatLessThanWellFounded
<1>2. OpToRel(<, Nat) = {p \in Nat \X Nat : p[1] < p[2]}
  BY DEF OpToRel
<1>3. PICK n \in T : \A m \in T : ~(<<m, n>> \in OpToRel(<, Nat))
  BY <1>1, WFMin
<1>4. n \in T /\ \A m \in T : ~(m < n)
  BY <1>2, <1>3
<1>5. \A m \in T : n <= m
  BY <1>4
<1>. QED
  BY <1>4, <1>5

LEMMA Greatest ==
  ASSUME NEW n \in Nat, NEW T \in SUBSET (1..n), T # {}
  PROVE  \E m \in T : \A j \in T : j <= m
<1>1. \A i \in T : n - i \in Nat
  OBVIOUS
<1>2. PICK d \in {n - i : i \in T} : \A e \in {n - i : i \in T} : d <= e
  <2>1. {n - i : i \in T} \subseteq Nat
    BY <1>1
  <2>2. {n - i : i \in T} # {}
    OBVIOUS
  <2>. QED
    BY <2>1, <2>2, Least
<1>3. PICK m \in T : d = n - m
  BY <1>2
<1>4. \A j \in T : n - m <= n - j
  BY <1>2, <1>3
<1>. QED
  BY <1>3, <1>4

-----------------------------------------------------------------------------
(* A stream, a chunk of it and its parts.                                   *)

LEMMA Joined ==
  ASSUME NEW S, NEW s \in Seq(S), NEW t \in Seq(S)
  PROVE  /\ s \o t \in Seq(S) /\ Len(s \o t) = Len(s) + Len(t)
         /\ \A i \in 1..Len(s) : (s \o t)[i] = s[i]
         /\ \A i \in 1..Len(t) : (s \o t)[Len(s) + i] = t[i]
<1>1. /\ s \o t \in Seq(S) /\ Len(s \o t) = Len(s) + Len(t)
      /\ \A i \in 1..Len(s) + Len(t) :
           (s \o t)[i] = IF i <= Len(s) THEN s[i] ELSE t[i - Len(s)]
  BY ConcatProperties
<1>2. Len(s) \in Nat /\ Len(t) \in Nat
  OBVIOUS
<1>3. ASSUME NEW i \in 1..Len(s)
      PROVE  (s \o t)[i] = s[i]
  BY <1>1, <1>2
<1>4. ASSUME NEW i \in 1..Len(t)
      PROVE  (s \o t)[Len(s) + i] = t[i]
  <2>1. /\ Len(s) + i \in 1..Len(s) + Len(t) /\ ~(Len(s) + i <= Len(s))
        /\ Len(s) + i - Len(s) = i
    BY <1>2
  <2>. QED
    BY <1>1, <2>1
<1>. QED
  BY <1>1, <1>3, <1>4

LEMMA Adjacent ==
  ASSUME NEW S, NEW s \in Seq(S), NEW b \in Nat, NEW m \in Nat, NEW e \in Nat,
         b <= m, m <= e, e <= Len(s)
  PROVE  SubSeq(s, b + 1, m) \o SubSeq(s, m + 1, e) = SubSeq(s, b + 1, e)
<1>1. Len(s) \in Nat
  OBVIOUS
<1>2. b + 1 \in 1..Len(s) + 1 /\ m \in b + 1 - 1..Len(s) /\ e \in m..Len(s)
  BY <1>1
<1>. QED
  BY <1>2, ConcatAdjacentSubSeq

LEMMA StreamShape ==
  ASSUME NEW v \in Verdict
  PROVE  /\ Stream(v) \in Seq(Token) /\ Len(Stream(v)) = Length
         /\ Len(Log) \in Nat \ {0} /\ Length \in Nat /\ Length = Len(Log) + 5
         /\ \A i \in 1..Len(Log) : Stream(v)[i] = Log[i]
         /\ Stream(v)[Len(Log) + 1] = "KONTINUOUS" /\ Stream(v)[Len(Log) + 2] = "END"
         /\ Stream(v)[Len(Log) + 3] = "nl" /\ Stream(v)[Len(Log) + 4] = "state"
         /\ Stream(v)[Len(Log) + 5] = v
<1>0. /\ Log \in Seq(Token) /\ Flag \in Seq(Token) /\ <<"nl">> \in Seq(Token)
      /\ State(v) \in Seq(Token)
  BY LogStreamType DEF Flag, Token, State, Verdict
<1>1. /\ Len(Log) \in Nat \ {0}
      /\ Len(Flag) = 2 /\ Flag[1] = "KONTINUOUS" /\ Flag[2] = "END"
      /\ Len(State(v)) = 2 /\ State(v)[1] = "state" /\ State(v)[2] = v
  BY LogStreamType DEF Flag, Token, State, Verdict
<1>. DEFINE head == Log \o Flag
            most == head \o <<"nl">>
<1>2. /\ head \in Seq(Token) /\ Len(head) = Len(Log) + 2
      /\ \A i \in 1..Len(Log) : head[i] = Log[i]
      /\ \A i \in 1..2 : head[Len(Log) + i] = Flag[i]
  <2>1. /\ head \in Seq(Token) /\ Len(head) = Len(Log) + Len(Flag)
        /\ \A i \in 1..Len(Log) : head[i] = Log[i]
        /\ \A i \in 1..Len(Flag) : head[Len(Log) + i] = Flag[i]
    BY <1>0, Joined
  <2>. HIDE DEF head
  <2>. QED
    BY <1>1, <2>1
<1>3. /\ most \in Seq(Token) /\ Len(most) = Len(Log) + 3
      /\ \A i \in 1..Len(Log) + 2 : most[i] = head[i]
      /\ most[Len(Log) + 3] = "nl"
  <2>1. Len(<<"nl">>) = 1 /\ <<"nl">>[1] = "nl"
    OBVIOUS
  <2>. HIDE DEF head
  <2>2. /\ most \in Seq(Token) /\ Len(most) = Len(head) + Len(<<"nl">>)
        /\ \A i \in 1..Len(head) : most[i] = head[i]
        /\ \A i \in 1..Len(<<"nl">>) : most[Len(head) + i] = <<"nl">>[i]
    BY <1>0, <1>2, Joined
  <2>3. most[Len(Log) + 2 + 1] = "nl"
    BY <1>1, <1>2, <2>1, <2>2
  <2>. HIDE DEF most
  <2>. QED
    BY <1>1, <1>2, <2>1, <2>2, <2>3
<1>4. /\ Stream(v) \in Seq(Token) /\ Len(Stream(v)) = Len(Log) + 5
      /\ \A i \in 1..Len(Log) + 3 : Stream(v)[i] = most[i]
      /\ \A i \in 1..2 : Stream(v)[Len(Log) + 3 + i] = State(v)[i]
  <2>1. Stream(v) = most \o State(v)
    BY DEF Stream
  <2>. HIDE DEF most
  <2>0. most \in Seq(Token)
    BY <1>3
  <2>2. /\ most \o State(v) \in Seq(Token)
        /\ Len(most \o State(v)) = Len(most) + Len(State(v))
        /\ \A i \in 1..Len(most) : (most \o State(v))[i] = most[i]
        /\ \A i \in 1..Len(State(v)) : (most \o State(v))[Len(most) + i] = State(v)[i]
    BY <1>0, <2>0, Joined
  <2>. QED
    BY <1>1, <1>3, <2>1, <2>2
<1>. HIDE DEF head, most
<1>5. ASSUME NEW i \in 1..Len(Log)
      PROVE  Stream(v)[i] = Log[i]
  <2>1. i \in 1..Len(Log) + 2 /\ i \in 1..Len(Log) + 3
    BY <1>1
  <2>. QED
    BY <1>2, <1>3, <1>4, <2>1
<1>6. ASSUME NEW i \in 1..2
      PROVE  Stream(v)[Len(Log) + i] = Flag[i]
  <2>1. Len(Log) + i \in 1..Len(Log) + 2 /\ Len(Log) + i \in 1..Len(Log) + 3
    BY <1>1
  <2>. QED
    BY <1>2, <1>3, <1>4, <2>1
<1>7. Stream(v)[Len(Log) + 3] = "nl"
  <2>1. Len(Log) + 3 \in 1..Len(Log) + 3
    BY <1>1
  <2>. QED
    BY <1>3, <1>4, <2>1
<1>8. Stream(v)[Len(Log) + 4] = "state" /\ Stream(v)[Len(Log) + 5] = v
  <2>1. Len(Log) + 4 = Len(Log) + 3 + 1 /\ Len(Log) + 5 = Len(Log) + 3 + 2
    BY <1>1
  <2>. QED
    BY <1>1, <1>4, <2>1
<1>. QED
  BY <1>1, <1>4, <1>5, <1>6, <1>7, <1>8 DEF Length

Chunk(k) == SubSeq(Stream(word), pos + 1, k)

LEMMA ChunkShape ==
  ASSUME word \in Verdict, pos \in 0..Length, NEW k \in 1..Length, k > pos
  PROVE  /\ Chunk(k) \in Seq(Token) /\ Len(Chunk(k)) = k - pos /\ k - pos \in Nat \ {0}
         /\ \A i \in 1..k - pos : Chunk(k)[i] = Stream(word)[pos + i]
<1>1. /\ Stream(word) \in Seq(Token) /\ Len(Stream(word)) = Length
      /\ Length \in Nat
  BY StreamShape
<1>2. pos + 1 \in Int /\ k \in Int /\ k - (pos + 1) + 1 = k - pos
  BY <1>1
<1>3. \A i \in pos + 1..k : Stream(word)[i] \in Token
  BY <1>1, ElementOfSeq
<1>4. /\ Chunk(k) \in Seq(Token) /\ Len(Chunk(k)) = k - (pos + 1) + 1
      /\ \A i \in 1..k - (pos + 1) + 1 : Chunk(k)[i] = Stream(word)[pos + 1 + i - 1]
  BY <1>1, <1>2, <1>3, SubSeqProperties DEF Chunk
<1>. QED
  BY <1>1, <1>2, <1>4

LEMMA Inner ==
  ASSUME NEW S, NEW s \in Seq(S), NEW m \in Nat, NEW k \in Nat, m < k, k <= Len(s),
         NEW a \in 1..k - m + 1, NEW z \in 0..k - m, a <= z + 1
  PROVE  SubSeq(SubSeq(s, m + 1, k), a, z) = SubSeq(s, m + a, m + z)
<1>0. Len(s) \in Nat
  OBVIOUS
<1>1. CASE a <= z
  <2>1. /\ m + 1 \in 1..Len(s) /\ k \in 1..Len(s)
        /\ a \in 1..k - (m + 1) + 1 /\ z \in 1..k - (m + 1) + 1
        /\ m + 1 + a - 1 = m + a /\ m + 1 + z - 1 = m + z
    BY <1>0, <1>1
  <2>2. SubSeq(SubSeq(s, m + 1, k), a, z) = SubSeq(s, m + 1 + a - 1, m + 1 + z - 1)
    BY <2>1, SubSeqOfSubSeq
  <2>. QED
    BY <2>1, <2>2
<1>2. CASE a > z
  <2>1. /\ a \in Int /\ z \in Int /\ z < a
        /\ m + a \in Int /\ m + z \in Int /\ m + z < m + a
    BY <1>2
  <2>2. SubSeq(SubSeq(s, m + 1, k), a, z) = <<>> /\ SubSeq(s, m + a, m + z) = <<>>
    BY <2>1, SubSeqEmpty
  <2>. QED
    BY <2>2
<1>. QED
  BY <1>1, <1>2

\* A part of a chunk, with what currentLine adds to it, is a stretch of the
\* stream - or its beginning is lost.
LEMMA PartBounds ==
  ASSUME word \in Verdict, pos \in 0..Length, NEW k \in 1..Length, k > pos,
         NEW a, NEW z, <<a, z>> \in Parts(Chunk(k))
  PROVE  /\ a \in 1..k - pos + 1 /\ z \in 0..k - pos /\ a <= z + 1
         /\ a > 1 => Stream(word)[pos + a - 1] = "nl"
         /\ \A i \in pos + a..pos + z : Stream(word)[i] # "nl"
<1>1. /\ Len(Chunk(k)) = k - pos /\ k - pos \in Nat \ {0} /\ pos \in Nat /\ k \in Nat
      /\ \A i \in 1..k - pos : Chunk(k)[i] = Stream(word)[pos + i]
  BY ChunkShape, StreamShape
<1>2. /\ a \in 1..k - pos + 1 /\ z \in 0..k - pos /\ a <= z + 1
      /\ a > 1 => a - 1 \in 1..k - pos /\ Chunk(k)[a - 1] = "nl"
      /\ \A i \in a..z : Chunk(k)[i] # "nl"
  BY <1>1 DEF Parts, Newlines
<1>3. a > 1 => Stream(word)[pos + a - 1] = "nl"
  BY <1>1, <1>2
<1>4. ASSUME NEW i \in pos + a..pos + z
      PROVE  Stream(word)[i] # "nl"
  <2>1. i - pos \in a..z /\ i - pos \in 1..k - pos /\ pos + (i - pos) = i
    BY <1>1, <1>2
  <2>. QED
    BY <1>1, <1>2, <2>1
<1>. QED
  BY <1>2, <1>3, <1>4

LEMMA PartShape ==
  ASSUME word \in Verdict, pos \in 0..Length, LineOK,
         NEW k \in 1..Length, k > pos, NEW a, NEW z, <<a, z>> \in Parts(Chunk(k))
  PROVE  \/ a = 1 /\ \E t \in Seq(Token) : Text(Chunk(k), <<a, z>>) = <<"undefined">> \o t
         \/ \E b \in 0..pos + z :
              /\ Stretch(Stream(word), b, pos + z)
              /\ Text(Chunk(k), <<a, z>>) = SubSeq(Stream(word), b + 1, pos + z)
              /\ a > 1 => b = pos + a - 1
<1>1. /\ Stream(word) \in Seq(Token) /\ Len(Stream(word)) = Length
      /\ pos \in Nat /\ k \in Nat /\ Length \in Nat
  BY StreamShape
<1>2. /\ a \in 1..k - pos + 1 /\ z \in 0..k - pos /\ a <= z + 1
      /\ a > 1 => Stream(word)[pos + a - 1] = "nl"
      /\ \A i \in pos + a..pos + z : Stream(word)[i] # "nl"
  BY PartBounds
<1>3. SubSeq(Chunk(k), a, z) = SubSeq(Stream(word), pos + a, pos + z)
  BY <1>1, <1>2, Inner DEF Chunk
<1>4. SubSeq(Chunk(k), a, z) \in Seq(Token)
  <2>1. \A i \in a..z : Chunk(k)[i] \in Token
    BY <1>2, ChunkShape, ElementOfSeq
  <2>. QED
    BY <1>2, <2>1, SubSeqProperties
<1>5. CASE a > 1
  <2>1. Text(Chunk(k), <<a, z>>) = <<>> \o SubSeq(Chunk(k), a, z)
    <3>1. a # 1
      BY <1>1, <1>2, <1>5
    <3>. QED
      BY <3>1 DEF Text
  <2>2. Text(Chunk(k), <<a, z>>) = SubSeq(Stream(word), pos + a, pos + z)
    BY <1>3, <1>4, <2>1, ConcatEmptySeq
  <2>3. pos + a - 1 \in 0..pos + z /\ pos + a - 1 + 1 = pos + a
    BY <1>1, <1>2, <1>5
  <2>4. Stretch(Stream(word), pos + a - 1, pos + z)
    BY <1>2, <1>5, <2>3 DEF Stretch
  <2>. QED
    BY <2>2, <2>3, <2>4
<1>6. CASE a = 1
  <2>1. Text(Chunk(k), <<a, z>>) = line \o SubSeq(Chunk(k), a, z)
    BY <1>6 DEF Text
  <2>2. CASE line = <<"undefined">>
    BY <1>4, <1>6, <2>1, <2>2
  <2>3. CASE \E b \in 0..pos : /\ Stretch(Stream(word), b, pos)
                               /\ line = SubSeq(Stream(word), b + 1, pos)
    <3>1. PICK b \in 0..pos : /\ Stretch(Stream(word), b, pos)
                              /\ line = SubSeq(Stream(word), b + 1, pos)
      BY <2>3
    <3>2. /\ b \in Nat /\ pos + z \in Nat /\ b <= pos /\ pos <= pos + z
          /\ pos + z <= Len(Stream(word)) /\ b \in 0..pos + z
      BY <1>1, <1>2, <3>1
    <3>3. Text(Chunk(k), <<a, z>>) = SubSeq(Stream(word), b + 1, pos + z)
      <4>1. SubSeq(Stream(word), b + 1, pos) \o SubSeq(Stream(word), pos + 1, pos + z)
              = SubSeq(Stream(word), b + 1, pos + z)
        BY <1>1, <3>2, Adjacent
      <4>2. SubSeq(Chunk(k), a, z) = SubSeq(Stream(word), pos + 1, pos + z)
        BY <1>3, <1>6
      <4>. QED
        BY <2>1, <3>1, <4>1, <4>2
    <3>4. Stretch(Stream(word), b, pos + z)
      <4>. SUFFICES ASSUME NEW i \in b + 1..pos + z
                    PROVE  Stream(word)[i] # "nl"
        BY <3>1 DEF Stretch
      <4>1. i \in b + 1..pos \/ i \in pos + a..pos + z
        BY <1>1, <1>2, <1>6, <3>1
      <4>. QED
        BY <1>2, <3>1, <4>1 DEF Stretch
    <3>5. ~(a > 1)
      BY <1>6
    <3>. QED
      BY <3>2, <3>3, <3>4, <3>5
  <2>. QED
    BY <2>2, <2>3 DEF LineOK
<1>7. a = 1 \/ a > 1
  BY <1>1, <1>2
<1>. QED
  BY <1>5, <1>6, <1>7

\* A piece of the stream, element by element.
LEMMA Piece ==
  ASSUME word \in Verdict, NEW b \in Nat, NEW e \in Nat, b <= e, e <= Length
  PROVE  /\ SubSeq(Stream(word), b + 1, e) \in Seq(Token)
         /\ Len(SubSeq(Stream(word), b + 1, e)) = e - b
         /\ \A i \in 1..e - b : SubSeq(Stream(word), b + 1, e)[i] = Stream(word)[b + i]
<1>1. /\ Stream(word) \in Seq(Token) /\ Len(Stream(word)) = Length /\ Length \in Nat
  BY StreamShape
<1>2. \A i \in b + 1..e : Stream(word)[i] \in Token
  BY <1>1, ElementOfSeq
<1>3. b + 1 \in Int /\ e \in Int
  OBVIOUS
<1>4. /\ SubSeq(Stream(word), b + 1, e) \in Seq(Token)
      /\ Len(SubSeq(Stream(word), b + 1, e)) = IF b + 1 <= e THEN e - (b + 1) + 1 ELSE 0
      /\ \A i \in 1..e - (b + 1) + 1 :
           SubSeq(Stream(word), b + 1, e)[i] = Stream(word)[b + 1 + i - 1]
  BY <1>2, <1>3, SubSeqProperties
<1>5. /\ e - b = IF b + 1 <= e THEN e - (b + 1) + 1 ELSE 0
      /\ \A i \in 1..e - b : i \in 1..e - (b + 1) + 1 /\ b + 1 + i - 1 = b + i
  OBVIOUS
<1>. QED
  BY <1>4, <1>5

\* A text of two tokens is two tokens of the stream that lie side by side.
LEMMA PairShape ==
  ASSUME word \in Verdict, pos \in 0..Length, LineOK,
         NEW k \in 1..Length, k > pos, NEW a, NEW z, <<a, z>> \in Parts(Chunk(k)),
         NEW x, NEW y, x # "undefined", Text(Chunk(k), <<a, z>>) = <<x, y>>
  PROVE  \E b \in Nat : /\ b + 2 = pos + z /\ b + 2 <= Length
                        /\ Stream(word)[b + 1] = x /\ Stream(word)[b + 2] = y
<1>1. /\ a \in 1..k - pos + 1 /\ z \in 0..k - pos /\ Length \in Nat
  BY PartBounds, StreamShape
<1>2. ~(\E t \in Seq(Token) : <<x, y>> = <<"undefined">> \o t)
  <2>. SUFFICES ASSUME NEW t \in Seq(Token), <<x, y>> = <<"undefined">> \o t
                PROVE  FALSE
    OBVIOUS
  <2>. DEFINE All == Token \union {"undefined"}
  <2>1. <<"undefined">> \in Seq(All) /\ t \in Seq(All)
    OBVIOUS
  <2>. HIDE DEF All
  <2>2. \A i \in 1..Len(<<"undefined">>) : (<<"undefined">> \o t)[i] = <<"undefined">>[i]
    BY <2>1, Joined
  <2>3. (<<"undefined">> \o t)[1] = "undefined"
    BY <2>2
  <2>4. <<x, y>>[1] = x
    OBVIOUS
  <2>. QED
    BY <2>3, <2>4
<1>3. \/ \E t \in Seq(Token) : Text(Chunk(k), <<a, z>>) = <<"undefined">> \o t
      \/ \E b \in 0..pos + z : Text(Chunk(k), <<a, z>>) = SubSeq(Stream(word), b + 1, pos + z)
  BY PartShape
<1>4. PICK b \in 0..pos + z : <<x, y>> = SubSeq(Stream(word), b + 1, pos + z)
  BY <1>2, <1>3
<1>5. PICK e \in Nat : e = pos + z
  BY <1>1
<1>6. b \in Nat /\ b <= e /\ e <= Length
  BY <1>1, <1>4, <1>5
<1>7. /\ Len(SubSeq(Stream(word), b + 1, e)) = e - b
      /\ \A i \in 1..e - b : SubSeq(Stream(word), b + 1, e)[i] = Stream(word)[b + i]
  BY <1>6, Piece
<1>8. /\ Len(<<x, y>>) = e - b
      /\ \A i \in 1..e - b : <<x, y>>[i] = Stream(word)[b + i]
  BY <1>4, <1>5, <1>7
<1>9. Len(<<x, y>>) = 2 /\ <<x, y>>[1] = x /\ <<x, y>>[2] = y
  OBVIOUS
<1>10. e - b = 2
  BY <1>8, <1>9
<1>11. Stream(word)[b + 1] = x /\ Stream(word)[b + 2] = y
  BY <1>8, <1>9, <1>10
<1>12. b + 2 = pos + z /\ b + 2 <= Length
  BY <1>5, <1>6, <1>10
<1>. QED
  BY <1>6, <1>11, <1>12

\* The only flag is the service's.
LEMMA FlagPart ==
  ASSUME word \in Verdict, pos \in 0..Length, LineOK,
         NEW k \in 1..Length, k > pos, NEW a, NEW z, <<a, z>> \in Parts(Chunk(k)),
         Text(Chunk(k), <<a, z>>) = Flag
  PROVE  pos + z = Len(Log) + 2
<1>1. PICK b \in Nat : /\ b + 2 = pos + z /\ b + 2 <= Length
                       /\ Stream(word)[b + 1] = "KONTINUOUS" /\ Stream(word)[b + 2] = "END"
  BY PairShape DEF Flag
<1>2. /\ Len(Log) \in Nat \ {0} /\ Length = Len(Log) + 5
      /\ \A i \in 1..Len(Log) : Stream(word)[i] = Log[i]
      /\ Stream(word)[Len(Log) + 2] = "END"
      /\ Stream(word)[Len(Log) + 3] = "nl" /\ Stream(word)[Len(Log) + 4] = "state"
  BY StreamShape
<1>3. b + 1 \notin 1..Len(Log)
  <2>1. CASE b + 1 = Len(Log)
    BY <1>1, <1>2, <2>1, LogStreamType
  <2>2. CASE b + 1 \in 1..Len(Log) - 1
    <3>1. Log[b + 1] = "KONTINUOUS" /\ Log[b + 1 + 1] = "END"
      BY <1>1, <1>2, <2>2
    <3>. QED
      BY <2>2, <3>1, LogStreamType
  <2>. QED
    BY <1>2, <2>1, <2>2
<1>4. b + 1 \notin {Len(Log) + 2, Len(Log) + 3, Len(Log) + 4}
  BY <1>1, <1>2
<1>5. b + 1 = Len(Log) + 1
  BY <1>1, <1>2, <1>3, <1>4
<1>. QED
  BY <1>1, <1>2, <1>5

\* After the flag the only verdict is the service's, at the end.
LEMMA VerdictPart ==
  ASSUME word \in Verdict, pos \in 0..Length, LineOK,
         NEW k \in 1..Length, k > pos, NEW a, NEW z, <<a, z>> \in Parts(Chunk(k)),
         NEW v \in Verdict, Text(Chunk(k), <<a, z>>) = State(v),
         pos + a - 1 >= Len(Log) + 2
  PROVE  k = Length /\ v = word
<1>1. PICK b \in Nat : /\ b + 2 = pos + z /\ b + 2 <= Length
                       /\ Stream(word)[b + 1] = "state" /\ Stream(word)[b + 2] = v
  BY PairShape DEF State
<1>2. /\ Len(Log) \in Nat \ {0} /\ Length = Len(Log) + 5
      /\ Stream(word)[Len(Log) + 1] = "KONTINUOUS" /\ Stream(word)[Len(Log) + 2] = "END"
      /\ Stream(word)[Len(Log) + 3] = "nl" /\ Stream(word)[Len(Log) + 5] = word
  BY StreamShape
<1>3. /\ a \in 1..k - pos + 1 /\ z \in 0..k - pos /\ a <= z + 1
  BY PartBounds
<1>4. b + 1 \in Len(Log) + 1..Len(Log) + 4
  BY <1>1, <1>2, <1>3
<1>5. b + 1 \notin {Len(Log) + 1, Len(Log) + 2, Len(Log) + 3}
  BY <1>1, <1>2
<1>6. b + 1 = Len(Log) + 4
  BY <1>1, <1>2, <1>4, <1>5
<1>. QED
  BY <1>1, <1>2, <1>3, <1>6

LEMMA PartsArePairs ==
  ASSUME NEW chunk, NEW p \in Parts(chunk)
  PROVE  p = <<p[1], p[2]>>
BY DEF Parts

LEMMA FlagsShape ==
  ASSUME word \in Verdict, pos \in 0..Length, LineOK,
         NEW k \in 1..Length, k > pos, NEW f \in Flags(Chunk(k))
  PROVE  pos + f[2] = Len(Log) + 2 /\ f[2] \in 0..k - pos
<1>1. f \in Parts(Chunk(k)) /\ Text(Chunk(k), f) = Flag
  BY DEF Flags
<1>2. f = <<f[1], f[2]>>
  BY <1>1, PartsArePairs
<1>3. <<f[1], f[2]>> \in Parts(Chunk(k)) /\ Text(Chunk(k), <<f[1], f[2]>>) = Flag
  BY <1>1, <1>2
<1>. QED
  BY <1>3, FlagPart, PartBounds

LEMMA HeardShape ==
  ASSUME word \in Verdict, pos \in 0..Length, LineOK, finished => pos >= Len(Log) + 2,
         NEW k \in 1..Length, k > pos, NEW v \in Heard(Chunk(k))
  PROVE  /\ k = Length /\ v = word
         /\ finished \/ Flags(Chunk(k)) # {}
<1>1. PICK p \in Parts(Chunk(k)) :
        /\ Text(Chunk(k), p) = State(v)
        /\ finished \/ \E f \in Flags(Chunk(k)) : f[2] < p[1]
  BY DEF Heard
<1>2. v \in Verdict
  BY DEF Heard
<1>3. p = <<p[1], p[2]>>
  BY <1>1, PartsArePairs
<1>4. <<p[1], p[2]>> \in Parts(Chunk(k)) /\ Text(Chunk(k), <<p[1], p[2]>>) = State(v)
  BY <1>1, <1>3
<1>5. Len(Log) \in Nat /\ Length \in Nat /\ p[1] \in 1..k - pos + 1
  BY <1>4, PartBounds, StreamShape
<1>6. CASE finished
  <2>1. pos + p[1] - 1 >= Len(Log) + 2
    BY <1>5, <1>6
  <2>. QED
    BY <1>2, <1>4, <1>6, <2>1, VerdictPart
<1>7. CASE \E f \in Flags(Chunk(k)) : f[2] < p[1]
  <2>1. PICK f \in Flags(Chunk(k)) : f[2] < p[1]
    BY <1>7
  <2>2. pos + f[2] = Len(Log) + 2 /\ f[2] \in 0..k - pos
    BY <2>1, FlagsShape
  <2>3. pos + p[1] - 1 >= Len(Log) + 2
    BY <1>5, <2>1, <2>2
  <2>. QED
    BY <1>2, <1>4, <2>1, <2>3, VerdictPart
<1>. QED
  BY <1>1, <1>6, <1>7

-----------------------------------------------------------------------------
(* What is left of a chunk in currentLine.                                  *)

LEMMA LineAfterShape ==
  ASSUME word \in Verdict, pos \in 0..Length, NEW k \in 1..Length, k > pos
  PROVE  /\ \/ LineAfter(Chunk(k)) = <<"undefined">>
            \/ \E b \in 0..k : /\ Stretch(Stream(word), b, k)
                               /\ LineAfter(Chunk(k)) = SubSeq(Stream(word), b + 1, k)
         /\ Stream(word)[k] = "nl" => LineAfter(Chunk(k)) = <<>>
<1>1. /\ Len(Chunk(k)) = k - pos /\ k - pos \in Nat \ {0} /\ pos \in Nat /\ k \in Nat
      /\ \A i \in 1..k - pos : Chunk(k)[i] = Stream(word)[pos + i]
      /\ Stream(word) \in Seq(Token) /\ Len(Stream(word)) = Length /\ Length \in Nat
  BY ChunkShape, StreamShape
<1>2. Newlines(Chunk(k)) = {i \in 1..k - pos : Stream(word)[pos + i] = "nl"}
  BY <1>1 DEF Newlines
<1>3. CASE Newlines(Chunk(k)) = {}
  <2>1. LineAfter(Chunk(k)) = <<"undefined">>
    BY <1>3 DEF LineAfter
  <2>2. k - pos \in 1..k - pos /\ pos + (k - pos) = k
    BY <1>1
  <2>3. Stream(word)[k] # "nl"
    BY <1>2, <1>3, <2>2
  <2>. QED
    BY <2>1, <2>3
<1>4. CASE Newlines(Chunk(k)) # {}
  <2>. DEFINE last == CHOOSE i \in Newlines(Chunk(k)) : \A j \in Newlines(Chunk(k)) : j <= i
  <2>1. \E m \in Newlines(Chunk(k)) : \A j \in Newlines(Chunk(k)) : j <= m
    <3>1. Newlines(Chunk(k)) \in SUBSET (1..k - pos) /\ k - pos \in Nat
      BY <1>1, <1>2
    <3>. QED
      BY <1>4, <3>1, Greatest
  <2>2. last \in Newlines(Chunk(k)) /\ \A j \in Newlines(Chunk(k)) : j <= last
    BY <2>1
  <2>3. LineAfter(Chunk(k)) = SubSeq(Chunk(k), last + 1, k - pos)
    BY <1>1, <1>4 DEF LineAfter
  <2>. HIDE DEF last
  <2>4. last \in 1..k - pos /\ Stream(word)[pos + last] = "nl"
    BY <1>2, <2>2
  <2>5. /\ last + 1 \in 1..k - pos + 1 /\ k - pos \in 0..k - pos /\ last + 1 <= k - pos + 1
        /\ pos < k /\ k <= Length /\ pos + (k - pos) = k /\ pos + (last + 1) = pos + last + 1
    BY <1>1, <2>4
  <2>6. SubSeq(Chunk(k), last + 1, k - pos)
          = SubSeq(Stream(word), pos + (last + 1), pos + (k - pos))
    <3>1. pos \in Nat /\ k \in Nat /\ Stream(word) \in Seq(Token) /\ k <= Len(Stream(word))
      BY <1>1, <2>5
    <3>. QED
      BY <2>5, <3>1, Inner DEF Chunk
  <2>7. LineAfter(Chunk(k)) = SubSeq(Stream(word), pos + last + 1, k)
    BY <2>3, <2>5, <2>6
  <2>8. Stretch(Stream(word), pos + last, k)
    <3>. SUFFICES ASSUME NEW i \in pos + last + 1..k, Stream(word)[i] = "nl"
                  PROVE  FALSE
      BY <2>4 DEF Stretch
    <3>1. i - pos \in 1..k - pos /\ pos + (i - pos) = i /\ ~(i - pos <= last)
      BY <1>1, <2>4
    <3>. QED
      BY <1>2, <2>2, <3>1
  <2>9. pos + last \in 0..k
    BY <1>1, <2>4
  <2>10. Stream(word)[k] = "nl" => LineAfter(Chunk(k)) = <<>>
    <3>. SUFFICES ASSUME Stream(word)[k] = "nl"
                  PROVE  LineAfter(Chunk(k)) = <<>>
      OBVIOUS
    <3>1. k - pos \in 1..k - pos /\ pos + (k - pos) = k
      BY <1>1
    <3>2. k - pos <= last
      BY <1>2, <2>2, <3>1
    <3>3. pos + last + 1 \in Int /\ k \in Int /\ k < pos + last + 1
      BY <1>1, <2>4, <3>2
    <3>. QED
      BY <2>7, <3>3, SubSeqEmpty
  <2>. QED
    BY <2>7, <2>8, <2>9, <2>10
<1>. QED
  BY <1>3, <1>4

-----------------------------------------------------------------------------
(* Chunks that are writes.                                                  *)

\* A line of the stream, its newline or the end of the chunk included, is a
\* part of the chunk it is in.
LEMMA LineIsPart ==
  ASSUME word \in Verdict, pos \in 0..Length, NEW k \in 1..Length, k > pos,
         NEW b \in pos..k, NEW e \in b..k,
         Stretch(Stream(word), b, e), e = k \/ Stream(word)[e + 1] = "nl",
         b = pos => line = <<>>, b > 0
  PROVE  /\ <<b - pos + 1, e - pos>> \in Parts(Chunk(k))
         /\ Text(Chunk(k), <<b - pos + 1, e - pos>>) = SubSeq(Stream(word), b + 1, e)
<1>1. /\ Len(Chunk(k)) = k - pos /\ k - pos \in Nat \ {0} /\ pos \in Nat /\ k \in Nat
      /\ \A i \in 1..k - pos : Chunk(k)[i] = Stream(word)[pos + i]
      /\ Stream(word) \in Seq(Token) /\ Len(Stream(word)) = Length /\ Length \in Nat
  BY ChunkShape, StreamShape
<1>2. b \in Nat /\ e \in Nat
  BY <1>1
<1>3. Newlines(Chunk(k)) = {i \in 1..k - pos : Stream(word)[pos + i] = "nl"}
  BY <1>1 DEF Newlines
<1>4. b - pos + 1 \in {1} \union {i + 1 : i \in Newlines(Chunk(k))}
  <2>1. CASE b = pos
    BY <1>1, <2>1
  <2>2. CASE b > pos
    <3>1. b - pos \in 1..k - pos /\ pos + (b - pos) = b
      BY <1>1, <1>2, <2>2
    <3>2. Stream(word)[b] = "nl"
      BY DEF Stretch
    <3>3. b - pos \in Newlines(Chunk(k))
      BY <1>3, <3>1, <3>2
    <3>. QED
      BY <3>3
  <2>. QED
    BY <1>1, <1>2, <2>1, <2>2
<1>5. e - pos \in {Len(Chunk(k))} \union {i - 1 : i \in Newlines(Chunk(k))}
  <2>1. CASE e = k
    BY <1>1, <2>1
  <2>2. CASE e # k /\ Stream(word)[e + 1] = "nl"
    <3>1. e + 1 - pos \in 1..k - pos /\ pos + (e + 1 - pos) = e + 1 /\ e - pos = e + 1 - pos - 1
      BY <1>1, <1>2, <2>2
    <3>2. e + 1 - pos \in Newlines(Chunk(k))
      BY <1>3, <2>2, <3>1
    <3>. QED
      BY <3>1, <3>2
  <2>. QED
    BY <2>1, <2>2
<1>6. ASSUME NEW i \in Newlines(Chunk(k)), i \in b - pos + 1..e - pos
      PROVE  FALSE
  <2>1. pos + i \in b + 1..e /\ Stream(word)[pos + i] = "nl"
    BY <1>1, <1>2, <1>3, <1>6
  <2>. QED
    BY <2>1 DEF Stretch
<1>7. <<b - pos + 1, e - pos>> \in Parts(Chunk(k))
  <2>1. b - pos + 1 <= e - pos + 1
    BY <1>1, <1>2
  <2>2. PICK x : x = b - pos + 1
    OBVIOUS
  <2>3. PICK y : y = e - pos
    OBVIOUS
  <2>4. /\ x \in {1} \union {i + 1 : i \in Newlines(Chunk(k))}
        /\ y \in {Len(Chunk(k))} \union {i - 1 : i \in Newlines(Chunk(k))}
        /\ x <= y + 1 /\ \A i \in Newlines(Chunk(k)) : i \notin x..y
    BY <1>4, <1>5, <1>6, <2>1, <2>2, <2>3
  <2>5. <<x, y>> \in Parts(Chunk(k))
    BY <2>4 DEF Parts
  <2>. QED
    BY <2>2, <2>3, <2>5
<1>8. SubSeq(Chunk(k), b - pos + 1, e - pos) = SubSeq(Stream(word), b + 1, e)
  <2>1. /\ b - pos + 1 \in 1..k - pos + 1 /\ e - pos \in 0..k - pos
        /\ b - pos + 1 <= e - pos + 1 /\ k <= Len(Stream(word))
    BY <1>1, <1>2
  <2>2. pos + (b - pos + 1) = b + 1 /\ pos + (e - pos) = e
    BY <1>1, <1>2
  <2>3. pos \in Nat /\ k \in Nat /\ Stream(word) \in Seq(Token)
    BY <1>1
  <2>4. SubSeq(Chunk(k), b - pos + 1, e - pos)
          = SubSeq(Stream(word), pos + (b - pos + 1), pos + (e - pos))
    BY <2>1, <2>3, Inner DEF Chunk
  <2>. QED
    BY <2>2, <2>4
<1>9. Text(Chunk(k), <<b - pos + 1, e - pos>>) = <<>> \o SubSeq(Stream(word), b + 1, e)
  <2>1. b - pos + 1 = 1 => line = <<>>
    BY <1>1, <1>2
  <2>. QED
    BY <1>8, <2>1 DEF Text
<1>10. SubSeq(Stream(word), b + 1, e) \in Seq(Token)
  <2>1. b <= e /\ e <= Length
    BY <1>1, <1>2
  <2>. QED
    BY <1>2, <2>1, Piece
<1>. QED
  BY <1>7, <1>9, <1>10, ConcatEmptySeq

\* Two tokens of the stream that lie side by side are the pair of them.
LEMMA PairIs ==
  ASSUME word \in Verdict, NEW b \in Nat, b + 2 <= Length
  PROVE  SubSeq(Stream(word), b + 1, b + 2) = <<Stream(word)[b + 1], Stream(word)[b + 2]>>
<1>. DEFINE s == SubSeq(Stream(word), b + 1, b + 2)
            t == <<Stream(word)[b + 1], Stream(word)[b + 2]>>
<1>1. b <= b + 2 /\ b + 2 \in Nat /\ b + 2 - b = 2
  OBVIOUS
<1>2. s \in Seq(Token) /\ Len(s) = 2 /\ \A i \in 1..2 : s[i] = Stream(word)[b + i]
  <2>1. /\ s \in Seq(Token) /\ Len(s) = b + 2 - b
        /\ \A i \in 1..b + 2 - b : s[i] = Stream(word)[b + i]
    BY <1>1, Piece
  <2>. HIDE DEF s
  <2>. QED
    BY <1>1, <2>1
<1>3. b + 1 \in 1..Len(Stream(word)) /\ b + 2 \in 1..Len(Stream(word))
      /\ Stream(word) \in Seq(Token)
  BY StreamShape
<1>4. Stream(word)[b + 1] \in Token /\ Stream(word)[b + 2] \in Token
  BY <1>3, ElementOfSeq
<1>5. t \in Seq(Token) /\ Len(t) = 2 /\ t[1] = Stream(word)[b + 1] /\ t[2] = Stream(word)[b + 2]
  BY <1>4
<1>. HIDE DEF s, t
<1>6. \A i \in 1..Len(s) : s[i] = t[i]
  BY <1>2, <1>5
<1>7. s = t
  BY <1>2, <1>5, <1>6, SeqEqual
<1>. QED
  BY <1>7 DEF s, t

\* A chunk with the line of the flag has the flag.
LEMMA FlagIsSeen ==
  ASSUME word \in Verdict, pos \in 0..Length, NEW k \in 1..Length, k > pos,
         pos <= Len(Log), k >= Len(Log) + 3, pos = Len(Log) => line = <<>>
  PROVE  \E f \in Flags(Chunk(k)) : f[2] = Len(Log) + 2 - pos
<1>1. /\ Len(Log) \in Nat \ {0} /\ Length \in Nat
      /\ \A i \in 1..Len(Log) : Stream(word)[i] = Log[i]
      /\ Stream(word)[Len(Log) + 1] = "KONTINUOUS" /\ Stream(word)[Len(Log) + 2] = "END"
      /\ Stream(word)[Len(Log) + 3] = "nl"
  BY StreamShape
<1>2. /\ Len(Log) \in pos..k /\ Len(Log) + 2 \in Len(Log)..k /\ Len(Log) > 0
      /\ Len(Log) + 2 + 1 = Len(Log) + 3 /\ Len(Log) + 2 <= Length
  BY <1>1
<1>3. Stretch(Stream(word), Len(Log), Len(Log) + 2)
  <2>1. Stream(word)[Len(Log)] = "nl"
    BY <1>1, LogStreamType
  <2>2. \A i \in Len(Log) + 1..Len(Log) + 2 : i = Len(Log) + 1 \/ i = Len(Log) + 2
    BY <1>1
  <2>. QED
    BY <1>1, <2>1, <2>2 DEF Stretch
<1>. DEFINE f == <<Len(Log) - pos + 1, Len(Log) + 2 - pos>>
<1>4. f \in Parts(Chunk(k)) /\ Text(Chunk(k), f) = SubSeq(Stream(word), Len(Log) + 1, Len(Log) + 2)
  <2>1. PICK b : b = Len(Log)
    OBVIOUS
  <2>2. PICK e : e = Len(Log) + 2
    OBVIOUS
  <2>3. b \in pos..k /\ e \in b..k /\ b > 0
    BY <1>2, <2>1, <2>2
  <2>4. Stretch(Stream(word), b, e)
    BY <1>3, <2>1, <2>2
  <2>5. Stream(word)[e + 1] = "nl"
    BY <1>1, <1>2, <2>2
  <2>6. b = pos => line = <<>>
    BY <2>1
  <2>7. /\ <<b - pos + 1, e - pos>> \in Parts(Chunk(k))
        /\ Text(Chunk(k), <<b - pos + 1, e - pos>>) = SubSeq(Stream(word), b + 1, e)
    BY <2>3, <2>4, <2>5, <2>6, LineIsPart
  <2>. QED
    BY <2>1, <2>2, <2>7
<1>5. SubSeq(Stream(word), Len(Log) + 1, Len(Log) + 2) = Flag
  <2>1. Len(Log) \in Nat
    BY <1>1
  <2>. QED
    BY <1>1, <1>2, <2>1, PairIs DEF Flag
<1>6. f \in Flags(Chunk(k))
  BY <1>4, <1>5 DEF Flags
<1>7. f[2] = Len(Log) + 2 - pos
  OBVIOUS
<1>. QED
  BY <1>6, <1>7

\* A chunk with the verdict has it heard.
LEMMA VerdictIsHeard ==
  ASSUME word \in Verdict, pos \in 0..Length, Length > pos,
         \/ pos = Len(Log) + 3 /\ line = <<>> /\ finished
         \/ pos <= Len(Log) /\ (pos = Len(Log) => line = <<>>)
  PROVE  word \in Heard(Chunk(Length))
<1>1. /\ Len(Log) \in Nat \ {0} /\ Length \in Nat /\ Length = Len(Log) + 5
      /\ Stream(word)[Len(Log) + 3] = "nl" /\ Stream(word)[Len(Log) + 4] = "state"
      /\ Stream(word)[Len(Log) + 5] = word
  BY StreamShape
<1>2. /\ Len(Log) + 3 \in pos..Length /\ Length \in Len(Log) + 3..Length /\ Len(Log) + 3 > 0
      /\ Len(Log) + 3 + 1 = Len(Log) + 4 /\ Len(Log) + 3 + 2 = Len(Log) + 5
      /\ Len(Log) + 3 + 2 <= Length /\ Len(Log) + 3 \in Nat /\ Length \in 1..Length
      /\ Len(Log) + 3 - pos + 1 > Len(Log) + 2 - pos
      /\ Length >= Len(Log) + 3 /\ (Len(Log) + 3 = pos => line = <<>>)
  BY <1>1
<1>3. word # "nl"
  BY DEF Verdict
<1>4. Stretch(Stream(word), Len(Log) + 3, Length)
  <2>1. \A i \in Len(Log) + 3 + 1..Length : i = Len(Log) + 4 \/ i = Len(Log) + 5
    BY <1>1
  <2>. QED
    BY <1>1, <1>3, <2>1 DEF Stretch
<1>. DEFINE p == <<Len(Log) + 3 - pos + 1, Length - pos>>
<1>5. p \in Parts(Chunk(Length))
      /\ Text(Chunk(Length), p) = SubSeq(Stream(word), Len(Log) + 3 + 1, Length)
  <2>1. PICK b : b = Len(Log) + 3
    OBVIOUS
  <2>2. PICK k : k = Length
    OBVIOUS
  <2>3. b \in pos..k /\ k \in b..k /\ b > 0 /\ k \in 1..Length /\ k > pos
    BY <1>2, <2>1, <2>2
  <2>4. Stretch(Stream(word), b, k)
    BY <1>4, <2>1, <2>2
  <2>6. b = pos => line = <<>>
    BY <1>2, <2>1
  <2>7. /\ <<b - pos + 1, k - pos>> \in Parts(Chunk(k))
        /\ Text(Chunk(k), <<b - pos + 1, k - pos>>) = SubSeq(Stream(word), b + 1, k)
    BY <2>3, <2>4, <2>6, LineIsPart
  <2>. QED
    BY <2>1, <2>2, <2>7
<1>6. SubSeq(Stream(word), Len(Log) + 3 + 1, Length) = State(word)
  <2>1. SubSeq(Stream(word), Len(Log) + 3 + 1, Len(Log) + 3 + 2)
          = <<Stream(word)[Len(Log) + 3 + 1], Stream(word)[Len(Log) + 3 + 2]>>
    BY <1>2, PairIs
  <2>. QED
    BY <1>1, <1>2, <2>1 DEF State
<1>7. finished \/ \E f \in Flags(Chunk(Length)) : f[2] < p[1]
  <2>1. CASE pos <= Len(Log) /\ (pos = Len(Log) => line = <<>>)
    <3>1. PICK f \in Flags(Chunk(Length)) : f[2] = Len(Log) + 2 - pos
      BY <1>2, <2>1, FlagIsSeen
    <3>2. f[2] < p[1]
      BY <1>1, <3>1
    <3>. QED
      BY <3>2
  <2>. QED
    BY <2>1
<1>. QED
  BY <1>5, <1>6, <1>7 DEF Heard

-----------------------------------------------------------------------------
(* The invariant.                                                           *)

LEMMA LogStarts == LogInit => LogInv
<1>1. <<>> \in Seq(Token \union {"undefined"})
  OBVIOUS
<1>2. Len(Log) \in Nat \ {0} /\ Length = Len(Log) + 5
  BY LogStreamType DEF Length
<1>. SUFFICES ASSUME LogInit
              PROVE  LogInv
  OBVIOUS
<1>3. LogTypeOK
  <2>1. 0 \in 0..Retries + 1 /\ 0 \in 0..Length
    BY <1>2, LogStreamType
  <2>. QED
    BY <1>1, <2>1 DEF LogInit, LogTypeOK
<1>4. WholeOK
  BY <1>2 DEF LogInit, WholeOK, Writes
<1>. QED
  BY <1>3, <1>4, LogStreamType DEF LogInit, LogInv

\* handleOut keeps currentLine a stretch of the stream.
LEMMA LineStays ==
  ASSUME LogInv, NEW k \in 1..Length, Receive(k)
  PROVE  LineOK' /\ line' \in Seq(Token \union {"undefined"})
<1>1. /\ word \in Verdict /\ pos \in 0..Length /\ k > pos
      /\ pos' = k /\ line' = LineAfter(Chunk(k)) /\ word' = word
  BY DEF LogInv, LogTypeOK, Receive, Chunk
<1>2. \/ line' = <<"undefined">>
      \/ \E b \in 0..k : Stretch(Stream(word), b, k) /\ line' = SubSeq(Stream(word), b + 1, k)
  BY <1>1, LineAfterShape
<1>3. LineOK'
  BY <1>1, <1>2 DEF LineOK
<1>4. CASE line' = <<"undefined">>
  BY <1>3, <1>4
<1>5. CASE \E b \in 0..k : line' = SubSeq(Stream(word), b + 1, k)
  <2>1. PICK b \in 0..k : line' = SubSeq(Stream(word), b + 1, k)
    BY <1>5
  <2>2. b \in Nat /\ k \in Nat /\ b <= k /\ k <= Length
    BY <2>1, StreamShape, <1>1
  <2>3. line' \in Seq(Token)
    BY <1>1, <2>1, <2>2, Piece
  <2>. QED
    BY <1>3, <2>3
<1>. QED
  BY <1>2, <1>4, <1>5

\* What handleOut takes for the flag and for the verdict is the service's.
LEMMA WordsStay ==
  ASSUME LogInv, NEW k \in 1..Length, Receive(k)
  PROVE  /\ finished' => k >= Len(Log) + 2
         /\ final' # "none" => finished' /\ k = Length /\ final' = word
<1>1. /\ word \in Verdict /\ pos \in 0..Length /\ LineOK /\ k > pos
      /\ finished => pos >= Len(Log) + 2
      /\ final # "none" => finished /\ pos = Length /\ final = word
  BY DEF LogInv, LogTypeOK, Receive
<1>2. /\ finished' = (finished \/ Flags(Chunk(k)) # {})
      /\ final' \in (IF Heard(Chunk(k)) = {} THEN {final} ELSE Heard(Chunk(k)))
  BY DEF Receive, Chunk
<1>3. Len(Log) \in Nat /\ Length \in Nat
  BY <1>1, StreamShape
<1>4. ASSUME NEW f \in Flags(Chunk(k))
      PROVE  k >= Len(Log) + 2
  <2>1. pos + f[2] = Len(Log) + 2 /\ f[2] \in 0..k - pos
    BY <1>1, FlagsShape
  <2>. QED
    BY <1>1, <1>3, <2>1
<1>5. final' # "none" => finished' /\ k = Length /\ final' = word
  <2>1. CASE Heard(Chunk(k)) = {}
    BY <1>1, <1>2, <1>3, <2>1
  <2>2. CASE Heard(Chunk(k)) # {}
    <3>1. PICK v \in Heard(Chunk(k)) : v = final'
      BY <1>2, <2>2
    <3>2. k = Length /\ v = word /\ (finished \/ Flags(Chunk(k)) # {})
      BY <1>1, HeardShape
    <3>. QED
      BY <1>2, <3>1, <3>2
  <2>. QED
    BY <2>1, <2>2
<1>6. ASSUME finished'
      PROVE  k >= Len(Log) + 2
  <2>1. CASE finished
    BY <1>1, <1>3, <2>1
  <2>. QED
    BY <1>2, <1>4, <1>6, <2>1
<1>. QED
  BY <1>5, <1>6

\* Chunks that are writes cut neither the line of the flag nor the verdict.
LEMMA WholeStays ==
  ASSUME LogInv, NEW k \in 1..Length, Receive(k)
  PROVE  WholeOK'
<1>. SUFFICES ASSUME whole'
              PROVE  /\ k \in Writes
                     /\ k \in {Len(Log), Len(Log) + 3} => line' = <<>>
                     /\ k >= Len(Log) + 3 => finished'
                     /\ k = Length => final' = word
  BY DEF WholeOK, Receive
<1>1. /\ word \in Verdict /\ pos \in 0..Length /\ LineOK /\ k > pos
      /\ finished => pos >= Len(Log) + 2 /\ conn = "open"
  BY DEF LogInv, LogTypeOK, Receive
<1>2. /\ finished' = (finished \/ Flags(Chunk(k)) # {})
      /\ final' \in (IF Heard(Chunk(k)) = {} THEN {final} ELSE Heard(Chunk(k)))
      /\ line' = LineAfter(Chunk(k)) /\ whole /\ k \in Writes /\ conn = "open"
  BY DEF Receive, Chunk
<1>3. /\ pos \in Writes /\ (pos \in {Len(Log), Len(Log) + 3} => line = <<>>)
      /\ pos >= Len(Log) + 3 => finished
  BY <1>2 DEF LogInv, WholeOK
<1>4. /\ Len(Log) \in Nat \ {0} /\ Length \in Nat /\ Length = Len(Log) + 5
      /\ \A i \in 1..Len(Log) : Stream(word)[i] = Log[i]
      /\ Stream(word)[Len(Log) + 3] = "nl"
  BY <1>1, StreamShape
<1>5. k \in {Len(Log), Len(Log) + 3} => line' = <<>>
  <2>1. Stream(word)[Len(Log)] = "nl"
    BY <1>4, LogStreamType
  <2>. QED
    BY <1>1, <1>2, <1>4, <2>1, LineAfterShape
<1>6. pos <= Len(Log) \/ pos = Len(Log) + 3 \/ pos = Length
  BY <1>3, <1>4 DEF Writes
<1>7. pos <= Len(Log) \/ (pos = Len(Log) + 3 /\ finished /\ line = <<>>)
  <2>1. pos # Length
    BY <1>1, <1>4
  <2>. QED
    BY <1>2, <1>3, <1>4, <1>6, <2>1
<1>8. ASSUME k >= Len(Log) + 3
      PROVE  finished'
  <2>1. CASE pos <= Len(Log)
    <3>1. \E f \in Flags(Chunk(k)) : f[2] = Len(Log) + 2 - pos
      BY <1>1, <1>3, <1>8, <2>1, FlagIsSeen
    <3>. QED
      BY <1>2, <3>1
  <2>. QED
    BY <1>2, <1>7, <2>1
<1>9. ASSUME k = Length
      PROVE  final' = word
  <2>1. word \in Heard(Chunk(Length))
    BY <1>1, <1>3, <1>7, <1>9, VerdictIsHeard
  <2>2. final' \in Heard(Chunk(k))
    BY <1>2, <1>9, <2>1
  <2>. QED
    BY <1>1, <2>2, HeardShape
<1>. QED
  BY <1>2, <1>5, <1>8, <1>9

LEMMA ReceiveStays ==
  ASSUME LogInv, NEW k \in 1..Length, Receive(k)
  PROVE  LogInv'
<1>1. /\ conn' = conn /\ conn = "open" /\ word' = word /\ pos' = k /\ exit' = exit
      /\ attempt' = attempt /\ finished' = (finished \/ Flags(Chunk(k)) # {})
      /\ whole' = (whole /\ k \in Writes)
  BY DEF Receive, Chunk
<1>2. LineOK' /\ line' \in Seq(Token \union {"undefined"}) /\ WholeOK'
  BY LineStays, WholeStays
<1>3. /\ finished' => k >= Len(Log) + 2
      /\ final' # "none" => finished' /\ k = Length /\ final' = word
  BY WordsStay
<1>4. word \in Verdict /\ exit # "0"
  BY <1>1 DEF LogInv
<1>5. k \in 0..Length
  BY <1>4, StreamShape
<1>6. LogTypeOK'
  BY <1>1, <1>2, <1>3, <1>4, <1>5 DEF LogInv, LogTypeOK
<1>. QED
  BY <1>1, <1>2, <1>3, <1>4, <1>6 DEF LogInv

LEMMA LogStays == LogInv /\ [LogNext]_logVars => LogInv'
<1>. SUFFICES ASSUME LogInv, [LogNext]_logVars
              PROVE  LogInv'
  OBVIOUS
<1>0. /\ Len(Log) \in Nat \ {0} /\ Length = Len(Log) + 5 /\ Retries \in Nat
      /\ 0 \in Writes
  BY LogStreamType DEF Length, Writes
<1>1. CASE Open
  <2>1. /\ LogTypeOK /\ ~finished /\ attempt <= Retries /\ final = "none" /\ exit # "0"
    BY <1>1 DEF Open, LogInv
  <2>2. LogTypeOK'
    <3>1. <<>> \in Seq(Token \union {"undefined"})
      OBVIOUS
    <3>. QED
      BY <1>0, <1>1, <2>1, <3>1 DEF Open, Counted, LogTypeOK
  <2>3. LineOK'
    <3>1. word' \in Verdict /\ line' = <<>> /\ pos' = 0
      BY <1>1 DEF Open
    <3>2. SubSeq(Stream(word'), 0 + 1, 0) = <<>>
      BY SubSeqEmpty
    <3>3. Stretch(Stream(word'), 0, 0)
      BY DEF Stretch
    <3>. QED
      BY <3>1, <3>2, <3>3 DEF LineOK
  <2>4. WholeOK'
    BY <1>0, <1>1 DEF Open, WholeOK
  <2>. QED
    BY <1>0, <1>1, <2>1, <2>2, <2>3, <2>4 DEF Open, LogInv
<1>2. CASE Refused
  <2>1. LogTypeOK'
    BY <1>0, <1>2 DEF Refused, Counted, LogInv, LogTypeOK
  <2>2. WholeOK'
    BY <1>0, <1>2 DEF Refused, WholeOK
  <2>. QED
    BY <1>2, <2>1, <2>2 DEF Refused, LogInv
<1>3. CASE Unreachable
  <2>1. LogTypeOK'
    BY <1>0, <1>3 DEF Unreachable, Counted, LogInv, LogTypeOK
  <2>2. WholeOK'
    BY <1>0, <1>3 DEF Unreachable, WholeOK
  <2>. QED
    BY <1>3, <2>1, <2>2 DEF Unreachable, LogInv
<1>4. CASE \E k \in 1..Length : Receive(k)
  BY <1>4, ReceiveStays
<1>5. CASE End \/ Broken
  <2>1. LogTypeOK'
    BY <1>5 DEF End, Broken, LogInv, LogTypeOK
  <2>2. WholeOK'
    BY <1>5 DEF End, Broken, LogInv, WholeOK
  <2>. QED
    BY <1>0, <1>5, <2>1, <2>2 DEF End, Broken, MoreTries, LogInv
<1>6. CASE Exit
  <2>1. LogTypeOK'
    BY <1>6 DEF Exit, LogInv, LogTypeOK
  <2>2. WholeOK'
    BY <1>6 DEF Exit, LogInv, WholeOK
  <2>. QED
    BY <1>6, <2>1, <2>2 DEF Exit, LogInv
<1>7. CASE UNCHANGED logVars
  BY <1>7 DEF logVars, LogInv, LogTypeOK, WholeOK, LineOK
<1>. QED
  BY <1>1, <1>2, <1>3, <1>4, <1>5, <1>6, <1>7 DEF LogNext

THEOREM LogInvariant == LogSpec => []LogInv
BY LogStarts, LogStays, PTL DEF LogSpec

\* The state of the client stays what logs/index.js can make of a stream.
THEOREM LogTypesHold == LogSpec => []LogTypeOK
<1>1. LogInv => LogTypeOK
  BY DEF LogInv
<1>. QED
  BY <1>1, LogInvariant, PTL

\* For every log a job may write, flag excepted, and every way its bytes are cut
\* on their way: kontinuous logs exits with 0 only when it received the verdict
\* of the service, and this one is ok (logs/index.js:73-84).
THEOREM ExitZeroMeansOk == LogSpec => []ExitZeroIsServersWord
<1>1. LogInv => ExitZeroIsServersWord
  BY DEF LogInv, ExitZeroIsServersWord
<1>. QED
  BY <1>1, LogInvariant, PTL

\* As long as no chunk ends within a write, a stream received to its end leaves
\* the client with the verdict, and no request follows (logs/index.js:85-95).
THEOREM WholeStreamsAreHeard == LogSpec => []WholeStreamIsHeard
<1>1. LogInv => WholeStreamIsHeard
  <2>1. Len(Log) \in Nat /\ Length = Len(Log) + 5
    BY LogStreamType DEF Length
  <2>. QED
    BY <2>1 DEF LogInv, WholeOK, WholeStreamIsHeard
<1>. QED
  BY <1>1, LogInvariant, PTL

-----------------------------------------------------------------------------
(* The Jobs of a branch and the tails that follow them.                     *)

Alive(h) == pod[h] \in {"created", "running", "ended"}

\* The Job of the branch has a pod, or will.
JobIsAlive == job # NoJob => Alive(job)

\* Without a Job, a hook that found one, or was beaten by one, leaves behind
\* a pod that lived, or a hook that creates the next Job or was cut short.
SomeoneCreates ==
  job = NoJob /\ (\E h \in Hook : hook[h] \in {"patching", "launched", "conflict"})
  => \/ \E h \in Hook : Alive(h)
     \/ \E h \in Hook : hook[h] \in {"deleting", "looking", "creating",
                                     "failed", "lost"}

\* A pod that lives and is not of the present Job ended before its Job
\* expired; a pod that was stopped has a replaced commit.
PodOfTheJob ==
  \A h \in Hook :
    /\ pod[h] \in {"created", "running"} => job = h
    /\ pod[h] = "stopping" => CommitOf[h] \in replaced
    /\ pod[h] = "ended" => job = h \/ hook[h] \in Settled
    /\ hook[h] \in {"new", "accepted"} => pod[h] = "none"

\* What a follower that found its commit knows of it.
Known(f) ==
  \/ Wanted[f] \in replaced
  \/ \E h \in Hook : CommitOf[h] = Wanted[f] /\ pod[h] = "ended"
  \/ job # NoJob /\ CommitOf[job] = Wanted[f] /\ pod[job] = "running"

FollowersKnow ==
  \A f \in Catch : follow[f] \in {"reading", "checking"} => Known(f)

TurnsLeft ==
  \A f \in Follower :
    follow[f] \in {"waiting", "reading", "checking"} => turns[f] < MaxTurns

Inv ==
  /\ TypeOK /\ JobIsAlive /\ SomeoneCreates /\ PodOfTheJob
  /\ FollowersKnow /\ TurnsLeft /\ FollowerIsToldTheEnd

USE PipelineType, NoJobType

LEMMA InitInv == Init => Inv
BY DEF Init, Inv, TypeOK, JobIsAlive, SomeoneCreates, PodOfTheJob, Pending,
   Settled, FollowersKnow, TurnsLeft, FollowerIsToldTheEnd, Alive, Known,
   NoJob

-----------------------------------------------------------------------------
\* The moves of a hook that leave the cluster alone: it is answered, or meets
\* the Job of another hook, or owes no Job any more.
MayMove(h, as) ==
  /\ as \in {"accepted"} \union Pending \union Settled
  /\ hook[h] \notin Settled
  /\ as \in {"accepted", "declined"} => hook[h] = "new"
  /\ as \in {"launched", "patching"} => job # NoJob
  /\ as = "conflict" => job # NoJob \/ hook[h] = "patching"

LEMMA HookMoves ==
  ASSUME Inv, NEW h \in Hook, NEW as, MayMove(h, as), Settle(h, as),
         UNCHANGED <<job, pod, tails, replaced>>
  PROVE  Inv'
<1> USE DEF MayMove
<1>1. TypeOK'
  BY DEF Inv, TypeOK, Settle, Pending, Settled, tails
<1>2. JobIsAlive' /\ PodOfTheJob'
  BY DEF Inv, TypeOK, JobIsAlive, PodOfTheJob, Alive, Settle, tails, Settled,
     Pending
<1>3. SomeoneCreates'
  BY DEF Inv, TypeOK, SomeoneCreates, Alive, Settle, tails, Settled, Pending
<1>4. FollowersKnow' /\ TurnsLeft' /\ FollowerIsToldTheEnd'
  BY DEF Inv, FollowersKnow, Known, TurnsLeft, FollowerIsToldTheEnd, tails
<1> QED
  BY <1>1, <1>2, <1>3, <1>4 DEF Inv

\* A follower moves: the hooks and the cluster stay.
LEMMA TailKeeps == ASSUME Inv, NEW f \in Follower, TailLog(f) PROVE Inv'
<1>0. UNCHANGED <<hook, job, pod, replaced>>
  BY DEF TailLog, Find, NotFound, LogEnds, Check, TailFails
<1>1. /\ JobIsAlive' /\ SomeoneCreates' /\ PodOfTheJob'
      /\ \A g \in Follower : Known(g)' = Known(g)
  BY <1>0 DEF Inv, JobIsAlive, SomeoneCreates, PodOfTheJob, Alive, Known
<1>2. \/ follow[f] = "waiting" /\ follow' = [follow EXCEPT ![f] = "reading"]
         /\ UNCHANGED turns /\ Find(f)
      \/ follow[f] = "reading" /\ follow' = [follow EXCEPT ![f] = "checking"]
         /\ UNCHANGED turns
      \/ follow' = [follow EXCEPT ![f] = "error"] /\ UNCHANGED turns
      \/ follow' = [follow EXCEPT ![f] = "notfound"] /\ UNCHANGED turns
      \/ /\ follow[f] = "checking" /\ job # NoJob
         /\ turns' = [turns EXCEPT ![f] = @ + 1]
         /\ \/ /\ follow' = [follow EXCEPT ![f] = "reading"]
               /\ turns[f] + 1 < MaxTurns
            \/ /\ follow' = [follow EXCEPT ![f] = "ok"]
               /\ pod[job] # "running" \/ turns[f] + 1 >= MaxTurns
  <2>1. CASE Find(f) BY <2>1 DEF Find, Turn
  <2>2. CASE NotFound(f) BY <2>2 DEF NotFound, Turn
  <2>3. CASE LogEnds(f) BY <2>3 DEF LogEnds, Turn
  <2>4. CASE Check(f)
    BY <2>4 DEF Check, Turn, Inactive, LastTurn, Inv, TypeOK
  <2>5. CASE TailFails(f) BY <2>5 DEF TailFails, Turn
  <2> QED BY <2>1, <2>2, <2>3, <2>4, <2>5 DEF TailLog
<1>3. Find(f) => Known(f)
  <2> SUFFICES ASSUME Find(f), NEW h \in Awaited(f),
                      pod[h] \in {"running", "stopping"}
                        \/ (pod[h] = "ended" /\ job = h)
               PROVE  Known(f)
    BY DEF Find
  <2> QED BY DEF Awaited, Known, Inv, PodOfTheJob
<1>4. TypeOK' /\ TurnsLeft'
  BY <1>0, <1>2 DEF Inv, TypeOK, TurnsLeft
<1>5. FollowersKnow'
  BY <1>1, <1>2, <1>3 DEF Inv, TypeOK, FollowersKnow
<1>6. FollowerIsToldTheEnd'
  <2> SUFFICES ASSUME NEW g \in Catch, follow'[g] = "ok"
               PROVE  \/ \E h \in Hook : CommitOf[h] = Wanted[g] /\ pod'[h] = "ended"
                      \/ Wanted[g] \in replaced'
                      \/ turns'[g] = MaxTurns
    BY DEF FollowerIsToldTheEnd
  <2>1. CASE g # f
    <3>1. follow[g] = "ok" /\ turns'[g] = turns[g]
      BY <1>2, <2>1 DEF Inv, TypeOK
    <3> QED BY <3>1, <1>0 DEF Inv, FollowerIsToldTheEnd
  <2>2. CASE g = f
    <3>1. /\ follow[f] = "checking" /\ job # NoJob
          /\ turns' = [turns EXCEPT ![f] = @ + 1]
          /\ pod[job] # "running" \/ turns[f] + 1 >= MaxTurns
      BY <1>2, <2>2 DEF Inv, TypeOK
    <3>2. Known(f)
      BY <3>1, <2>2 DEF Inv, FollowersKnow
    <3>3. CASE pod[job] # "running"
      BY <3>2, <3>3, <1>0, <2>2 DEF Known
    <3>4. CASE turns[f] + 1 >= MaxTurns
      BY <3>1, <3>4, <2>2 DEF Inv, TypeOK, TurnsLeft
    <3> QED BY <3>1, <3>3, <3>4
  <2> QED BY <2>1, <2>2
<1> QED
  BY <1>1, <1>4, <1>5, <1>6 DEF Inv

-----------------------------------------------------------------------------
\* The hooks.

LEMMA DeleteKeeps == ASSUME Inv, NEW h \in Hook, Delete(h) PROVE Inv'
<1>0. /\ hook[h] = "deleting" /\ hook'[h] \in {"deleting", "looking"}
      /\ \A g \in Hook \ {h} : hook'[g] = hook[g]
      /\ hook' \in [Hook -> {"new", "accepted"} \union Pending \union Settled]
      /\ job' = NoJob
      /\ pod' = [g \in Hook |->
                   IF g # job THEN pod[g]
                   ELSE IF pod[g] = "running" THEN "stopping" ELSE "gone"]
      /\ replaced' = replaced \union {CommitOf[g] : g \in {job} \ {NoJob}}
      /\ UNCHANGED <<follow, turns>>
  BY DEF Delete, Settle, Remove, tails, Inv, TypeOK, Pending, Settled
<1>1. job # NoJob => job \in Hook /\ CommitOf[job] \in replaced'
  BY <1>0 DEF Inv, TypeOK
<1>2. replaced \subseteq replaced' /\ replaced' \subseteq Commit
  BY <1>0 DEF Inv, TypeOK
<1>3. TypeOK'
  BY <1>0, <1>2 DEF Inv, TypeOK
<1>4. JobIsAlive' /\ SomeoneCreates'
  BY <1>0 DEF JobIsAlive, SomeoneCreates
<1>5. PodOfTheJob'
  <2> SUFFICES ASSUME NEW g \in Hook
               PROVE  /\ pod'[g] \in {"created", "running"} => job' = g
                      /\ pod'[g] = "stopping" => CommitOf[g] \in replaced'
                      /\ pod'[g] = "ended" => job' = g \/ hook'[g] \in Settled
                      /\ hook'[g] \in {"new", "accepted"} => pod'[g] = "none"
    BY DEF PodOfTheJob
  <2>1. CASE g = job
    <3>1. hook'[g] \notin {"new", "accepted"}
      BY <2>1, <1>0 DEF Inv, JobIsAlive, Alive, PodOfTheJob
    <3> QED BY <2>1, <1>0, <1>1, <3>1 DEF Inv, TypeOK
  <2>2. CASE g # job
    <3>1. pod'[g] = pod[g]
      BY <2>2, <1>0
    <3>2. pod[g] = "ended" => hook[g] \in Settled
      BY <2>2 DEF Inv, PodOfTheJob
    <3>3. /\ hook[g] \in Settled => hook'[g] \in Settled
          /\ hook'[g] \in {"new", "accepted"} => hook'[g] = hook[g]
      BY <1>0 DEF Settled
    <3> QED BY <2>2, <3>1, <3>2, <3>3, <1>2 DEF Inv, PodOfTheJob
  <2> QED BY <2>1, <2>2
<1>6. \A g \in Hook : pod[g] = "ended" =>
        pod'[g] = "ended" \/ CommitOf[g] \in replaced'
  BY <1>0, <1>1 DEF Inv, TypeOK
<1>7. FollowersKnow' /\ TurnsLeft' /\ FollowerIsToldTheEnd'
  <2>1. ASSUME NEW f \in Catch, Known(f) PROVE Known(f)'
    BY <2>1, <1>1, <1>2, <1>6 DEF Known
  <2>2. FollowersKnow' BY <2>1, <1>0 DEF Inv, FollowersKnow
  <2>3. TurnsLeft' BY <1>0 DEF Inv, TurnsLeft
  <2>4. FollowerIsToldTheEnd'
    BY <1>0, <1>2, <1>6 DEF Inv, FollowerIsToldTheEnd
  <2> QED BY <2>2, <2>3, <2>4
<1> QED
  BY <1>3, <1>4, <1>5, <1>7 DEF Inv

LEMMA CreateKeeps == ASSUME Inv, NEW h \in Hook, Create(h) PROVE Inv'
<1>1. CASE job # NoJob
  <2>1. Settle(h, "conflict") /\ UNCHANGED <<job, pod, tails, replaced>>
    BY <1>1 DEF Create, tails
  <2>2. MayMove(h, "conflict")
    BY <1>1 DEF Create, MayMove, Pending, Settled
  <2> QED BY <2>1, <2>2, HookMoves
<1>2. CASE job = NoJob
  <2>0. PICK as \in {"launched", "looking", "failed"} : Settle(h, as)
    BY <1>2 DEF Create
  <2>1. /\ hook[h] = "creating"
        /\ job' = h /\ pod' = [pod EXCEPT ![h] = "created"]
        /\ UNCHANGED <<follow, turns, replaced>>
    BY <1>2 DEF Create, tails
  <2>2. TypeOK' /\ TurnsLeft'
    BY <2>0, <2>1 DEF Inv, TypeOK, TurnsLeft, Settle, Pending, Settled
  <2>3. JobIsAlive' /\ SomeoneCreates'
    BY <2>1, <2>2 DEF JobIsAlive, SomeoneCreates, Alive, Inv, TypeOK
  <2>4. pod[h] # "ended"
    BY <1>2, <2>1 DEF Inv, PodOfTheJob, Settled
  <2>5. PodOfTheJob'
    <3> SUFFICES ASSUME NEW g \in Hook, g # h
                 PROVE  /\ pod'[g] \in {"created", "running"} => job' = g
                        /\ pod'[g] = "stopping" => CommitOf[g] \in replaced'
                        /\ pod'[g] = "ended" => hook'[g] \in Settled
                        /\ hook'[g] \in {"new", "accepted"} => pod'[g] = "none"
      BY <2>0, <2>1 DEF Settle, PodOfTheJob, Inv, TypeOK
    <3> QED
      BY <2>0, <2>1, <1>2 DEF Inv, TypeOK, PodOfTheJob, Settle
  <2>6. \A g \in Hook : pod[g] = "ended" => pod'[g] = "ended"
    BY <2>1, <2>4 DEF Inv, TypeOK
  <2>7. FollowersKnow' /\ FollowerIsToldTheEnd'
    <3>1. ASSUME NEW f \in Catch, Known(f) PROVE Known(f)'
      BY <3>1, <1>2, <2>1, <2>6 DEF Known
    <3>2. FollowersKnow' BY <3>1, <2>1 DEF Inv, FollowersKnow
    <3>3. FollowerIsToldTheEnd'
      BY <2>1, <2>6 DEF Inv, FollowerIsToldTheEnd
    <3> QED BY <3>2, <3>3
  <2> QED BY <2>2, <2>3, <2>5, <2>7 DEF Inv
<1> QED BY <1>1, <1>2

LEMMA ServeKeeps == ASSUME Inv, NEW h \in Hook, Serve(h) PROVE Inv'
<1>1. CASE Accept(h)
  <2>1. CASE h \in Gitlab
    BY <1>1, <2>1, HookMoves DEF Accept, MayMove, Pending, Settled
  <2>2. CASE h \notin Gitlab
    BY <1>1, <2>2, HookMoves DEF Accept, MayMove, Pending, Settled
  <2> QED BY <2>1, <2>2
<1>2. CASE Decline(h)
  BY <1>2, HookMoves DEF Decline, MayMove, Pending, Settled
<1>3. CASE Delete(h)
  BY <1>3, DeleteKeeps
<1>4. CASE Look(h)
  <2>1. CASE job = NoJob
    BY <1>4, <2>1, HookMoves DEF Look, MayMove, Pending, Settled
  <2>2. CASE job # NoJob /\ Same(job, h)
    BY <1>4, <2>2, HookMoves DEF Look, MayMove, Pending, Settled
  <2>3. CASE job # NoJob /\ ~Same(job, h)
    BY <1>4, <2>3, HookMoves DEF Look, MayMove, Pending, Settled
  <2> QED BY <2>1, <2>2, <2>3
<1>5. CASE Create(h)
  BY <1>5, CreateKeeps
<1>6. CASE Patch(h)
  <2>1. CASE job # NoJob /\ Same(job, h)
    BY <1>6, <2>1, HookMoves DEF Patch, MayMove, Pending, Settled
  <2>2. CASE ~(job # NoJob /\ Same(job, h))
    BY <1>6, <2>2, HookMoves DEF Patch, MayMove, Pending, Settled
  <2> QED BY <2>1, <2>2
<1>7. CASE Fail(h)
  BY <1>7, HookMoves DEF Fail, MayMove, Pending, Settled
<1>8. CASE Lose(h)
  BY <1>8, HookMoves DEF Lose, MayMove, Pending, Settled
<1> QED
  BY <1>1, <1>2, <1>3, <1>4, <1>5, <1>6, <1>7, <1>8 DEF Serve

-----------------------------------------------------------------------------
\* The cluster.

LEMMA PodsKeep ==
  ASSUME Inv, NEW h \in Hook, PodStarts(h) \/ PodEnds(h) \/ PodStops(h)
  PROVE  Inv'
<1>0. /\ UNCHANGED <<hook, job, follow, turns, replaced>>
      /\ \/ pod[h] = "created" /\ pod' = [pod EXCEPT ![h] = "running"]
         \/ pod[h] = "running" /\ pod' = [pod EXCEPT ![h] = "ended"]
         \/ pod[h] = "stopping" /\ pod' = [pod EXCEPT ![h] = "gone"]
  BY DEF PodStarts, PodEnds, PodStops, PodMoves, tails
<1>1. TypeOK' /\ TurnsLeft'
  BY <1>0 DEF Inv, TypeOK, TurnsLeft
<1>2. \A g \in Hook : Alive(g) => Alive(g)'
  BY <1>0 DEF Inv, TypeOK, Alive
<1>3. JobIsAlive' /\ SomeoneCreates'
  BY <1>0, <1>2 DEF Inv, TypeOK, JobIsAlive, SomeoneCreates
<1>4. PodOfTheJob'
  BY <1>0 DEF Inv, TypeOK, PodOfTheJob
<1>5. ASSUME NEW f \in Catch, Known(f) PROVE Known(f)'
  BY <1>0, <1>5 DEF Inv, TypeOK, Known
<1>6. FollowersKnow'
  BY <1>0, <1>5 DEF Inv, FollowersKnow
<1>7. FollowerIsToldTheEnd'
  BY <1>0 DEF Inv, TypeOK, FollowerIsToldTheEnd
<1> QED
  BY <1>1, <1>3, <1>4, <1>6, <1>7 DEF Inv

LEMMA ExpireKeeps == ASSUME Inv, Expire PROVE Inv'
<1>0. /\ job \in Hook /\ pod[job] = "ended" /\ job' = NoJob
      /\ \A h \in Hook : hook[h] \notin Pending
      /\ \A f \in Follower : follow[f] \notin {"reading", "checking"}
      /\ UNCHANGED <<hook, pod, follow, turns, replaced>>
  BY DEF Expire, Inv, TypeOK, tails
<1>1. TypeOK' /\ TurnsLeft' /\ JobIsAlive' /\ FollowerIsToldTheEnd'
  BY <1>0 DEF Inv, TypeOK, TurnsLeft, JobIsAlive, FollowerIsToldTheEnd
<1>2. SomeoneCreates'
  BY <1>0 DEF SomeoneCreates, Alive
<1>3. FollowersKnow'
  BY <1>0 DEF FollowersKnow
<1>4. PodOfTheJob'
  <2>1. hook[job] \in Settled
    BY <1>0 DEF Inv, TypeOK, PodOfTheJob
  <2> QED BY <1>0, <2>1 DEF Inv, PodOfTheJob
<1> QED
  BY <1>1, <1>2, <1>3, <1>4 DEF Inv

LEMMA StandStill == ASSUME Inv, UNCHANGED vars PROVE Inv'
BY DEF Inv, TypeOK, JobIsAlive, SomeoneCreates, PodOfTheJob, FollowersKnow,
   TurnsLeft, FollowerIsToldTheEnd, Alive, Known, vars

LEMMA StepKeeps == Inv /\ [Next]_vars => Inv'
<1> SUFFICES ASSUME Inv, [Next]_vars PROVE Inv'
  OBVIOUS
<1>1. CASE \E h \in Hook : Serve(h)
  BY <1>1, ServeKeeps
<1>2. CASE \E h \in Hook : PodStarts(h) \/ PodEnds(h) \/ PodStops(h)
  BY <1>2, PodsKeep
<1>3. CASE Expire
  BY <1>3, ExpireKeeps
<1>4. CASE \E f \in Follower : TailLog(f)
  BY <1>4, TailKeeps
<1>5. CASE UNCHANGED vars
  BY <1>5, StandStill
<1> QED
  BY <1>1, <1>2, <1>3, <1>4, <1>5 DEF Next

-----------------------------------------------------------------------------
\* The invariant holds in every behaviour of the service and the cluster.
THEOREM Invariance == Spec => []Inv
BY InitInv, StepKeeps, PTL DEF Spec

\* The types of the service, the Job and the followers.
THEOREM TypeCorrect == Spec => []TypeOK
<1>1. Inv => TypeOK
  BY DEF Inv
<1> QED BY <1>1, Invariance, PTL

\* However many hooks replace each other's Job (job-run.js:4-8), those that
\* are not cut short leave the branch with a Job.
THEOREM BranchIsDeployed == Spec => []SomeCommitIsDeployed
<1>1. Inv => SomeCommitIsDeployed
  BY DEF Inv, SomeCommitIsDeployed, JobIsAlive, SomeoneCreates, Alive, TypeOK
<1> QED BY <1>1, Invariance, PTL

\* The verdict of the log stream is about the commit the follower waited for
\* (pipeline.get.js:164-193).
THEOREM FollowersAreTold == Spec => []FollowerIsToldTheEnd
<1>1. Inv => FollowerIsToldTheEnd
  BY DEF Inv
<1> QED BY <1>1, Invariance, PTL

-----------------------------------------------------------------------------
(* Requests and those who follow them.                                      *)
(*                                                                          *)
(* A Job is where its request puts it, whatever became of the repository    *)
(* since, and what was read for it is what its branch said with its commit  *)
(* or a later one: the commits of a branch stay in the history, and the tip *)
(* of a branch is the last of them.                                         *)

\* A request for a commit names its branch.
OnItsBranch(r) == r.commit # 0 => history[r.commit].branch = r.ref

\* What was read for r was said by its branch at its commit, or since.
ReadSince(r) ==
  r.commit # 0 /\ r.read # None =>
    \E i \in r.commit..Len(history) :
      history[i].branch = r.ref /\ history[i].setting = r.read

\* The invariant of one request that has a Job.
Fits(r) ==
  /\ r.commit <= Len(history)
  /\ r.event = "custom" => r.env # None /\ r.read = None
  /\ r.event = "pushed" => OnItsBranch(r) /\ ReadSince(r)

Placed == \A j \in jobs : j.at = AddressOf(j.of) /\ Fits(j.of)

\* What the platform tells has happened.
Told ==
  \A e \in events :
    /\ e.after <= Len(history)
    /\ e.event = "pushed" => e.after # 0 /\ history[e.after].branch = e.ref

\* A tip is the last commit of its branch.
TipsAreLast ==
  \A b \in Branch : tip[b] # 0 =>
    /\ history[tip[b]].branch = b
    /\ \A i \in 1..Len(history) : history[i].branch = b => i <= tip[b]

RequestInv == RequestTypeOK /\ Placed /\ Told /\ TipsAreLast

LEMMA RequestInits == RequestInit => RequestInv
<1>. SUFFICES ASSUME RequestInit
              PROVE  RequestInv
  OBVIOUS
<1>. DEFINE c == [branch |-> Default, setting |-> Plain]
<1>1. c \in [branch : Branch, setting : Setting] /\ history = <<c>>
  BY RequestType DEF RequestInit
<1>. HIDE DEF c
<1>2. history \in Seq([branch : Branch, setting : Setting]) /\ Len(history) = 1
  BY <1>1
<1>3. tip \in [Branch -> 0..Len(history)]
  BY <1>2, RequestType DEF RequestInit
<1>4. RequestTypeOK
  <2>1. Len(history) <= MaxCommits
    BY <1>2, RequestType
  <2>. QED
    BY <1>2, <1>3, <2>1 DEF RequestInit, RequestTypeOK
<1>5. TipsAreLast
  <2>1. c.branch = Default
    BY DEF c
  <2>. QED
    BY <1>1, <1>2, <2>1 DEF RequestInit, TipsAreLast
<1>. QED
  BY <1>4, <1>5 DEF RequestInit, RequestInv, Placed, Told

\* What a request comes to, when it comes to something.
LEMMA AddressTypes ==
  ASSUME NEW r \in Request, AddressOf(r).env # None, AddressOf(r).cluster # None
  PROVE  AddressOf(r) \in Address
<1>1. Loaded(r.event, r.ref) \in Ref
  BY DEF Loaded, Ref, Request
<1>2. Config(r.read) \in Setting
  BY RequestType DEF Config, Request
<1>3. EnvBy(r) \in Env
  BY <1>1, <1>2, RequestType DEF EnvBy, AddressOf, Request
<1>4. ClusterBy(r) \in Cluster
  BY <1>2, <1>3, RequestType DEF ClusterBy, AddressOf, Request
<1>. QED
  BY <1>3, <1>4 DEF AddressOf, Address, Request

\* A commit is one.
LEMMA CommitTypes ==
  ASSUME RequestTypeOK, NEW i \in 1..Len(history)
  PROVE  history[i] \in [branch : Branch, setting : Setting]
<1>1. history \in Seq([branch : Branch, setting : Setting])
  BY DEF RequestTypeOK
<1>. QED
  BY <1>1, ElementOfSeq

\* What a read of a branch gives: nothing, or what the tip says.
LEMMA BranchRead ==
  ASSUME NEW b \in Branch, NEW hasKey, NEW read \in Readable("pushed", b, hasKey)
  PROVE  read = None \/ (tip[b] # 0 /\ read = history[tip[b]].setting)
BY RequestType DEF Readable, Loaded, FileAt

LEMMA SettingsRead ==
  ASSUME RequestTypeOK, NEW event, NEW ref, NEW hasKey,
         NEW read \in Readable(event, ref, hasKey)
  PROVE  read \in Setting \union {None}
<1>1. ASSUME NEW x
      PROVE  FileAt(x) \in Setting \union {None}
  <2>. DEFINE b == IF x = "HEAD" THEN Default ELSE x
  <2>1. CASE b \in Branch /\ tip[b] # 0
    <3>1. tip[b] \in 1..Len(history)
      BY <2>1 DEF RequestTypeOK
    <3>2. history[tip[b]] \in [branch : Branch, setting : Setting]
      BY <3>1, CommitTypes
    <3>3. FileAt(x) = history[tip[b]].setting
      BY <2>1 DEF FileAt
    <3>. QED
      BY <3>2, <3>3
  <2>2. CASE ~(b \in Branch /\ tip[b] # 0)
    BY <2>2 DEF FileAt
  <2>. QED
    BY <2>1, <2>2
<1>. QED
  BY <1>1 DEF Readable

\* What a hook reads for a commit of a branch was said there since.
LEMMA HooksReadSince ==
  ASSUME RequestInv, NEW r \in Request, r.event = "pushed", r.ref \in Branch,
         r.commit <= Len(history), OnItsBranch(r),
         r.read \in ReadableByHook("pushed", r.ref)
  PROVE  ReadSince(r)
<1>. SUFFICES ASSUME r.commit # 0, r.read # None
              PROVE  \E i \in r.commit..Len(history) :
                       history[i].branch = r.ref /\ history[i].setting = r.read
  BY DEF ReadSince
<1>1. tip[r.ref] # 0 /\ r.read = history[tip[r.ref]].setting
  BY BranchRead DEF ReadableByHook
<1>2. tip[r.ref] \in 1..Len(history)
  BY <1>1 DEF RequestInv, RequestTypeOK
<1>3. r.commit \in 1..Len(history)
  BY DEF Request, Sha
<1>4. r.commit <= tip[r.ref] /\ history[tip[r.ref]].branch = r.ref
  BY <1>1, <1>3 DEF RequestInv, TipsAreLast, OnItsBranch
<1>. QED
  BY <1>1, <1>2, <1>3, <1>4

\* A Job more, or one less.
LEMMA LaunchKeeps ==
  ASSUME RequestInv, NEW r \in Request, Fits(r), Launch(r)
  PROVE  RequestInv'
<1>. DEFINE at == AddressOf(r)
            new == [of |-> r, at |-> at]
<1>1. /\ at.env # None /\ at.cluster # None
      /\ jobs' \subseteq jobs \union {new}
      /\ UNCHANGED <<service, history, tip, events>>
  BY DEF Launch, forge, RequestInv, RequestTypeOK
<1>2. new \in [of : Request, at : Address]
  BY <1>1, AddressTypes
<1>3. RequestTypeOK'
  BY <1>1, <1>2 DEF RequestInv, RequestTypeOK
<1>4. new.of = r /\ new.at = AddressOf(r)
  OBVIOUS
<1>. HIDE DEF new
<1>5. Placed'
  <2>. SUFFICES ASSUME NEW j \in jobs'
                PROVE  j.at = AddressOf(j.of) /\ Fits(j.of)
    BY <1>1 DEF Placed, AddressOf, EnvBy, ClusterBy, Fits, OnItsBranch, ReadSince
  <2>1. CASE j \in jobs
    BY <2>1 DEF RequestInv, Placed
  <2>2. CASE j = new
    BY <1>4, <2>2
  <2>. QED
    BY <1>1, <2>1, <2>2
<1>6. Told' /\ TipsAreLast'
  BY <1>1 DEF RequestInv, Told, TipsAreLast
<1>. QED
  BY <1>3, <1>5, <1>6 DEF RequestInv

\* What fits goes on doing so while commits are added.
LEMMA FitsStays ==
  ASSUME NEW r \in Request, Fits(r), RequestTypeOK,
         Len(history') \in Nat, Len(history) <= Len(history'),
         \A i \in 1..Len(history) : history'[i] = history[i]
  PROVE  Fits(r)'
<1>. DEFINE n == Len(history)
            m == Len(history')
<1>1. n \in Nat /\ r.commit \in Nat /\ r.commit <= n
  BY DEF RequestTypeOK, Request, Sha, Fits
<1>2. n <= m /\ m \in Nat
  OBVIOUS
<1>. HIDE DEF n, m
<1>3. r.commit <= m
  BY <1>1, <1>2
<1>4. r.commit # 0 => history'[r.commit] = history[r.commit]
  BY <1>1 DEF n
<1>5. ASSUME ReadSince(r)
      PROVE  ReadSince(r)'
  <2>. SUFFICES ASSUME r.commit # 0, r.read # None
                PROVE  \E i \in r.commit..m :
                         history'[i].branch = r.ref /\ history'[i].setting = r.read
    BY DEF ReadSince, m
  <2>1. PICK i \in r.commit..n : history[i].branch = r.ref /\ history[i].setting = r.read
    BY <1>5 DEF ReadSince, n
  <2>2. i \in 1..n /\ i \in r.commit..m
    BY <1>1, <1>2, <2>1
  <2>. QED
    BY <2>1, <2>2 DEF n
<1>. QED
  BY <1>3, <1>4, <1>5 DEF Fits, OnItsBranch, m

LEMMA RequestSteps == RequestInv /\ [RequestNext]_requestVars => RequestInv'
<1>. SUFFICES ASSUME RequestInv, [RequestNext]_requestVars
              PROVE  RequestInv'
  OBVIOUS
<1>. USE DEF RequestInv
<1>1. ASSUME NEW b \in Branch, NEW s \in Setting, Push(b, s)
      PROVE  RequestInv'
  <2>. DEFINE c == [branch |-> b, setting |-> s]
              n == Len(history)
  <2>1. /\ c \in [branch : Branch, setting : Setting]
        /\ history \in Seq([branch : Branch, setting : Setting])
        /\ n \in Nat /\ n < MaxCommits
        /\ history' = Append(history, c)
    BY <1>1 DEF Push, RequestTypeOK
  <2>. HIDE DEF c
  <2>2. history' \in Seq([branch : Branch, setting : Setting]) /\ Len(history') = n + 1
    BY <2>1
  <2>8. /\ history'[n + 1].branch = b
        /\ \A i \in 1..n : history'[i] = history[i]
    <3>1. c.branch = b
      BY DEF c
    <3>. QED
      BY <2>1, <3>1
  <2>3. tip' \in [Branch -> 0..Len(history')]
    <3>1. tip \in [Branch -> 0..n] /\ tip' = [tip EXCEPT ![b] = n + 1]
      BY <1>1 DEF Push, RequestTypeOK
    <3>2. n + 1 \in 0..n + 1 /\ \A x \in 0..n : x \in 0..n + 1
      BY <2>1
    <3>. QED
      BY <2>2, <3>1, <3>2
  <2>4. events' \subseteq [event : {"pushed", "deleted"}, ref : Branch, after : Sha \union {0}]
    <3>1. n + 1 \in Sha
      BY <2>1, RequestType DEF Sha
    <3>. QED
      BY <1>1, <3>1 DEF Push, RequestTypeOK
  <2>5. RequestTypeOK'
    BY <1>1, <2>1, <2>2, <2>3, <2>4, RequestType DEF Push, RequestTypeOK
  <2>6. Placed'
    <3>. SUFFICES ASSUME NEW j \in jobs
                  PROVE  j.at = AddressOf(j.of)' /\ Fits(j.of)'
      BY <1>1 DEF Push, Placed
    <3>1. j.of \in Request /\ j.at = AddressOf(j.of) /\ Fits(j.of)
      BY DEF Placed, RequestTypeOK
    <3>2. Fits(j.of)'
      BY <2>1, <2>2, <2>8, <3>1, FitsStays
    <3>. QED
      BY <3>1, <3>2 DEF AddressOf, EnvBy, ClusterBy
  <2>7. Told'
    <3>. SUFFICES ASSUME NEW e \in events'
                  PROVE  /\ e.after <= Len(history')
                         /\ e.event = "pushed" =>
                              e.after # 0 /\ history'[e.after].branch = e.ref
      BY DEF Told
    <3>1. CASE e \in events
      <4>1. /\ e.after \in Nat /\ e.after <= n
            /\ e.event = "pushed" => e.after # 0 /\ history[e.after].branch = e.ref
        BY <3>1 DEF Told, RequestTypeOK, Sha
      <4>. QED
        BY <2>1, <2>2, <2>8, <4>1
    <3>2. CASE e = [event |-> "pushed", ref |-> b, after |-> n + 1]
      BY <2>1, <2>2, <2>8, <3>2
    <3>. QED
      BY <1>1, <3>1, <3>2 DEF Push
  <2>9. TipsAreLast'
    <3>. SUFFICES ASSUME NEW x \in Branch, tip'[x] # 0
                  PROVE  /\ history'[tip'[x]].branch = x
                         /\ \A i \in 1..n + 1 : history'[i].branch = x => i <= tip'[x]
      BY <2>2 DEF TipsAreLast
    <3>1. tip \in [Branch -> 0..n] /\ tip' = [tip EXCEPT ![b] = n + 1]
      BY <1>1 DEF Push, RequestTypeOK
    <3>2. CASE x = b
      <4>1. tip'[x] = n + 1
        BY <3>1, <3>2
      <4>. QED
        BY <2>1, <2>8, <3>2, <4>1
    <3>3. CASE x # b
      <4>1. tip'[x] = tip[x] /\ tip[x] \in 1..n
        BY <3>1, <3>3
      <4>2. /\ history[tip[x]].branch = x
            /\ \A i \in 1..n : history[i].branch = x => i <= tip[x]
        BY <4>1 DEF TipsAreLast
      <4>3. ASSUME NEW i \in 1..n + 1, history'[i].branch = x
            PROVE  i \in 1..n /\ history[i].branch = x
        <5>1. i # n + 1
          BY <2>8, <3>3, <4>3
        <5>2. i \in 1..n
          BY <2>1, <5>1
        <5>. QED
          BY <2>8, <4>3, <5>2
      <4>. QED
        BY <2>8, <4>1, <4>2, <4>3
    <3>. QED
      BY <3>2, <3>3
  <2>. QED
    BY <2>5, <2>6, <2>7, <2>9
<1>2. ASSUME NEW b \in Branch, RemoveBranch(b)
      PROVE  RequestInv'
  <2>1. tip' \in [Branch -> 0..Len(history)]
    BY <1>2 DEF RemoveBranch, RequestTypeOK
  <2>2. RequestTypeOK'
    BY <1>2, <2>1 DEF RemoveBranch, RequestTypeOK
  <2>3. Placed'
    BY <1>2 DEF RemoveBranch, Placed, AddressOf, EnvBy, ClusterBy, Fits, OnItsBranch, ReadSince
  <2>4. Told' /\ TipsAreLast'
    BY <1>2 DEF RemoveBranch, Told, TipsAreLast, RequestTypeOK
  <2>. QED
    BY <2>2, <2>3, <2>4
<1>3. ASSUME NEW e \in events, NEW chart \in Chart \union {None}, Github(e, chart)
      PROVE  RequestInv'
  <2>1. e \in [event : {"pushed", "deleted"}, ref : Branch, after : Sha \union {0}]
    BY DEF RequestTypeOK
  <2>2. PICK read \in ReadableByHook(e.event, e.ref) :
          Launch([event |-> e.event, env |-> None, ref |-> e.ref, commit |-> e.after,
                  chart |-> ChartAsked(e.event, chart), read |-> read])
    BY <1>3 DEF Github
  <2>. DEFINE r == [event |-> e.event, env |-> None, ref |-> e.ref, commit |-> e.after,
                    chart |-> ChartAsked(e.event, chart), read |-> read]
  <2>3. read \in Setting \union {None}
    BY SettingsRead DEF ReadableByHook
  <2>4. /\ r \in Request /\ r.event # "custom" /\ r.commit <= Len(history)
        /\ r.ref \in Branch /\ r.read \in ReadableByHook(r.event, r.ref)
        /\ r.event = "pushed" => OnItsBranch(r)
    BY <2>1, <2>3 DEF Request, Event, Told, ChartAsked, OnItsBranch
  <2>. HIDE DEF r
  <2>5. Launch(r)
    BY <2>2 DEF r
  <2>6. Fits(r)
    BY <2>4, HooksReadSince DEF Fits
  <2>. QED
    BY <2>4, <2>5, <2>6, LaunchKeeps
<1>4. ASSUME NEW event \in {"pushed", "deleted"}, NEW b \in Branch,
             NEW commit \in Sha \union {0}, NEW env \in Env \union {None},
             NEW chart \in Chart \union {None}, User(event, b, commit, env, chart)
      PROVE  RequestInv'
  <2>. DEFINE given == IF event = "deleted" THEN None ELSE env
  <2>1. PICK read \in ReadableByHook(event, b) :
          Launch([event |-> event, env |-> given, ref |-> b, commit |-> commit,
                  chart |-> ChartAsked(event, chart), read |-> read])
    BY <1>4 DEF User
  <2>. DEFINE r == [event |-> event, env |-> given, ref |-> b, commit |-> commit,
                    chart |-> ChartAsked(event, chart), read |-> read]
  <2>2. read \in Setting \union {None}
    BY SettingsRead DEF ReadableByHook
  <2>3. /\ r \in Request /\ r.event # "custom"
        /\ r.ref \in Branch /\ r.read \in ReadableByHook(r.event, r.ref)
    BY <2>2 DEF Request, Event, ChartAsked
  <2>4. r.commit <= Len(history) /\ OnItsBranch(r)
    BY <1>4 DEF User, RequestTypeOK, OnItsBranch
  <2>. HIDE DEF r
  <2>5. Launch(r)
    BY <2>1 DEF r
  <2>6. Fits(r)
    BY <2>3, <2>4, HooksReadSince DEF Fits
  <2>. QED
    BY <2>3, <2>5, <2>6, LaunchKeeps
<1>5. ASSUME NEW hash \in Hash, NEW env \in Env, Custom(hash, env)
      PROVE  RequestInv'
  <2>1. PICK read \in ReadableByHook("custom", hash) :
          Launch([event |-> "custom", env |-> env, ref |-> hash, commit |-> 0,
                  chart |-> None, read |-> read])
    BY <1>5 DEF Custom
  <2>. DEFINE r == [event |-> "custom", env |-> env, ref |-> hash, commit |-> 0,
                    chart |-> None, read |-> read]
  <2>2. read = None
    BY DEF ReadableByHook, Readable
  <2>3. r \in Request /\ Fits(r)
    BY <2>2, RequestType DEF Request, Event, Fits, RequestTypeOK
  <2>. HIDE DEF r
  <2>4. Launch(r)
    BY <2>1 DEF r
  <2>. QED
    BY <2>3, <2>4, LaunchKeeps
<1>6. ASSUME NEW j \in jobs, JobExpires(j)
      PROVE  RequestInv'
  BY <1>6 DEF JobExpires, forge, RequestTypeOK, Placed, Told, TipsAreLast, AddressOf,
     EnvBy, ClusterBy, Fits, OnItsBranch, ReadSince
<1>7. CASE UNCHANGED requestVars
  BY <1>7 DEF requestVars, forge, RequestTypeOK, Placed, Told, TipsAreLast, AddressOf,
     EnvBy, ClusterBy, Fits, OnItsBranch, ReadSince
<1>. QED
  BY <1>1, <1>2, <1>3, <1>4, <1>5, <1>6, <1>7 DEF RequestNext

LEMMA RequestInvariant == RequestSpec => []RequestInv
BY RequestInits, RequestSteps, PTL DEF RequestSpec

\* The types of the repository, its events and the Jobs.
THEOREM RequestTypesHold == RequestSpec => []RequestTypeOK
BY RequestInvariant, PTL DEF RequestInv

\* What is read of a branch that kept the configuration of a commit, at that
\* commit or since, is that configuration.
LEMMA SameIsRead ==
  ASSUME RequestInv, NEW r \in Request, r.event = "pushed", r.commit # 0, Fits(r),
         SameSince(r.commit), NEW hasKey, NEW read \in Readable("pushed", r.ref, hasKey)
  PROVE  {r.read, read} \subseteq {None, history[r.commit].setting}
<1>. DEFINE b == r.ref
            c == r.commit
<1>1. c \in 1..Len(history) /\ history[c].branch = b
  BY DEF Fits, OnItsBranch, Request, Sha
<1>2. \A i \in c..Len(history) : history[i].branch = b => history[i].setting = history[c].setting
  BY <1>1 DEF SameSince
<1>3. r.read \in {None, history[c].setting}
  BY <1>2 DEF Fits, ReadSince
<1>4. b \in Branch
  BY <1>1, CommitTypes DEF RequestInv
<1>5. CASE read # None
  <2>1. tip[b] # 0 /\ read = history[tip[b]].setting
    BY <1>4, <1>5, BranchRead
  <2>2. tip[b] \in 1..Len(history)
    BY <1>4, <2>1 DEF RequestInv, RequestTypeOK
  <2>3. c <= tip[b] /\ history[tip[b]].branch = b
    BY <1>1, <1>4, <2>1 DEF RequestInv, TipsAreLast
  <2>. QED
    BY <1>1, <1>2, <1>3, <2>1, <2>2, <2>3
<1>. QED
  BY <1>3, <1>5

\* Whatever configurations a repository may have, in any order of pushes,
\* removals, hooks and requests of users, with any reads that fail: the client of
\* a pipeline is led to the Job that was made for it, as long as its branch keeps
\* the configuration of the commit (services/pipeline.js:44-88, pipeline.get.js:
\* 94-140).
THEOREM ClientsAreLedToTheirJob == RequestSpec => []ClientsFindTheirJob
<1>1. RequestInv => ClientsFindTheirJob
  <2>. SUFFICES ASSUME RequestInv, NEW j \in jobs,
                       NEW read \in ReadableByLogs(j.of.event, j.of.ref),
                       \/ j.of.event = "custom"
                       \/ /\ j.of.event = "pushed" /\ j.of.commit # 0
                          /\ SameSince(j.of.commit)
                          /\ None \in {j.of.read, read} =>
                               history[j.of.commit].setting = Plain
                PROVE  Followed(Query(j.of), read) = j.at
    BY DEF ClientsFindTheirJob
  <2>. DEFINE r == j.of
              q == Query(r)
  <2>1. r \in Request /\ j.at = AddressOf(r) /\ Fits(r) /\ r.event # "deleted"
    BY DEF RequestInv, RequestTypeOK, Placed
  <2>2. j.at.env # None /\ j.at.env = EnvBy(r)
    BY <2>1, RequestType DEF RequestInv, RequestTypeOK, Address, AddressOf
  <2>3. /\ q.event = r.event /\ q.ref = r.ref /\ q.commit = r.commit
        /\ q.chart = r.chart
        /\ q.env = IF r.env # None THEN r.env ELSE EnvOf[history[r.commit].setting][r.ref]
    BY <2>1 DEF Query
  <2>4. /\ Config(read) = Config(r.read)
        /\ r.event = "pushed" => Config(r.read) = history[r.commit].setting
    <3>1. CASE r.event = "custom"
      BY <2>1, <3>1 DEF ReadableByLogs, Readable, Fits
    <3>2. CASE r.event = "pushed"
      <4>1. {r.read, read} \subseteq {None, history[r.commit].setting}
        BY <2>1, <3>2, SameIsRead DEF ReadableByLogs
      <4>. QED
        BY <3>2, <4>1 DEF Config
    <3>. QED
      BY <3>1, <3>2
  <2>. HIDE DEF q
  <2>5. q.env = EnvBy(r)
    BY <2>1, <2>3, <2>4 DEF EnvBy, Loaded, Fits
  <2>. DEFINE f == [event |-> q.event, ref |-> q.ref, commit |-> q.commit, read |-> read,
                    env |-> IF q.env # None THEN q.env ELSE EnvOf[Config(read)][q.ref],
                    chart |-> IF q.chart = None /\ q.event = "deleted"
                                THEN "deactivate" ELSE q.chart]
  <2>6. /\ f.event = r.event /\ f.ref = r.ref /\ f.chart = r.chart
        /\ f.env = EnvBy(r) /\ f.read = read /\ f.env # None
    BY <2>1, <2>2, <2>3, <2>5
  <2>7. Followed(q, read) = AddressOf(f)
    BY DEF Followed
  <2>. HIDE DEF f
  <2>8. EnvBy(f) = EnvBy(r)
    BY <2>6 DEF EnvBy
  <2>9. ClusterBy(f) = ClusterBy(r)
    BY <2>4, <2>6, <2>8 DEF ClusterBy
  <2>. QED
    BY <2>1, <2>6, <2>7, <2>8, <2>9 DEF AddressOf, q
<1>. QED
  BY <1>1, RequestInvariant, PTL

=============================================================================
