------------------------- MODULE EventsBucketProofs -------------------------
(***************************************************************************)
(* For every set of names, handlers and events: the event bus loses,       *)
(* duplicates and reorders nothing, and implements EventLog.               *)
(*                                                                         *)
(* The inductive invariant is Inv: the types, ExactlyOnceInOrder, which    *)
(* places every event of a log in the history, in flight or on the stack   *)
(* of each of its handlers, ParkedIsIdle, without which an event pushed to *)
(* a parked iterator could overtake its stack, and Silent: a handler that  *)
(* is not registered holds nothing.                                        *)
(***************************************************************************)
EXTENDS EventsBucket, SequenceTheorems, TLAPS

Silent ==
  \A h \in Handler \ registered :
    stack[h] = <<>> /\ inflight[h] = <<>> /\ heard[h] = <<>> /\ h \notin parked

Inv == TypeOK /\ ParkedIsIdle /\ ExactlyOnceInOrder /\ Silent

\* What PullFrom gives back for one iterator, as facts the steps below use:
\* the value in flight followed by the stack is the sequence pulled from.
LEMMA PullFromFacts ==
  ASSUME TypeOK, NEW h \in Handler, NEW s \in Seq(Event), PullFrom(h, s)
  PROVE  /\ inflight' \in [Handler -> Seq(Event)]
         /\ stack' \in [Handler -> Seq(Event)]
         /\ parked' \in SUBSET Handler
         /\ \A g \in Handler \ {h} : /\ inflight'[g] = inflight[g]
                                     /\ stack'[g] = stack[g]
                                     /\ g \in parked' <=> g \in parked
         /\ h \in parked' => inflight'[h] = <<>> /\ stack'[h] = <<>>
         /\ Len(inflight'[h]) \in {0, 1}
         /\ Len(inflight'[h]) + Len(stack'[h]) = Len(s)
         /\ Len(inflight'[h]) = 1 => inflight'[h][1] = s[1]
         /\ \A i \in 1..Len(stack'[h]) :
              stack'[h][i] = s[Len(inflight'[h]) + i]
<1>1. CASE s = <<>>
  <2>1. /\ inflight' = [inflight EXCEPT ![h] = <<>>]
        /\ stack' = [stack EXCEPT ![h] = <<>>]
        /\ parked' = parked \union {h}
    BY <1>1 DEF PullFrom
  <2>2. /\ inflight' \in [Handler -> Seq(Event)]
        /\ stack' \in [Handler -> Seq(Event)]
        /\ parked' \in SUBSET Handler
        /\ inflight'[h] = <<>> /\ stack'[h] = <<>>
    BY <2>1 DEF TypeOK
  <2>3. \A g \in Handler \ {h} : /\ inflight'[g] = inflight[g]
                                 /\ stack'[g] = stack[g]
                                 /\ g \in parked' <=> g \in parked
    BY <2>1 DEF TypeOK
  <2>. QED
    BY <1>1, <2>2, <2>3
<1>2. CASE s # <<>>
  <2>1. /\ Head(s) \in Event /\ Head(s) = s[1]
        /\ Tail(s) \in Seq(Event) /\ Len(Tail(s)) = Len(s) - 1
        /\ \A i \in 1..Len(Tail(s)) : Tail(s)[i] = s[i + 1]
    BY <1>2
  <2>2. /\ inflight' = [inflight EXCEPT ![h] = <<Head(s)>>]
        /\ stack' = [stack EXCEPT ![h] = Tail(s)]
        /\ parked' = parked \ {h}
    BY <1>2 DEF PullFrom
  <2>. QED
    BY <2>1, <2>2 DEF TypeOK
<1>. QED
  BY <1>1, <1>2

\* A step that leaves a handler and its log alone leaves them aligned.
LEMMA AlignedFrame ==
  ASSUME NEW g \in Handler, Aligned(g),
         inflight'[g] = inflight[g], stack'[g] = stack[g], heard'[g] = heard[g],
         fullstack'[NameOf[g]] = fullstack[NameOf[g]]
  PROVE  Aligned(g)'
BY DEF Aligned, Counted, HeardAligned, InflightAligned, StackAligned

\* Lengths are natural numbers, and no length is zero but that of <<>>.
LEMMA Lengths ==
  ASSUME TypeOK, NEW g \in Handler
  PROVE  /\ Len(heard[g]) \in Nat /\ Len(inflight[g]) \in Nat
         /\ Len(stack[g]) \in Nat /\ Len(fullstack[NameOf[g]]) \in Nat
         /\ inflight[g] # <<>> => Len(inflight[g]) > 0
<1>1. /\ heard[g] \in Seq(Event) /\ inflight[g] \in Seq(Event)
      /\ stack[g] \in Seq(Event) /\ fullstack[NameOf[g]] \in Seq(Event)
  BY NameOfType DEF TypeOK
<1>. QED
  BY <1>1, EmptySeq

LEMMA InitInv == Init => Inv
BY DEF Init, Inv, TypeOK, ParkedIsIdle, ExactlyOnceInOrder, Silent

\* Subscribing keeps the invariant: the new iterator holds the whole log.
LEMMA OnInv == ASSUME Inv, NEW h \in Handler, On(h) PROVE Inv'
<1>. DEFINE n == NameOf[h]
<1>1. n \in Name /\ fullstack[n] \in Seq(Event)
  BY NameOfType DEF Inv, TypeOK
<1>2. /\ PullFrom(h, fullstack[n])
      /\ registered' = registered \union {h}
      /\ UNCHANGED <<fullstack, heard>>
      /\ heard[h] = <<>>
  BY DEF On, Replay, Inv, Silent
<1>3. TypeOK'
  BY <1>1, <1>2, PullFromFacts DEF Inv, TypeOK
<1>4. ParkedIsIdle'
  BY <1>1, <1>2, PullFromFacts DEF Inv, ParkedIsIdle, TypeOK
<1>5. ASSUME NEW g \in registered' PROVE Aligned(g)'
  <2>1. CASE g = h
    <3>1. /\ Len(inflight'[h]) \in {0, 1}
          /\ Len(inflight'[h]) + Len(stack'[h]) = Len(fullstack[n])
          /\ Len(inflight'[h]) = 1 => inflight'[h][1] = fullstack[n][1]
          /\ \A i \in 1..Len(stack'[h]) :
               stack'[h][i] = fullstack[n][Len(inflight'[h]) + i]
      BY <1>1, <1>2, PullFromFacts DEF Inv
    <3>2. /\ inflight'[h] \in Seq(Event) /\ stack'[h] \in Seq(Event)
          /\ fullstack[n] \in Seq(Event)
      BY <1>1, <1>3 DEF TypeOK
    <3>3. Len(heard'[h]) = 0 /\ fullstack' = fullstack
      BY <1>2
    <3>4. Counted(h)'
      <4>1. 0 + Len(inflight'[h]) + Len(stack'[h]) = Len(fullstack[n])
        BY <3>1, <3>2, <1>3 DEF TypeOK
      <4>. QED
        BY <3>1, <3>3, <4>1 DEF Counted
    <3>5. HeardAligned(h)'
      BY <3>3 DEF HeardAligned
    <3>6. InflightAligned(h)'
      BY <3>1, <3>3 DEF InflightAligned
    <3>7. StackAligned(h)'
      <4>1. \A i \in 1..Len(stack'[h]) :
              0 + Len(inflight'[h]) + i = Len(inflight'[h]) + i
        BY <1>3 DEF TypeOK
      <4>. QED
        BY <3>1, <3>3, <4>1 DEF StackAligned
    <3>. QED
      BY <2>1, <3>4, <3>5, <3>6, <3>7 DEF Aligned
  <2>2. CASE g # h
    <3>1. g \in Handler /\ g \in registered /\ Aligned(g)
      BY <1>2, <2>2 DEF Inv, TypeOK, ExactlyOnceInOrder
    <3>2. /\ inflight'[g] = inflight[g] /\ stack'[g] = stack[g]
          /\ heard'[g] = heard[g] /\ fullstack' = fullstack
      BY <1>1, <1>2, <2>2, <3>1, PullFromFacts DEF Inv
    <3>. QED
      BY <3>1, <3>2, AlignedFrame
  <2>. QED BY <2>1, <2>2
<1>6. Silent'
  BY <1>1, <1>2, PullFromFacts DEF Inv, Silent
<1>. QED
  BY <1>3, <1>4, <1>5, <1>6 DEF Inv, ExactlyOnceInOrder

\* A callback moves one event from in flight to the history and pulls.
LEMMA DeliverInv == ASSUME Inv, NEW h \in Handler, Deliver(h) PROVE Inv'
<1>1. /\ stack[h] \in Seq(Event) /\ inflight[h] \in Seq(Event)
      /\ heard[h] \in Seq(Event) /\ inflight[h] # <<>>
      /\ h \in registered
  BY DEF Inv, TypeOK, Silent, Deliver
<1>2. Aligned(h) /\ fullstack[NameOf[h]] \in Seq(Event)
  BY <1>1, NameOfType DEF Inv, ExactlyOnceInOrder, TypeOK
<1>3. Len(inflight[h]) = 1 /\ Head(inflight[h]) = inflight[h][1]
      /\ inflight[h][1] \in Event
  <2>1. Len(inflight[h]) \in {0, 1}
    BY <1>2 DEF Aligned, Counted
  <2>2. Len(inflight[h]) = 1
    BY <1>1, <2>1, Lengths DEF Inv
  <2>. QED
    BY <1>1, <2>2
<1>4. /\ heard' = [heard EXCEPT ![h] = Append(@, inflight[h][1])]
      /\ PullFrom(h, stack[h])
      /\ UNCHANGED <<fullstack, registered>>
  BY <1>3 DEF Deliver
<1>5. /\ heard' \in [Handler -> Seq(Event)]
      /\ heard'[h] = Append(heard[h], inflight[h][1])
      /\ \A g \in Handler \ {h} : heard'[g] = heard[g]
  BY <1>3, <1>4 DEF Inv, TypeOK
<1>6. TypeOK'
  BY <1>1, <1>4, <1>5, PullFromFacts DEF Inv, TypeOK
<1>7. ParkedIsIdle'
  BY <1>1, <1>4, PullFromFacts DEF Inv, ParkedIsIdle, TypeOK
<1>8. ASSUME NEW g \in registered' PROVE Aligned(g)'
  <2>1. CASE g = h
    <3>. DEFINE L == fullstack[NameOf[h]]
                D == Len(heard[h])
    <3>1. /\ heard[h] \in Seq(Event) /\ stack[h] \in Seq(Event)
          /\ inflight'[h] \in Seq(Event) /\ stack'[h] \in Seq(Event)
          /\ L \in Seq(Event)
      BY <1>1, <1>2, <1>6 DEF TypeOK
    <3>2. D + 1 + Len(stack[h]) = Len(L)
      BY <1>2, <1>3 DEF Aligned, Counted
    <3>3. Len(heard'[h]) = D + 1 /\ fullstack' = fullstack
      BY <1>1, <1>3, <1>4, <1>5
    <3>4. /\ Len(inflight'[h]) \in {0, 1}
          /\ Len(inflight'[h]) + Len(stack'[h]) = Len(stack[h])
          /\ Len(inflight'[h]) = 1 => inflight'[h][1] = stack[h][1]
          /\ \A i \in 1..Len(stack'[h]) :
               stack'[h][i] = stack[h][Len(inflight'[h]) + i]
      BY <1>1, <1>4, PullFromFacts DEF Inv
    <3>5. \A i \in 1..Len(stack[h]) : stack[h][i] = L[D + 1 + i]
      BY <1>2, <1>3 DEF Aligned, StackAligned
    <3>6. \A i \in 1..(D + 1) : heard'[h][i] = L[i]
      <4>1. \A i \in 1..D : heard[h][i] = L[i]
        BY <1>2 DEF Aligned, HeardAligned
      <4>2. inflight[h][1] = L[D + 1]
        BY <1>2, <1>3 DEF Aligned, InflightAligned
      <4>3. /\ \A i \in 1..D : heard'[h][i] = heard[h][i]
            /\ heard'[h][D + 1] = inflight[h][1]
        BY <1>1, <1>3, <1>5
      <4>. TAKE i \in 1..(D + 1)
      <4>4. CASE i = D + 1
        BY <4>2, <4>3, <4>4
      <4>5. CASE i # D + 1
        <5>1. i \in 1..D
          BY <3>1, <4>5
        <5>. QED
          BY <4>1, <4>3, <5>1
      <4>. QED
        BY <4>4, <4>5
    <3>7. Counted(h)'
      <4>1. (D + 1) + Len(inflight'[h]) + Len(stack'[h]) = Len(L)
        <5>1. D + 1 + (Len(inflight'[h]) + Len(stack'[h])) = Len(L)
          BY <3>2, <3>4
        <5>2. D + 1 + (Len(inflight'[h]) + Len(stack'[h]))
                = (D + 1) + Len(inflight'[h]) + Len(stack'[h])
          BY <1>6 DEF Inv, TypeOK
        <5>. QED
          BY <5>1, <5>2
      <4>. QED
        BY <3>3, <3>4, <4>1 DEF Counted
    <3>8. HeardAligned(h)'
      BY <3>3, <3>6 DEF HeardAligned
    <3>9. InflightAligned(h)'
      <4>1. ASSUME Len(inflight'[h]) = 1 PROVE inflight'[h][1] = L[D + 1 + 1]
        <5>1. 1 \in 1..Len(stack[h])
          BY <3>1, <3>4, <4>1
        <5>. QED
          BY <3>4, <3>5, <4>1, <5>1
      <4>. QED
        BY <3>3, <4>1 DEF InflightAligned
    <3>10. StackAligned(h)'
      <4>1. ASSUME NEW i \in 1..Len(stack'[h])
            PROVE  stack'[h][i] = L[(D + 1) + Len(inflight'[h]) + i]
        <5>1. /\ Len(inflight'[h]) + i \in 1..Len(stack[h])
              /\ D + 1 + (Len(inflight'[h]) + i) = (D + 1) + Len(inflight'[h]) + i
          BY <3>1, <3>4, <1>6, <1>1, <1>2 DEF Inv, TypeOK
        <5>. QED
          BY <3>4, <3>5, <5>1
      <4>. QED
        BY <3>3, <4>1 DEF StackAligned
    <3>. QED
      BY <2>1, <3>7, <3>8, <3>9, <3>10 DEF Aligned
  <2>2. CASE g # h
    <3>1. g \in Handler /\ g \in registered /\ Aligned(g)
      BY <1>4 DEF Inv, TypeOK, ExactlyOnceInOrder
    <3>2. /\ inflight'[g] = inflight[g] /\ stack'[g] = stack[g]
          /\ heard'[g] = heard[g] /\ fullstack' = fullstack
      BY <1>1, <1>4, <1>5, <2>2, <3>1, PullFromFacts DEF Inv
    <3>. QED
      BY <3>1, <3>2, AlignedFrame
  <2>. QED BY <2>1, <2>2
<1>9. Silent'
  <2>1. ASSUME NEW g \in Handler \ registered'
        PROVE  /\ stack'[g] = stack[g] /\ inflight'[g] = inflight[g]
               /\ heard'[g] = heard[g] /\ (g \in parked' <=> g \in parked)
               /\ g \in Handler \ registered
    <3>1. g \in Handler \ {h} /\ g \notin registered
      BY <1>1, <1>4, <2>1
    <3>2. heard'[g] = heard[g]
      BY <1>5, <3>1
    <3>. QED
      BY <1>1, <1>4, <3>1, <3>2, PullFromFacts DEF Inv
  <2>. QED
    BY <2>1 DEF Inv, Silent
<1>. QED
  BY <1>6, <1>7, <1>8, <1>9 DEF Inv, ExactlyOnceInOrder

\* An emitted event is in flight for the parked handlers, stacked for others.
LEMMA EmitInv ==
  ASSUME Inv, NEW n \in Name, NEW e \in Event, Emit(n, e) PROVE Inv'
<1>. DEFINE woken == Subscribers(n) \intersect parked
            late  == Subscribers(n) \ parked
<1>1. /\ fullstack' = [fullstack EXCEPT ![n] = Append(@, e)]
      /\ inflight' = [h \in Handler |-> IF h \in woken THEN <<e>> ELSE inflight[h]]
      /\ stack' = [h \in Handler |->
                     IF h \in late THEN Append(stack[h], e) ELSE stack[h]]
      /\ parked' = parked \ woken
      /\ UNCHANGED <<registered, heard>>
  BY DEF Emit, ParkedAfter
<1>2. TypeOK'
  BY <1>1 DEF Inv, TypeOK
<1>3. ParkedIsIdle'
  BY <1>1 DEF Inv, ParkedIsIdle, TypeOK, Subscribers
<1>4. ASSUME NEW g \in registered' PROVE Aligned(g)'
  <2>. DEFINE L == fullstack[NameOf[g]]
  <2>1. /\ g \in Handler /\ g \in registered /\ Aligned(g)
        /\ NameOf[g] \in Name /\ L \in Seq(Event)
        /\ heard[g] \in Seq(Event) /\ inflight[g] \in Seq(Event)
        /\ stack[g] \in Seq(Event) /\ heard'[g] = heard[g]
    BY <1>1, NameOfType DEF Inv, TypeOK, ExactlyOnceInOrder
  <2>2. CASE NameOf[g] # n
    <3>1. fullstack'[NameOf[g]] = L /\ inflight'[g] = inflight[g]
          /\ stack'[g] = stack[g]
      BY <1>1, <2>1, <2>2 DEF Subscribers, Inv, TypeOK
    <3>. QED
      BY <2>1, <3>1, AlignedFrame
  <2>3. CASE NameOf[g] = n
    <3>1. /\ fullstack'[NameOf[g]] = Append(L, e)
          /\ Len(Append(L, e)) = Len(L) + 1
          /\ \A i \in 1..Len(L) : Append(L, e)[i] = L[i]
          /\ Append(L, e)[Len(L) + 1] = e
      BY <1>1, <2>1, <2>3 DEF Inv, TypeOK
    <3>2. CASE g \in parked
      <4>1. stack[g] = <<>> /\ inflight[g] = <<>> /\ g \in woken
        BY <2>1, <2>3, <3>2 DEF Inv, ParkedIsIdle, Subscribers
      <4>2. inflight'[g] = <<e>> /\ stack'[g] = <<>>
        BY <1>1, <2>1, <4>1
      <4>3. Len(L) = Len(heard[g]) /\ Len(L) \in Nat
        BY <2>1, <4>1 DEF Aligned, Counted
      <4>4. \A i \in 1..Len(L) : heard[g][i] = L[i]
        BY <2>1, <4>3 DEF Aligned, HeardAligned
      <4>5. Counted(g)'
        BY <2>1, <3>1, <4>2, <4>3 DEF Counted
      <4>6. HeardAligned(g)'
        BY <2>1, <3>1, <4>3, <4>4 DEF HeardAligned
      <4>7. InflightAligned(g)'
        BY <2>1, <3>1, <4>2, <4>3 DEF InflightAligned
      <4>8. StackAligned(g)'
        BY <4>2 DEF StackAligned
      <4>. QED
        BY <4>5, <4>6, <4>7, <4>8 DEF Aligned
    <3>3. CASE g \notin parked
      <4>1. inflight'[g] = inflight[g] /\ stack'[g] = Append(stack[g], e)
        BY <1>1, <2>1, <2>3, <3>3 DEF Subscribers
      <4>2. /\ Len(stack'[g]) = Len(stack[g]) + 1
            /\ \A i \in 1..Len(stack[g]) : stack'[g][i] = stack[g][i]
            /\ stack'[g][Len(stack[g]) + 1] = e
        BY <2>1, <4>1
      <4>3. /\ Len(heard[g]) \in Nat /\ Len(inflight[g]) \in Nat
            /\ Len(stack[g]) \in Nat /\ Len(L) \in Nat
        BY <2>1
      <4>4. /\ Len(inflight[g]) \in {0, 1}
            /\ Len(heard[g]) + Len(inflight[g]) + Len(stack[g]) = Len(L)
        BY <2>1 DEF Aligned, Counted
      <4>5. Counted(g)'
        <5>1. Len(heard[g]) + Len(inflight[g]) + (Len(stack[g]) + 1)
                = Len(L) + 1
          BY <2>1, <4>4, NameOfType, Z3 DEF Inv, TypeOK
        <5>. QED
          BY <2>1, <3>1, <4>1, <4>2, <4>4, <5>1 DEF Counted
      <4>6. HeardAligned(g)'
        <5>1. \A i \in 1..Len(heard[g]) : heard[g][i] = L[i]
          BY <2>1 DEF Aligned, HeardAligned
        <5>2. \A i \in 1..Len(heard[g]) : i \in 1..Len(L)
          BY <2>1, <4>4 DEF Inv, TypeOK
        <5>. QED
          BY <2>1, <3>1, <5>1, <5>2 DEF HeardAligned
      <4>7. InflightAligned(g)'
        <5>1. ASSUME Len(inflight[g]) = 1
              PROVE  inflight[g][1] = Append(L, e)[Len(heard[g]) + 1]
          <6>1. inflight[g][1] = L[Len(heard[g]) + 1]
            BY <2>1, <5>1 DEF Aligned, InflightAligned
          <6>2. Len(heard[g]) + 1 \in 1..Len(L)
            BY <2>1, <4>4, <5>1 DEF Inv, TypeOK
          <6>. QED
            BY <3>1, <6>1, <6>2
        <5>. QED
          BY <2>1, <3>1, <4>1, <5>1 DEF InflightAligned
      <4>8. StackAligned(g)'
        <5>. DEFINE at(i) == Len(heard[g]) + Len(inflight[g]) + i
        <5>1. ASSUME NEW i \in 1..Len(stack'[g])
              PROVE  stack'[g][i] = Append(L, e)[at(i)]
          <6>1. CASE i = Len(stack[g]) + 1
            <7>1. at(i) = Len(L) + 1
              BY <2>1, <4>4, <6>1, NameOfType DEF Inv, TypeOK
            <7>. QED
              BY <3>1, <4>2, <6>1, <7>1
          <6>2. CASE i # Len(stack[g]) + 1
            <7>1. i \in 1..Len(stack[g]) /\ at(i) \in 1..Len(L)
              BY <2>1, <4>2, <4>4, <6>2 DEF Inv, TypeOK
            <7>2. stack[g][i] = L[at(i)]
              BY <2>1, <7>1 DEF Aligned, StackAligned
            <7>. QED
              BY <3>1, <4>2, <7>1, <7>2
          <6>. QED BY <6>1, <6>2
        <5>. QED
          BY <2>1, <3>1, <4>1, <5>1 DEF StackAligned
      <4>. QED
        BY <4>5, <4>6, <4>7, <4>8 DEF Aligned
    <3>. QED BY <3>2, <3>3
  <2>. QED BY <2>2, <2>3
<1>5. Silent'
  BY <1>1 DEF Inv, Silent, Subscribers, TypeOK
<1>. QED
  BY <1>2, <1>3, <1>4, <1>5 DEF Inv, ExactlyOnceInOrder

LEMMA NextInv == Inv /\ [Next]_vars => Inv'
<1>1. ASSUME Inv, UNCHANGED vars PROVE Inv'
  BY <1>1 DEF Inv, vars, TypeOK, ParkedIsIdle, ExactlyOnceInOrder, Silent,
              Aligned, Counted, HeardAligned, InflightAligned, StackAligned
<1>. QED
  BY <1>1, OnInv, DeliverInv, EmitInv DEF Next

\* The invariant and its parts hold in every run.
LEMMA Invariance == Spec => []Inv
BY InitInv, NextInv, PTL DEF Spec

\* The types of events-bucket.js:10-31: logs and stacks hold events only.
THEOREM TypeCorrect == Spec => []TypeOK
<1>1. Inv => TypeOK
  BY DEF Inv
<1>. QED
  BY <1>1, Invariance, PTL

\* No handler loses, repeats or reorders an event, whenever it subscribes.
THEOREM Delivery == Spec => []ExactlyOnceInOrder
<1>1. Inv => ExactlyOnceInOrder
  BY DEF Inv
<1>. QED
  BY <1>1, Invariance, PTL

\* No consumer sleeps on a resolver while an event waits in its iterator.
THEOREM NoSleepingConsumer == Spec => []ParkedIsIdle
<1>1. Inv => ParkedIsIdle
  BY DEF Inv
<1>. QED
  BY <1>1, Invariance, PTL

-----------------------------------------------------------------------------
\* Each step of the bucket is a step of the log its clients rely on: emitting
\* publishes, a callback hears the next event of the log, subscribing stutters.
LEMMA StepRefines == Inv /\ [Next]_vars => [Abstract!Next]_(Abstract!vars)
<1>. SUFFICES ASSUME Inv, [Next]_vars PROVE [Abstract!Next]_(Abstract!vars)
  OBVIOUS
<1>1. ASSUME NEW n \in Name, NEW e \in Event, Emit(n, e)
      PROVE  Abstract!Publish(n, e)
  BY <1>1 DEF Emit, Abstract!Publish
<1>2. ASSUME NEW h \in Handler, On(h) PROVE UNCHANGED Abstract!vars
  BY <1>2 DEF On, Abstract!vars
<1>3. ASSUME NEW h \in Handler, Deliver(h) PROVE Abstract!Hear(h)
  <2>1. /\ heard[h] \in Seq(Event) /\ inflight[h] \in Seq(Event)
        /\ stack[h] \in Seq(Event)
        /\ inflight[h] # <<>> /\ h \in registered
    BY <1>3 DEF Inv, TypeOK, Silent, Deliver
  <2>2. Aligned(h)
    BY <2>1 DEF Inv, ExactlyOnceInOrder
  <2>3. Len(inflight[h]) > 0 /\ fullstack[NameOf[h]] \in Seq(Event)
    BY Lengths, <2>1, NameOfType DEF Inv, TypeOK
  <2>4. /\ Len(inflight[h]) \in {0, 1}
        /\ Len(heard[h]) + Len(inflight[h]) + Len(stack[h])
             = Len(fullstack[NameOf[h]])
    BY <2>2 DEF Aligned, Counted
  <2>5. Len(inflight[h]) = 1 /\ Len(heard[h]) < Len(fullstack[NameOf[h]])
    BY <2>1, <2>3, <2>4 DEF Inv, TypeOK
  <2>6. Head(inflight[h]) = fullstack[NameOf[h]][Len(heard[h]) + 1]
    BY <2>1, <2>2, <2>5 DEF Aligned, InflightAligned
  <2>7. /\ heard' = [heard EXCEPT ![h] = Append(@, Head(inflight[h]))]
        /\ UNCHANGED fullstack
    BY <1>3 DEF Deliver
  <2>. QED
    BY <2>5, <2>6, <2>7 DEF Abstract!Hear
<1>4. CASE UNCHANGED vars
  BY <1>4 DEF vars, Abstract!vars
<1>. QED
  BY <1>1, <1>2, <1>3, <1>4 DEF Next, Abstract!Next

\* The event bus implements EventLog.
THEOREM Refinement == Spec => ImplementsEventLog
<1>1. Init => Abstract!Init
  BY DEF Init, Abstract!Init
<1>. QED
  BY <1>1, Invariance, StepRefines, PTL
     DEF Spec, ImplementsEventLog, Abstract!Spec
=============================================================================
