--------------------------- MODULE AuditTrail_proofs ---------------------------
(***************************************************************************)
(* The audit trail with any number of writers, incidents and events and    *)
(* any length of the global list: forced events are never found without    *)
(* their anomaly, the lists agree, and nothing is lost that the code does  *)
(* not give up.                                                            *)
(***************************************************************************)
EXTENDS AuditTrail, SequenceTheorems, TLAPS

(* A writer has something to persist just when it is not idle, at most an  *)
(* anomaly and the event it accuses, in this order.                        *)
Queues ==
  \A w \in Writers :
    /\ at[w] = "idle" <=> todo[w] = <<>>
    /\ Len(todo[w]) <= 2
    /\ Len(todo[w]) = 2 => event[todo[w][1]].accuses = todo[w][2]

(* An anomaly is created right after the event it accuses; of an event     *)
(* that was not created yet nothing is said.                               *)
EventsSound ==
  \A e \in Events : /\ event[e].accuses \in {0, e - 1}
                    /\ e > made => event[e] = Unsaid

(* Whatever is stored or about to be was created.                          *)
Created ==
  /\ Stored \subseteq 1..made
  /\ \A w \in Writers : RangeOf(todo[w]) \subseteq 1..made

Base == TypeOK /\ Queues /\ EventsSound /\ Created

(* The queue of a writer that is not idle.                                 *)
LEMMA QueueTyped ==
  ASSUME Base, NEW w \in Writers, at[w] # "idle"
  PROVE  /\ todo[w] \in Seq(Events) /\ todo[w] # <<>> /\ Len(todo[w]) \in 1..2
         /\ Now(w) = todo[w][1] /\ Now(w) \in Events /\ Now(w) \in 1..made
         /\ Tail(todo[w]) \in Seq(Events) /\ Len(Tail(todo[w])) = Len(todo[w]) - 1
         /\ Len(todo[w]) = 2 => Tail(todo[w])[1] = todo[w][2]
         /\ RangeOf(Tail(todo[w])) \subseteq RangeOf(todo[w])
<1>1. todo[w] \in Seq(Events) /\ todo[w] # <<>> /\ Len(todo[w]) <= 2
  BY DEF Base, TypeOK, Queues
<1>2. Len(todo[w]) \in 1..2 /\ DOMAIN todo[w] = 1..Len(todo[w])
  <2>1. Len(todo[w]) \in Nat \ {0}
    BY <1>1, EmptySeq
  <2>2. DOMAIN todo[w] = 1..Len(todo[w])
    BY <1>1, LenProperties
  <2>3. \A n \in Nat \ {0} : n <= 2 => n \in 1..2
    OBVIOUS
  <2>4. Len(todo[w]) \in 1..2
    BY <1>1, <2>1, <2>3
  <2> QED
    BY <2>2, <2>4
<1>3. /\ Head(todo[w]) \in Events /\ Head(todo[w]) = todo[w][1]
      /\ Tail(todo[w]) \in Seq(Events) /\ Len(Tail(todo[w])) = Len(todo[w]) - 1
      /\ \A i \in 1..Len(Tail(todo[w])) : Tail(todo[w])[i] = todo[w][i + 1]
  BY <1>1, HeadTailProperties
<1>4. DOMAIN Tail(todo[w]) = 1..(Len(todo[w]) - 1)
  BY <1>3, LenProperties
<1>5. RangeOf(Tail(todo[w])) \subseteq RangeOf(todo[w])
  BY <1>2, <1>3, <1>4 DEF RangeOf
<1>6. Now(w) \in RangeOf(todo[w])
  BY <1>2, <1>3 DEF Now, RangeOf
<1>7. Now(w) \in 1..made
  BY <1>6 DEF Base, Created
<1> QED
  BY <1>1, <1>2, <1>3, <1>5, <1>7 DEF Now

(* Appending, pushing copies and trimming: what the lists' ranges become.  *)
LEMMA AppendRange ==
  ASSUME NEW s \in Seq(Events), NEW e \in Events
  PROVE  Append(s, e) \in Seq(Events) /\ RangeOf(Append(s, e)) = RangeOf(s) \cup {e}
<1>1. /\ Append(s, e) \in Seq(Events) /\ Len(Append(s, e)) = Len(s) + 1
      /\ \A i \in 1..Len(s) : Append(s, e)[i] = s[i]
      /\ Append(s, e)[Len(s) + 1] = e
  BY AppendProperties
<1>2. /\ DOMAIN s = 1..Len(s) /\ Len(s) \in Nat
      /\ DOMAIN Append(s, e) = 1..(Len(s) + 1)
  BY <1>1, LenProperties
<1> QED
  BY <1>1, <1>2 DEF RangeOf

LEMMA PushRange ==
  ASSUME NEW s \in Seq(Events), NEW e \in Events, NEW n \in Nat
  PROVE  LET t == [i \in 1..n |-> e] \o s
         IN  t \in Seq(Events) /\ RangeOf(t) \subseteq RangeOf(s) \cup {e}
<1> DEFINE c == [i \in 1..n |-> e]
           t == c \o s
<1>1. c \in Seq(Events)
  OBVIOUS
<1>2. Len(c) = n
  OBVIOUS
<1>3. /\ t \in Seq(Events) /\ Len(t) = n + Len(s)
      /\ \A i \in 1..(n + Len(s)) : t[i] = IF i <= n THEN c[i] ELSE s[i - n]
  BY <1>1, <1>2, ConcatProperties
<1>4. DOMAIN t = 1..(n + Len(s)) /\ DOMAIN s = 1..Len(s) /\ Len(s) \in Nat
  BY <1>3, LenProperties
<1>5. ASSUME NEW i \in DOMAIN t PROVE t[i] \in RangeOf(s) \cup {e}
  <2>1. CASE i <= n
    BY <1>3, <1>4, <2>1
  <2>2. CASE ~(i <= n)
    <3>1. t[i] = s[i - n] /\ i - n \in DOMAIN s
      BY <1>3, <1>4, <2>2
    <3> QED
      BY <3>1 DEF RangeOf
  <2> QED
    BY <2>1, <2>2
<1> QED
  BY <1>3, <1>5 DEF RangeOf

LEMMA TrimRange ==
  ASSUME NEW s \in Seq(Events)
  PROVE  Shortest(Limit, s) \in Seq(Events) /\ RangeOf(Shortest(Limit, s)) \subseteq RangeOf(s)
<1> DEFINE n == IF Len(s) < Limit THEN Len(s) ELSE Limit
<1>1. Len(s) \in Nat /\ DOMAIN s = 1..Len(s) /\ n \in 0..Len(s)
  BY TrailAssumption, LenProperties DEF TrailAssumption
<1>2. \A i \in 1..n : s[i] \in Events
  BY <1>1, ElementOfSeq
<1>3. /\ SubSeq(s, 1, n) \in Seq(Events)
      /\ Len(SubSeq(s, 1, n)) = IF 1 <= n THEN n - 1 + 1 ELSE 0
      /\ \A i \in 1..(n - 1 + 1) : SubSeq(s, 1, n)[i] = s[1 + i - 1]
  <2>1. 1 \in Int /\ n \in Int
    BY <1>1
  <2> HIDE DEF n
  <2> QED
    BY <1>2, <2>1, SubSeqProperties
<1>4. DOMAIN SubSeq(s, 1, n) = 1..n
  <2>1. Len(SubSeq(s, 1, n)) = n
    BY <1>1, <1>3
  <2> QED
    BY <1>3, <2>1, LenProperties
<1>5. \A i \in 1..n : SubSeq(s, 1, n)[i] = s[i] /\ i \in DOMAIN s
  BY <1>1, <1>3
<1> QED
  BY <1>3, <1>4, <1>5 DEF Shortest, RangeOf
-----------------------------------------------------------------------------
(* What an event log_event may create says.                                *)
LEMMA SaidTyped ==
  ASSUME NEW k \in Keys, NEW said \in Said(k), NEW e \in 0..MaxEvents
  PROVE  /\ said \in Sayings /\ said.accuses = 0
         /\ Forced(said) \in Sayings /\ Forced(said).accuses = 0
         /\ Anomaly(said, e) \in Sayings /\ Anomaly(said, e).accuses = e
<1>1. 0 \in 0..MaxEvents
  BY TrailAssumption DEF TrailAssumption
<1>2. said \in Sayings /\ said.accuses = 0
  BY <1>1 DEF Said, Sayings
<1> QED
  BY <1>2 DEF Sayings, Forced, Anomaly

(* Logging keeps the base: it names new events and queues them.            *)
LEMMA LogKeeps ==
  ASSUME Base, NEW w \in Writers, NEW k \in KeysOf(w), Log(w, k)
  PROVE  Base'
<1> USE TrailAssumption DEF TrailAssumption
<1>1. k \in Keys
  BY DEF KeysOf, Keys
<1>2. /\ made \in Nat /\ made <= MaxEvents /\ event \in [Events -> Sayings]
      /\ todo \in [Writers -> Seq(Events)]
      /\ at \in [Writers -> {"idle", "remember", "push", "trim", "pushOwn", "send"}]
  BY DEF Base, TypeOK
<1>3. /\ at[w] = "idle" /\ at' = [at EXCEPT ![w] = "remember"]
      /\ UNCHANGED <<memory, global, own, remote, file, external, returned, cut, unwritten>>
  BY DEF Log, redisVars, history
<1>4. Stored' = Stored
  BY <1>3 DEF Stored
<1>5. ASSUME NEW queue \in Seq(Events), todo' = [todo EXCEPT ![w] = queue],
             Len(queue) \in 1..2, Len(queue) = 2 => event'[queue[1]].accuses = queue[2],
             RangeOf(queue) \subseteq 1..made', made' \in Nat, made < made', made' <= MaxEvents,
             event' \in [Events -> Sayings],
             \A e \in 1..made : event'[e] = event[e]
      PROVE  TypeOK' /\ Queues' /\ Created'
  <2>1. TypeOK'
    BY <1>2, <1>3, <1>5 DEF Base, TypeOK
  <2>2. Queues'
    <3> SUFFICES ASSUME NEW v \in Writers
                 PROVE  /\ at'[v] = "idle" <=> todo'[v] = <<>>
                        /\ Len(todo'[v]) <= 2
                        /\ Len(todo'[v]) = 2 => event'[todo'[v][1]].accuses = todo'[v][2]
      BY DEF Queues
    <3>1. CASE v = w
      <4>1. todo'[v] = queue /\ at'[v] = "remember"
        BY <1>2, <1>3, <1>5, <3>1
      <4>2. queue # <<>>
        BY <1>5, EmptySeq, SMTT(30)
      <4>3. \A n \in 1..2 : n <= 2
        OBVIOUS
      <4>4. Len(queue) <= 2
        BY <1>5, <4>3
      <4> QED
        BY <1>5, <4>1, <4>2, <4>4
    <3>2. CASE v # w
      <4>1. todo'[v] = todo[v] /\ at'[v] = at[v] /\ todo[v] \in Seq(Events)
        BY <1>2, <1>3, <1>5, <3>2
      <4>2. /\ at[v] = "idle" <=> todo[v] = <<>>
            /\ Len(todo[v]) <= 2
            /\ Len(todo[v]) = 2 => event[todo[v][1]].accuses = todo[v][2]
        BY DEF Base, Queues
      <4>3. Len(todo[v]) = 2 => todo[v][1] \in 1..made
        <5> SUFFICES ASSUME Len(todo[v]) = 2 PROVE todo[v][1] \in 1..made
          OBVIOUS
        <5>1. 1 \in DOMAIN todo[v]
          BY <4>1, LenProperties
        <5> QED
          BY <5>1 DEF Base, Created, RangeOf
      <4> QED
        BY <1>5, <4>1, <4>2, <4>3
    <3> QED
      BY <3>1, <3>2
  <2>3. Created'
    <3>1. Stored' \subseteq 1..made'
      BY <1>2, <1>4, <1>5 DEF Base, Created
    <3>2. ASSUME NEW v \in Writers PROVE RangeOf(todo'[v]) \subseteq 1..made'
      <4>1. RangeOf(todo[v]) \subseteq 1..made
        BY DEF Base, Created
      <4>2. todo'[v] = todo[v] \/ todo'[v] = queue
        BY <1>2, <1>5
      <4> QED
        BY <1>2, <1>5, <4>1, <4>2
    <3> QED
      BY <3>1, <3>2 DEF Created, RangeOf
  <2> QED
    BY <2>1, <2>2, <2>3
<1>6. ASSUME NEW said \in Said(k), LogPlain(w, said) PROVE Base'
  <2>1. /\ made' = made + 1 /\ made' <= MaxEvents
        /\ event' = [event EXCEPT ![made + 1] = said]
        /\ todo' = [todo EXCEPT ![w] = <<made + 1>>]
    BY <1>2, <1>6 DEF LogPlain
  <2>2. /\ made + 1 \in Events /\ said \in Sayings /\ said.accuses = 0
        /\ made' \in Nat /\ made < made' /\ made' <= MaxEvents
    <3>1. 0 \in 0..MaxEvents
      OBVIOUS
    <3>2. said \in Sayings /\ said.accuses = 0
      BY <1>1, <1>6, <3>1, SaidTyped
    <3>3. made + 1 \in Events
      BY <1>2, <2>1 DEF Events
    <3>4. made' \in Nat /\ made < made' /\ made' <= MaxEvents
      BY <1>2, <2>1
    <3> QED
      BY <3>2, <3>3, <3>4
  <2>3. event' \in [Events -> Sayings] /\ \A e \in 1..made : event'[e] = event[e]
    <3>1. event' \in [Events -> Sayings]
      BY <1>2, <2>1, <2>2
    <3>2. \A e \in 1..made : e \in Events /\ e # made + 1
      BY <1>2, <2>1 DEF Events
    <3> QED
      BY <1>2, <2>1, <3>1, <3>2
  <2>4. /\ <<made + 1>> \in Seq(Events) /\ Len(<<made + 1>>) = 1 /\ 1 \in 1..2
        /\ RangeOf(<<made + 1>>) \subseteq 1..made'
    BY <1>2, <2>1, <2>2 DEF RangeOf
  <2>5. TypeOK' /\ Queues' /\ Created'
    <3> DEFINE queue == <<made + 1>>
    <3>1. /\ queue \in Seq(Events) /\ todo' = [todo EXCEPT ![w] = queue]
          /\ Len(queue) \in 1..2 /\ (Len(queue) = 2 => event'[queue[1]].accuses = queue[2])
          /\ RangeOf(queue) \subseteq 1..made'
      BY <2>1, <2>4
    <3> HIDE DEF queue
    <3> QED
      BY <1>5, <2>2, <2>3, <3>1
  <2>6. EventsSound'
    <3> SUFFICES ASSUME NEW e \in Events
                 PROVE  /\ event'[e].accuses \in {0, e - 1}
                        /\ e > made' => event'[e] = Unsaid
      BY DEF EventsSound
    <3>1. CASE e = made + 1
      <4>1. event'[e] = said
        BY <1>2, <2>1, <2>2, <3>1
      <4> QED
        BY <1>2, <2>1, <2>2, <3>1, <4>1
    <3>2. CASE e # made + 1
      <4>1. event'[e] = event[e]
        BY <1>2, <2>1, <3>2
      <4> QED
        BY <1>2, <2>1, <3>2, <4>1 DEF Base, EventsSound, Events
    <3> QED
      BY <3>1, <3>2
  <2> QED
    BY <2>5, <2>6 DEF Base
<1>7. ASSUME NEW said \in Said(k), LogViolation(w, said) PROVE Base'
  <2> DEFINE e1 == made + 1
             e2 == made + 2
  <2>1. /\ made' = made + 2 /\ made' <= MaxEvents
        /\ event' = [event EXCEPT ![e1] = Forced(said), ![e2] = Anomaly(said, e1)]
        /\ todo' = [todo EXCEPT ![w] = <<e2, e1>>]
    BY <1>2, <1>7 DEF LogViolation
  <2>2. /\ e1 \in Events /\ e2 \in Events /\ e1 # e2 /\ e1 \in 0..MaxEvents
        /\ made' \in Nat /\ made < made' /\ made' <= MaxEvents
    BY <1>2, <2>1 DEF Events
  <2>3. /\ Forced(said) \in Sayings /\ Forced(said).accuses = 0
        /\ Anomaly(said, e1) \in Sayings /\ Anomaly(said, e1).accuses = e1
    <3> HIDE DEF e1
    <3> QED
      BY <1>1, <1>7, <2>2, SaidTyped
  <2>4. /\ event'[e1] = Forced(said) /\ event'[e2] = Anomaly(said, e1)
        /\ \A e \in Events : e # e1 /\ e # e2 => event'[e] = event[e]
        /\ event' \in [Events -> Sayings]
    <3> HIDE DEF e1, e2
    <3> QED
      BY <1>2, <2>1, <2>2, <2>3
  <2>5. \A e \in 1..made : event'[e] = event[e]
    BY <1>2, <2>1, <2>4 DEF Events
  <2>6. /\ <<e2, e1>> \in Seq(Events) /\ Len(<<e2, e1>>) = 2 /\ 2 \in 1..2
        /\ <<e2, e1>>[1] = e2 /\ <<e2, e1>>[2] = e1
        /\ RangeOf(<<e2, e1>>) \subseteq 1..made'
    BY <1>2, <2>1, <2>2 DEF RangeOf
  <2>7. event'[e2].accuses = e1
    BY <2>3, <2>4
  <2>8. TypeOK' /\ Queues' /\ Created'
    <3> DEFINE queue == <<e2, e1>>
    <3>1. /\ queue \in Seq(Events) /\ todo' = [todo EXCEPT ![w] = queue]
          /\ Len(queue) \in 1..2 /\ event'[queue[1]].accuses = queue[2]
          /\ RangeOf(queue) \subseteq 1..made'
      BY <2>1, <2>6, <2>7
    <3> HIDE DEF queue, e1, e2
    <3> QED
      BY <1>5, <2>2, <2>4, <2>5, <3>1
  <2>9. EventsSound'
    <3> SUFFICES ASSUME NEW e \in Events
                 PROVE  /\ event'[e].accuses \in {0, e - 1}
                        /\ e > made' => event'[e] = Unsaid
      BY DEF EventsSound
    <3>1. CASE e = e1
      BY <1>2, <2>1, <2>3, <2>4, <3>1
    <3>2. CASE e = e2
      BY <1>2, <2>1, <2>3, <2>4, <3>2
    <3>3. CASE e # e1 /\ e # e2
      <4>1. event'[e] = event[e]
        BY <2>4, <3>3
      <4> QED
        BY <1>2, <2>1, <3>3, <4>1 DEF Base, EventsSound, Events
    <3> QED
      BY <3>1, <3>2, <3>3
  <2> QED
    BY <2>8, <2>9 DEF Base
<1> QED
  BY <1>6, <1>7 DEF Log
-----------------------------------------------------------------------------
(* A command of a writer that stays with its event.                        *)
Command(w) == Remember(w) \/ Push(w) \/ Trim(w) \/ PushOwn(w) \/ RedisFails(w)

(* Commands store nothing but the event at hand, and name no event.        *)
LEMMA CommandStores ==
  ASSUME Base, NEW w \in Writers, Command(w)
  PROVE  /\ at[w] \in {"remember", "push", "trim", "pushOwn"}
         /\ UNCHANGED <<made, event, todo, remote, file, external, returned, unwritten>>
         /\ \E to \in {"push", "trim", "pushOwn", "send"} :
              /\ at' = [at EXCEPT ![w] = to]
              /\ IF to = "push" THEN /\ at[w] = "remember" /\ global' = global
                                     /\ memory' = Append(memory, Now(w))
                                ELSE at[w] # "remember" /\ memory' = memory
              /\ to = "send" => Now(w) \in own'[event[Now(w)].key] \cup cut'
         /\ memory' \in Seq(Events) /\ RangeOf(memory) \subseteq RangeOf(memory')
         /\ RangeOf(memory') \subseteq RangeOf(memory) \cup {Now(w)}
         /\ global' \in Seq(Events) /\ RangeOf(global') \subseteq RangeOf(global) \cup {Now(w)}
         /\ own' \in [Keys -> SUBSET Events]
         /\ \A k \in Keys : own[k] \subseteq own'[k] /\ own'[k] \subseteq own[k] \cup {Now(w)}
         /\ cut \subseteq cut' /\ cut' \subseteq cut \cup {Now(w)}
<1>1. /\ memory \in Seq(Events) /\ global \in Seq(Events) /\ own \in [Keys -> SUBSET Events]
      /\ event \in [Events -> Sayings]
  BY DEF Base, TypeOK
<1>2. ASSUME at[w] # "idle" PROVE Now(w) \in Events /\ event[Now(w)].key \in Keys
  BY <1>1, <1>2, QueueTyped DEF Sayings
<1>3. CASE Remember(w)
  <2>1. /\ at[w] = "remember" /\ memory' = Append(memory, Now(w))
        /\ at' = [at EXCEPT ![w] = "push"]
        /\ UNCHANGED <<made, event, todo, global, own, remote, file, external, returned, cut, unwritten>>
    BY <1>3 DEF Remember, WriterAt, redisVars, history
  <2>2. memory' \in Seq(Events) /\ RangeOf(memory') = RangeOf(memory) \cup {Now(w)}
    BY <1>1, <1>2, <2>1, AppendRange
  <2> QED
    BY <1>1, <2>1, <2>2
<1>4. ASSUME NEW n \in Nat, Pushed(w, n), at[w] # "idle"
      PROVE  global' \in Seq(Events) /\ RangeOf(global') \subseteq RangeOf(global) \cup {Now(w)}
  BY <1>1, <1>2, <1>4, PushRange DEF Pushed
<1>5. ASSUME OwnPushed(w), at[w] # "idle"
      PROVE  /\ own' \in [Keys -> SUBSET Events]
             /\ \A k \in Keys : own[k] \subseteq own'[k] /\ own'[k] \subseteq own[k] \cup {Now(w)}
             /\ Now(w) \in own'[event[Now(w)].key]
  BY <1>1, <1>2, <1>5 DEF OwnPushed
<1>6. CASE Push(w)
  <2>1. /\ at[w] = "push" /\ at' = [at EXCEPT ![w] = "trim"]
        /\ UNCHANGED <<made, event, todo, memory, own, remote, file, external, returned, cut, unwritten>>
    BY <1>6 DEF Push, WriterAt
  <2>2. \E n \in {1, 2} : Pushed(w, n)
    BY <1>6 DEF Push
  <2>3. global' \in Seq(Events) /\ RangeOf(global') \subseteq RangeOf(global) \cup {Now(w)}
    BY <1>4, <2>1, <2>2
  <2> QED
    BY <1>1, <2>1, <2>3
<1>7. CASE Trim(w)
  <2>1. /\ at[w] = "trim" /\ at' = [at EXCEPT ![w] = "pushOwn"] /\ global' = Shortest(Limit, global)
        /\ UNCHANGED <<made, event, todo, memory, own, remote, file, external, returned, cut, unwritten>>
    BY <1>7 DEF Trim, WriterAt
  <2>2. global' \in Seq(Events) /\ RangeOf(global') \subseteq RangeOf(global)
    BY <1>1, <2>1, TrimRange
  <2> QED
    BY <1>1, <2>1, <2>2
<1>8. CASE PushOwn(w)
  <2>1. /\ at[w] = "pushOwn" /\ at' = [at EXCEPT ![w] = "send"] /\ OwnPushed(w)
        /\ UNCHANGED <<made, event, todo, memory, global, remote, file, external, returned, cut, unwritten>>
    BY <1>8 DEF PushOwn, WriterAt, history
  <2>2. /\ own' \in [Keys -> SUBSET Events] /\ Now(w) \in own'[event[Now(w)].key]
        /\ \A k \in Keys : own[k] \subseteq own'[k] /\ own'[k] \subseteq own[k] \cup {Now(w)}
    BY <1>5, <2>1
  <2> QED
    BY <1>1, <2>1, <2>2
<1>9. CASE RedisFails(w)
  <2>1. /\ at[w] \in {"push", "trim", "pushOwn"} /\ at' = [at EXCEPT ![w] = "send"]
        /\ cut' = cut \cup {Now(w)}
        /\ UNCHANGED <<made, event, todo, memory, remote, file, external, returned, unwritten>>
    BY <1>9 DEF RedisFails
  <2>2. \/ UNCHANGED own /\ \E n \in 0..1 : Pushed(w, n)
        \/ UNCHANGED <<global, own>>
        \/ UNCHANGED global /\ OwnPushed(w)
    BY <1>9 DEF RedisFails, redisVars
  <2>3. global' \in Seq(Events) /\ RangeOf(global') \subseteq RangeOf(global) \cup {Now(w)}
    BY <1>1, <1>4, <2>1, <2>2
  <2>4. /\ own' \in [Keys -> SUBSET Events]
        /\ \A k \in Keys : own[k] \subseteq own'[k] /\ own'[k] \subseteq own[k] \cup {Now(w)}
    BY <1>1, <1>5, <2>1, <2>2
  <2> QED
    BY <1>1, <2>1, <2>3, <2>4
<1> QED
  BY <1>3, <1>6, <1>7, <1>8, <1>9 DEF Command

LEMMA CommandKeeps ==
  ASSUME Base, NEW w \in Writers, Command(w) PROVE Base'
<1>1. /\ at[w] # "idle" /\ UNCHANGED <<made, event, todo, remote, file, external, returned, unwritten>>
      /\ memory' \in Seq(Events) /\ RangeOf(memory') \subseteq RangeOf(memory) \cup {Now(w)}
      /\ global' \in Seq(Events) /\ RangeOf(global') \subseteq RangeOf(global) \cup {Now(w)}
      /\ own' \in [Keys -> SUBSET Events]
      /\ \A k \in Keys : own'[k] \subseteq own[k] \cup {Now(w)}
      /\ cut' \subseteq cut \cup {Now(w)}
  BY CommandStores
<1>2. PICK to \in {"push", "trim", "pushOwn", "send"} : at' = [at EXCEPT ![w] = to]
  BY CommandStores, Zenon
<1>3. Now(w) \in Events /\ Now(w) \in 1..made /\ todo[w] # <<>>
  BY <1>1, QueueTyped
<1>4. cut' \subseteq Events
  BY <1>1, <1>3 DEF Base, TypeOK
<1>5. TypeOK'
  BY <1>1, <1>2, <1>4 DEF Base, TypeOK
<1>6. Queues'
  <2> SUFFICES ASSUME NEW v \in Writers PROVE at'[v] = "idle" <=> todo[v] = <<>>
    BY <1>1 DEF Base, Queues
  <2>1. at \in [Writers -> {"idle", "remember", "push", "trim", "pushOwn", "send"}]
    BY DEF Base, TypeOK
  <2> QED
    BY <1>1, <1>2, <1>3, <2>1 DEF Base, Queues
<1>7. EventsSound'
  BY <1>1 DEF Base, EventsSound
<1>8. Stored' \subseteq Stored \cup {Now(w)}
  BY <1>1 DEF Stored
<1>9. Created'
  <2>1. \A v \in Writers : RangeOf(todo'[v]) \subseteq 1..made'
    BY <1>1 DEF Base, Created, RangeOf
  <2> QED
    BY <1>1, <1>3, <1>8, <2>1 DEF Base, Created
<1> QED
  BY <1>5, <1>6, <1>7, <1>9 DEF Base

(* What is sent is stored in one place, or the file fails it; the writer   *)
(* goes on to its next event.                                              *)
LEMMA SendStores ==
  ASSUME Base, NEW w \in Writers, Send(w)
  PROVE  /\ at[w] = "send"
         /\ todo' = [todo EXCEPT ![w] = Tail(todo[w])]
         /\ at' = [at EXCEPT ![w] = IF Len(todo[w]) > 1 THEN "remember" ELSE "idle"]
         /\ UNCHANGED <<made, event, memory, global, own, external, cut>>
         /\ returned' = returned \cup {Now(w)}
         /\ remote \subseteq remote' /\ remote' \subseteq remote \cup {Now(w)}
         /\ file \subseteq file' /\ file' \subseteq file \cup {Now(w)}
         /\ unwritten \subseteq unwritten' /\ unwritten' \subseteq unwritten \cup {Now(w)}
         /\ Now(w) \in remote' \cup file' \cup unwritten'
<1>1. /\ at[w] = "send" /\ Delivered(Now(w))
      /\ todo' = [todo EXCEPT ![w] = Tail(todo[w])]
      /\ at' = [at EXCEPT ![w] = IF Len(todo[w]) > 1 THEN "remember" ELSE "idle"]
      /\ UNCHANGED <<made, event, memory, global, own, external, cut>>
      /\ returned' = returned \cup {Now(w)}
  BY DEF Send, redisVars
<1>2. /\ remote \subseteq remote' /\ remote' \subseteq remote \cup {Now(w)}
      /\ file \subseteq file' /\ file' \subseteq file \cup {Now(w)}
      /\ unwritten \subseteq unwritten' /\ unwritten' \subseteq unwritten \cup {Now(w)}
      /\ Now(w) \in remote' \cup file' \cup unwritten'
  <2> DEFINE e == Now(w)
  <2>1. \/ remote' = remote \cup {e} /\ file' = file /\ unwritten' = unwritten
        \/ file' = file \cup {e} /\ remote' = remote /\ unwritten' = unwritten
        \/ unwritten' = unwritten \cup {e} /\ remote' = remote /\ file' = file
    BY <1>1 DEF Delivered
  <2> HIDE DEF e
  <2>2. /\ remote \subseteq remote' /\ remote' \subseteq remote \cup {e}
        /\ file \subseteq file' /\ file' \subseteq file \cup {e}
        /\ unwritten \subseteq unwritten' /\ unwritten' \subseteq unwritten \cup {e}
        /\ e \in remote' \cup file' \cup unwritten'
    BY <2>1
  <2> QED
    BY <2>2 DEF e
<1> QED
  BY <1>1, <1>2

LEMMA SendKeeps ==
  ASSUME Base, NEW w \in Writers, Send(w) PROVE Base'
<1>1. /\ at[w] = "send"
      /\ todo' = [todo EXCEPT ![w] = Tail(todo[w])]
      /\ at' = [at EXCEPT ![w] = IF Len(todo[w]) > 1 THEN "remember" ELSE "idle"]
      /\ UNCHANGED <<made, event, memory, global, own, external, cut>>
      /\ returned' = returned \cup {Now(w)}
      /\ remote' \subseteq remote \cup {Now(w)} /\ file' \subseteq file \cup {Now(w)}
      /\ unwritten' \subseteq unwritten \cup {Now(w)}
  BY SendStores
<1>2. /\ todo[w] \in Seq(Events) /\ Len(todo[w]) \in 1..2
      /\ Now(w) \in Events /\ Now(w) \in 1..made
      /\ Tail(todo[w]) \in Seq(Events) /\ Len(Tail(todo[w])) = Len(todo[w]) - 1
      /\ RangeOf(Tail(todo[w])) \subseteq RangeOf(todo[w])
  BY <1>1, QueueTyped
<1>3. remote' \subseteq Events /\ file' \subseteq Events /\ unwritten' \subseteq Events
  BY <1>1, <1>2 DEF Base, TypeOK
<1>4. TypeOK'
  <2>1. /\ returned' \subseteq Events /\ todo' \in [Writers -> Seq(Events)]
        /\ at' \in [Writers -> {"idle", "remember", "push", "trim", "pushOwn", "send"}]
    BY <1>1, <1>2 DEF Base, TypeOK
  <2> QED
    BY <1>1, <1>3, <2>1 DEF Base, TypeOK
<1>5. Queues'
  <2> SUFFICES ASSUME NEW v \in Writers
               PROVE  /\ at'[v] = "idle" <=> todo'[v] = <<>>
                      /\ Len(todo'[v]) <= 2
                      /\ Len(todo'[v]) = 2 => event[todo'[v][1]].accuses = todo'[v][2]
    BY <1>1 DEF Queues
  <2>1. /\ at \in [Writers -> {"idle", "remember", "push", "trim", "pushOwn", "send"}]
        /\ todo \in [Writers -> Seq(Events)]
    BY DEF Base, TypeOK
  <2>2. CASE v # w
    <3>1. at'[v] = at[v] /\ todo'[v] = todo[v]
      BY <1>1, <2>1, <2>2
    <3> QED
      BY <3>1 DEF Base, Queues
  <2>3. CASE v = w
    <3>1. /\ todo'[v] = Tail(todo[w])
          /\ at'[v] = IF Len(todo[w]) > 1 THEN "remember" ELSE "idle"
      BY <1>1, <2>1, <2>3
    <3>2. \/ Len(todo[w]) = 1 /\ ~(Len(todo[w]) > 1) /\ Len(Tail(todo[w])) = 0
          \/ Len(todo[w]) = 2 /\ Len(todo[w]) > 1 /\ Len(Tail(todo[w])) = 1
      <4> DEFINE n == Len(todo[w])
                 m == Len(Tail(todo[w]))
      <4>1. n \in 1..2 /\ m = n - 1
        BY <1>2
      <4> HIDE DEF n, m
      <4>2. (n = 1 /\ ~(n > 1) /\ m = 0) \/ (n = 2 /\ n > 1 /\ m = 1)
        BY <4>1
      <4> QED
        BY <4>2 DEF n, m
    <3>3. Tail(todo[w]) = <<>> <=> Len(Tail(todo[w])) = 0
      BY <1>2, EmptySeq
    <3>4. Len(Tail(todo[w])) <= 2 /\ Len(Tail(todo[w])) # 2
      <4>1. 0 <= 2 /\ 0 # 2 /\ 1 <= 2 /\ 1 # 2
        OBVIOUS
      <4> QED
        BY <3>2, <4>1
    <3>5. at'[v] = "idle" <=> Tail(todo[w]) = <<>>
      BY <3>1, <3>2, <3>3
    <3> QED
      BY <3>1, <3>4, <3>5
  <2> QED
    BY <2>2, <2>3
<1>6. EventsSound'
  BY <1>1 DEF Base, EventsSound
<1>7. Created'
  <2>1. Stored' \subseteq Stored \cup {Now(w)}
    BY <1>1 DEF Stored
  <2>2. ASSUME NEW v \in Writers PROVE RangeOf(todo'[v]) \subseteq 1..made
    <3>1. RangeOf(todo[v]) \subseteq 1..made /\ RangeOf(todo[w]) \subseteq 1..made
      BY DEF Base, Created
    <3>2. todo'[v] = todo[v] \/ todo'[v] = Tail(todo[w])
      BY <1>1 DEF Base, TypeOK
    <3> QED
      BY <1>2, <3>1, <3>2
  <2> QED
    BY <1>1, <1>2, <2>1, <2>2 DEF Base, Created, RangeOf
<1> QED
  BY <1>4, <1>5, <1>6, <1>7 DEF Base

(* A list that expires, and a process that ends, lose what is noted as cut.*)
LEMMA ExpireKeeps ==
  ASSUME Base, NEW k \in Keys, Expire(k) PROVE Base'
<1>1. /\ own' = [own EXCEPT ![k] = {}] /\ cut' = cut \cup own[k]
      /\ UNCHANGED <<made, event, todo, at, memory, global, remote, file, external, returned, unwritten>>
  BY DEF Expire
<1>2. own \in [Keys -> SUBSET Events]
  BY DEF Base, TypeOK
<1>3. own' \in [Keys -> SUBSET Events] /\ \A j \in Keys : own'[j] \subseteq own[j]
  BY <1>1, <1>2
<1>4. TypeOK'
  BY <1>1, <1>2, <1>3 DEF Base, TypeOK
<1>5. Queues' /\ EventsSound'
  BY <1>1 DEF Base, Queues, EventsSound
<1>6. Stored' \subseteq Stored
  BY <1>1, <1>3 DEF Stored
<1>7. Created'
  BY <1>1, <1>6 DEF Base, Created, RangeOf
<1> QED
  BY <1>4, <1>5, <1>7 DEF Base

LEMMA CrashStores ==
  ASSUME Base, Crash
  PROVE  /\ memory' = <<>> /\ RangeOf(memory') = {}
         /\ \/ external /\ UNCHANGED <<global, own>>
            \/ ~external /\ global' = <<>> /\ RangeOf(global') = {} /\ own' = [j \in Keys |-> {}]
         /\ cut \subseteq cut' /\ cut' \subseteq Events
         /\ \A w \in Writers : RangeOf(todo[w]) \subseteq cut'
         /\ todo' = [w \in Writers |-> <<>>] /\ at' = [w \in Writers |-> "idle"]
         /\ UNCHANGED <<made, event, remote, file, external, returned, unwritten>>
<1> DEFINE lost == UNION {{todo[w][i] : i \in DOMAIN todo[w]} : w \in Writers}
<1>1. /\ memory' = <<>> /\ cut' = cut \cup lost
      /\ IF external THEN UNCHANGED redisVars ELSE global' = <<>> /\ own' = [j \in Keys |-> {}]
      /\ todo' = [w \in Writers |-> <<>>] /\ at' = [w \in Writers |-> "idle"]
      /\ UNCHANGED <<made, event, remote, file, external, returned, unwritten>>
  BY DEF Crash
<1>2. \A w \in Writers : RangeOf(todo[w]) \subseteq lost
  BY DEF RangeOf
<1>3. lost \subseteq Events
  <2> SUFFICES ASSUME NEW w \in Writers, NEW i \in DOMAIN todo[w] PROVE todo[w][i] \in Events
    OBVIOUS
  <2>1. todo[w] \in Seq(Events)
    BY DEF Base, TypeOK
  <2> QED
    BY <2>1, LenProperties, ElementOfSeq
<1>4. cut \subseteq Events
  BY DEF Base, TypeOK
<1>5. RangeOf(<<>>) = {}
  BY DEF RangeOf
<1> HIDE DEF lost
<1> QED
  BY <1>1, <1>2, <1>3, <1>4, <1>5 DEF redisVars

LEMMA CrashKeeps ==
  ASSUME Base, Crash PROVE Base'
<1>1. /\ memory' = <<>> /\ RangeOf(memory') = {}
      /\ \/ external /\ UNCHANGED <<global, own>>
         \/ ~external /\ global' = <<>> /\ RangeOf(global') = {} /\ own' = [j \in Keys |-> {}]
      /\ cut' \subseteq Events
      /\ todo' = [w \in Writers |-> <<>>] /\ at' = [w \in Writers |-> "idle"]
      /\ UNCHANGED <<made, event, remote, file, external, returned, unwritten>>
  BY CrashStores
<1>2. <<>> \in Seq(Events) /\ Len(<<>>) = 0 /\ RangeOf(<<>>) = {}
  BY DEF RangeOf
<1>3. TypeOK'
  <2>1. global' \in Seq(Events) /\ own' \in [Keys -> SUBSET Events]
    BY <1>1, <1>2 DEF Base, TypeOK
  <2> QED
    BY <1>1, <1>2, <2>1 DEF Base, TypeOK
<1>4. Queues'
  BY <1>1, <1>2 DEF Queues
<1>5. EventsSound'
  BY <1>1 DEF Base, EventsSound
<1>6. Stored' \subseteq Stored
  <2>1. CASE external /\ UNCHANGED <<global, own>>
    BY <1>1, <2>1 DEF Stored
  <2>2. CASE ~external /\ global' = <<>> /\ RangeOf(global') = {} /\ own' = [j \in Keys |-> {}]
    BY <1>1, <2>2 DEF Stored
  <2> QED
    BY <1>1, <2>1, <2>2
<1>7. \A w \in Writers : RangeOf(todo'[w]) \subseteq 1..made'
  BY <1>1, <1>2
<1>8. Created'
  BY <1>1, <1>6, <1>7 DEF Base, Created, RangeOf
<1> QED
  BY <1>3, <1>4, <1>5, <1>8 DEF Base

(* The writer's new events come after all others, and accuse none of them; *)
(* the first to be persisted is accused by none.                           *)
LEMMA LogStores ==
  ASSUME Base, NEW w \in Writers, NEW k \in KeysOf(w), Log(w, k)
  PROVE  /\ at[w] = "idle" /\ at' = [at EXCEPT ![w] = "remember"]
         /\ UNCHANGED <<memory, global, own, remote, file, external, returned, cut, unwritten>>
         /\ \A v \in Writers : v # w => todo'[v] = todo[v]
         /\ \A e \in 1..made : event'[e] = event[e]
         /\ \A a \in Events : /\ event'[a].accuses # Now(w)'
                              /\ event'[a].accuses \in 1..made => event'[a] = event[a]
<1> USE TrailAssumption DEF TrailAssumption
<1> DEFINE Names == /\ \A v \in Writers : v # w => todo'[v] = todo[v]
                    /\ \A e \in 1..made : event'[e] = event[e]
                    /\ \A a \in Events :
                         /\ event'[a].accuses # Now(w)'
                         /\ event'[a].accuses \in 1..made => event'[a] = event[a]
<1>0. k \in Keys
  BY DEF KeysOf, Keys
<1>1. /\ made \in Nat /\ made <= MaxEvents /\ event \in [Events -> Sayings]
      /\ todo \in [Writers -> Seq(Events)]
  BY DEF Base, TypeOK
<1>2. /\ at[w] = "idle" /\ at' = [at EXCEPT ![w] = "remember"]
      /\ UNCHANGED <<memory, global, own, remote, file, external, returned, cut, unwritten>>
  BY DEF Log, redisVars, history
<1>3. \A a \in Events : /\ event[a].accuses \in {0, a - 1}
                        /\ a > made => event[a].accuses = 0
  BY DEF Base, EventsSound, Unsaid
<1>4. ASSUME NEW said \in Said(k), LogPlain(w, said)
      PROVE  Names
  <2>1. /\ made + 1 \in Events /\ todo' = [todo EXCEPT ![w] = <<made + 1>>]
        /\ event' = [event EXCEPT ![made + 1] = said]
    BY <1>1, <1>4 DEF LogPlain, Events
  <2>2. Now(w)' = made + 1 /\ \A v \in Writers : v # w => todo'[v] = todo[v]
    BY <1>1, <2>1 DEF Now
  <2>3. /\ event'[made + 1].accuses = 0
        /\ \A e \in Events : e # made + 1 => event'[e] = event[e]
    <3>1. said.accuses = 0
      BY <1>0, <1>4, SaidTyped
    <3> QED
      BY <1>1, <2>1, <3>1
  <2>4. \A e \in 1..made : e \in Events /\ e # made + 1
    BY <1>1, <2>1 DEF Events
  <2>5. ASSUME NEW a \in Events
        PROVE  /\ event'[a].accuses # made + 1
               /\ event'[a].accuses \in 1..made => event'[a] = event[a]
    <3>1. CASE a = made + 1
      BY <1>1, <2>3, <3>1
    <3>2. CASE a # made + 1
      <4>1. event'[a] = event[a]
        BY <2>3, <3>2
      <4>2. event[a].accuses # made + 1
        BY <1>1, <1>3, <3>2 DEF Events
      <4> QED
        BY <4>1, <4>2
    <3> QED
      BY <3>1, <3>2
  <2> QED
    BY <2>2, <2>3, <2>4, <2>5
<1>5. ASSUME NEW said \in Said(k), LogViolation(w, said)
      PROVE  Names
  <2> DEFINE e1 == made + 1
             e2 == made + 2
  <2>1. /\ e1 \in Events /\ e2 \in Events /\ e1 # e2
        /\ todo' = [todo EXCEPT ![w] = <<e2, e1>>]
        /\ event' = [event EXCEPT ![e1] = Forced(said), ![e2] = Anomaly(said, e1)]
    BY <1>1, <1>5 DEF LogViolation, Events
  <2>2. Now(w)' = e2 /\ \A v \in Writers : v # w => todo'[v] = todo[v]
    <3> HIDE DEF e1, e2
    <3> QED
      BY <1>1, <2>1 DEF Now
  <2>3. /\ event'[e1].accuses = 0 /\ event'[e2].accuses = e1
        /\ \A e \in Events : e # e1 /\ e # e2 => event'[e] = event[e]
    <3> HIDE DEF e1, e2
    <3> QED
      <4>1. Forced(said).accuses = 0 /\ Anomaly(said, e1).accuses = e1
        BY <1>0, <1>5, <2>1, SaidTyped DEF Events
      <4> QED
        BY <1>1, <2>1, <4>1
  <2>4. \A e \in 1..made : e \in Events /\ e # e1 /\ e # e2
    BY <1>1, <2>1 DEF Events
  <2>5. ASSUME NEW a \in Events
        PROVE  /\ event'[a].accuses # e2
               /\ event'[a].accuses \in 1..made => event'[a] = event[a]
    <3>1. CASE a = e1
      BY <1>1, <2>3, <3>1
    <3>2. CASE a = e2
      BY <1>1, <2>3, <3>2
    <3>3. CASE a # e1 /\ a # e2
      <4>1. event'[a] = event[a]
        BY <2>3, <3>3
      <4>2. event[a].accuses # e2
        BY <1>1, <1>3, <3>3 DEF Events
      <4> QED
        BY <4>1, <4>2
    <3> QED
      BY <3>1, <3>2, <3>3
  <2> QED
    BY <2>2, <2>3, <2>4, <2>5
<1> QED
  BY <1>2, <1>4, <1>5 DEF Log

(* The steps there are.                                                    *)
LEMMA StepCases ==
  ASSUME [Next]_vars
  PROVE  \/ \E w \in Writers : \/ \E k \in KeysOf(w) : Log(w, k)
                               \/ Command(w) \/ Send(w)
         \/ \E k \in Keys : Expire(k)
         \/ Crash
         \/ UNCHANGED <<made, event, todo, at, memory, global, own, remote, file, external,
                        returned, cut, unwritten>>
  BY DEF Next, Persist, Command, vars, redisVars, history

LEMMA BaseKept == ASSUME Base, [Next]_vars PROVE Base'
<1>1. CASE UNCHANGED <<made, event, todo, at, memory, global, own, remote, file, external,
                       returned, cut, unwritten>>
  BY <1>1 DEF Base, TypeOK, Queues, EventsSound, Created, Stored, RangeOf
<1> QED
  BY <1>1, StepCases, LogKeeps, CommandKeeps, SendKeeps, ExpireKeeps, CrashKeeps

LEMMA BaseHolds == Spec => []Base
<1>1. Init => Base
  <2> SUFFICES ASSUME Init PROVE Base
    OBVIOUS
  <2> USE TrailAssumption DEF TrailAssumption
  <2>1. <<>> \in Seq(Events) /\ Len(<<>>) = 0 /\ RangeOf(<<>>) = {}
    BY DEF RangeOf
  <2>2. Unsaid \in Sayings
    BY DEF Unsaid, Sayings, Keys
  <2>3. TypeOK
    BY <2>1, <2>2 DEF Init, TypeOK
  <2>4. Queues
    BY <2>1 DEF Init, Queues
  <2>5. EventsSound
    BY DEF Init, EventsSound, Unsaid
  <2>6. Stored = {}
    BY <2>1 DEF Init, Stored
  <2>7. Created
    BY <2>1, <2>6 DEF Init, Created
  <2> QED
    BY <2>3, <2>4, <2>5, <2>7 DEF Base
<1> QED
  BY <1>1, BaseKept, PTL DEF Spec

(* The trail's places and the writers' positions keep their types.         *)
THEOREM TypeCorrect == Spec => []TypeOK
<1>1. Base => TypeOK
  BY DEF Base
<1> QED
  BY <1>1, BaseHolds, PTL

-----------------------------------------------------------------------------
(* How far a writer is tells what is stored of its event already, and an   *)
(* accused event is persisted only after all of its anomaly's writing.     *)
Progress ==
  \A w \in Writers :
    /\ at[w] \in {"push", "trim", "pushOwn", "send"} => Now(w) \in RangeOf(memory)
    /\ at[w] = "send" => Now(w) \in own[event[Now(w)].key] \cup cut

Accused ==
  \A w \in Writers, a \in Events :
    at[w] # "idle" /\ event[a].accuses = Now(w) =>
      /\ a \in RangeOf(memory)
      /\ a \in own[event[a].key] \cup cut
      /\ a \in remote \cup file \cup unwritten

Reached == Base /\ Progress /\ Accused

(* What is stored of an event stays stored, but for what a week or a crash *)
(* takes.                                                                  *)
LEMMA LogReached ==
  ASSUME Reached, NEW w \in Writers, NEW k \in KeysOf(w), Log(w, k)
  PROVE  (Progress /\ Accused)'
<1>1. /\ at[w] = "idle" /\ at' = [at EXCEPT ![w] = "remember"]
      /\ UNCHANGED <<memory, global, own, remote, file, external, returned, cut, unwritten>>
      /\ \A v \in Writers : v # w => todo'[v] = todo[v]
      /\ \A e \in 1..made : event'[e] = event[e]
      /\ \A a \in Events : /\ event'[a].accuses # Now(w)'
                           /\ event'[a].accuses \in 1..made => event'[a] = event[a]
  BY LogStores DEF Reached
<1>2. at'[w] = "remember" /\ \A v \in Writers : v # w => at'[v] = at[v] /\ Now(v)' = Now(v)
  BY <1>1 DEF Reached, Base, TypeOK, Now
<1>3. \A v \in Writers : at[v] # "idle" => Now(v) \in 1..made
  BY QueueTyped DEF Reached
<1>4. ASSUME NEW v \in Writers
      PROVE  /\ at'[v] \in {"push", "trim", "pushOwn", "send"} => Now(v)' \in RangeOf(memory')
             /\ at'[v] = "send" => Now(v)' \in own'[event'[Now(v)'].key] \cup cut'
  <2>1. CASE v = w
    BY <1>2, <2>1
  <2>2. CASE v # w /\ at[v] # "idle"
    BY <1>1, <1>2, <1>3, <2>2 DEF Reached, Progress, RangeOf
  <2> QED
    BY <1>2, <2>1, <2>2
<1>5. ASSUME NEW v \in Writers, NEW a \in Events, at'[v] # "idle", event'[a].accuses = Now(v)'
      PROVE  /\ a \in RangeOf(memory')
             /\ a \in own'[event'[a].key] \cup cut'
             /\ a \in remote' \cup file' \cup unwritten'
  <2>1. v # w
    BY <1>1, <1>5
  <2>2. at[v] # "idle" /\ Now(v)' = Now(v) /\ Now(v) \in 1..made
    BY <1>2, <1>3, <1>5, <2>1
  <2>3. event'[a] = event[a] /\ event[a].accuses = Now(v)
    BY <1>1, <1>5, <2>2
  <2> QED
    BY <1>1, <2>2, <2>3 DEF Reached, Accused, RangeOf
<1> QED
  BY <1>4, <1>5 DEF Progress, Accused, RangeOf

LEMMA CommandReached ==
  ASSUME Reached, NEW w \in Writers, Command(w)
  PROVE  (Progress /\ Accused)'
<1>1. /\ at[w] \in {"remember", "push", "trim", "pushOwn"}
      /\ UNCHANGED <<made, event, todo, remote, file, external, returned, unwritten>>
      /\ RangeOf(memory) \subseteq RangeOf(memory')
      /\ \A k \in Keys : own[k] \subseteq own'[k]
      /\ cut \subseteq cut'
  BY CommandStores DEF Reached
<1>2. PICK to \in {"push", "trim", "pushOwn", "send"} :
        /\ at' = [at EXCEPT ![w] = to]
        /\ IF to = "push" THEN /\ at[w] = "remember" /\ global' = global
                               /\ memory' = Append(memory, Now(w))
                          ELSE at[w] # "remember" /\ memory' = memory
        /\ to = "send" => Now(w) \in own'[event[Now(w)].key] \cup cut'
  BY CommandStores, Zenon DEF Reached
<1>3. at'[w] = to /\ \A v \in Writers : v # w => at'[v] = at[v]
  BY <1>2 DEF Reached, Base, TypeOK
<1>4. /\ \A v \in Writers : Now(v)' = Now(v)
      /\ \A v \in Writers : at[v] # "idle" => Now(v) \in Events
      /\ \A e \in Events : event[e].key \in Keys
      /\ memory \in Seq(Events)
  <2>1. event \in [Events -> Sayings] /\ memory \in Seq(Events)
    BY DEF Reached, Base, TypeOK
  <2>2. \A v \in Writers : at[v] # "idle" => Now(v) \in Events
    BY QueueTyped DEF Reached
  <2>3. \A v \in Writers : Now(v)' = Now(v)
    BY <1>1 DEF Now
  <2> QED
    BY <2>1, <2>2, <2>3 DEF Sayings
<1>5. ASSUME NEW v \in Writers
      PROVE  /\ at'[v] \in {"push", "trim", "pushOwn", "send"} => Now(v) \in RangeOf(memory')
             /\ at'[v] = "send" => Now(v) \in own'[event[Now(v)].key] \cup cut'
  <2>1. CASE v = w
    <3>1. Now(w) \in RangeOf(memory')
      <4>1. CASE to = "push"
        BY <1>1, <1>2, <1>4, <4>1, AppendRange
      <4>2. CASE to # "push"
        <5>1. at[w] \in {"push", "trim", "pushOwn", "send"}
          BY <1>1, <1>2, <4>2
        <5> QED
          BY <1>1, <5>1 DEF Reached, Progress
      <4> QED
        BY <4>1, <4>2
    <3> QED
      BY <1>2, <1>3, <2>1, <3>1
  <2>2. CASE v # w /\ at[v] # "idle"
    BY <1>1, <1>3, <1>4, <2>2 DEF Reached, Progress
  <2>3. CASE v # w /\ at[v] = "idle"
    BY <1>3, <2>3
  <2> QED
    BY <2>1, <2>2, <2>3
<1>6. ASSUME NEW v \in Writers, NEW a \in Events, at'[v] # "idle", event[a].accuses = Now(v)
      PROVE  /\ a \in RangeOf(memory')
             /\ a \in own'[event[a].key] \cup cut'
             /\ a \in remote \cup file \cup unwritten
  <2>1. at[v] # "idle"
    BY <1>1, <1>3, <1>6
  <2> QED
    BY <1>1, <1>4, <1>6, <2>1 DEF Reached, Accused
<1> QED
  BY <1>1, <1>4, <1>5, <1>6 DEF Progress, Accused, RangeOf

LEMMA SendReached ==
  ASSUME Reached, NEW w \in Writers, Send(w)
  PROVE  (Progress /\ Accused)'
<1>1. /\ at[w] = "send"
      /\ todo' = [todo EXCEPT ![w] = Tail(todo[w])]
      /\ at' = [at EXCEPT ![w] = IF Len(todo[w]) > 1 THEN "remember" ELSE "idle"]
      /\ UNCHANGED <<made, event, memory, global, own, external, cut>>
      /\ remote \subseteq remote' /\ file \subseteq file' /\ unwritten \subseteq unwritten'
      /\ Now(w) \in remote' \cup file' \cup unwritten'
  BY SendStores DEF Reached
<1>2. /\ at \in [Writers -> {"idle", "remember", "push", "trim", "pushOwn", "send"}]
      /\ todo \in [Writers -> Seq(Events)] /\ event \in [Events -> Sayings]
  BY DEF Reached, Base, TypeOK
<1>3. /\ \A v \in Writers : v # w => at'[v] = at[v] /\ Now(v)' = Now(v)
      /\ at'[w] \in {"remember", "idle"} /\ (at'[w] # "idle" => Len(todo[w]) > 1)
      /\ Now(w)' = Head(Tail(todo[w]))
  BY <1>1, <1>2 DEF Now
<1>4. ASSUME NEW v \in Writers
      PROVE  /\ at'[v] \in {"push", "trim", "pushOwn", "send"} => Now(v)' \in RangeOf(memory)
             /\ at'[v] = "send" => Now(v)' \in own[event[Now(v)'].key] \cup cut
  <2>1. CASE v = w
    BY <1>3, <2>1
  <2>2. CASE v # w
    BY <1>3, <2>2 DEF Reached, Progress
  <2> QED
    BY <2>1, <2>2
<1>5. ASSUME NEW v \in Writers, NEW a \in Events, at'[v] # "idle", event[a].accuses = Now(v)'
      PROVE  /\ a \in RangeOf(memory)
             /\ a \in own[event[a].key] \cup cut
             /\ a \in remote' \cup file' \cup unwritten'
  <2>1. CASE v # w
    <3>1. at[v] # "idle" /\ event[a].accuses = Now(v)
      BY <1>3, <1>5, <2>1
    <3> QED
      BY <1>1, <3>1 DEF Reached, Accused
  <2>2. CASE v = w
    <3>1. /\ todo[w] \in Seq(Events) /\ Len(todo[w]) \in 1..2 /\ Now(w) = todo[w][1]
          /\ Now(w) \in Events /\ Tail(todo[w]) \in Seq(Events)
          /\ Len(Tail(todo[w])) = Len(todo[w]) - 1
          /\ Len(todo[w]) = 2 => Tail(todo[w])[1] = todo[w][2]
      BY <1>1, QueueTyped DEF Reached
    <3>2. Len(todo[w]) = 2 /\ Len(Tail(todo[w])) = 1
      <4> DEFINE n == Len(todo[w])
                 m == Len(Tail(todo[w]))
      <4>1. n \in 1..2 /\ n > 1 /\ m = n - 1
        BY <1>3, <1>5, <2>2, <3>1
      <4> HIDE DEF n, m
      <4>2. n = 2 /\ m = 1
        BY <4>1
      <4> QED
        BY <4>2 DEF n, m
    <3>3. Now(w)' = todo[w][2]
      <4>1. Tail(todo[w]) # <<>>
        <5>1. Tail(todo[w]) = <<>> <=> Len(Tail(todo[w])) = 0
          BY <3>1, EmptySeq
        <5>2. 1 # 0
          OBVIOUS
        <5> QED
          BY <3>2, <5>1, <5>2
      <4> QED
        BY <1>3, <3>1, <3>2, <4>1, HeadTailProperties
    <3>4. event[Now(w)].accuses = todo[w][2]
      BY <3>1, <3>2 DEF Reached, Base, Queues
    <3>5. Now(w)' \in Events
      BY <3>1, <3>2, <3>3, ElementOfSeq
    <3>6. a = Now(w)
      <4>1. /\ event[a].accuses \in {0, a - 1}
            /\ event[Now(w)].accuses \in {0, Now(w) - 1}
        BY <3>1 DEF Reached, Base, EventsSound
      <4>2. event[a].accuses = event[Now(w)].accuses /\ event[a].accuses \in Events
        BY <1>5, <2>2, <3>3, <3>4, <3>5
      <4>3. \A i, j \in Events, x \in Events : x \in {0, i - 1} /\ x \in {0, j - 1} => i = j
        BY TrailAssumption DEF TrailAssumption, Events
      <4> QED
        BY <3>1, <4>1, <4>2, <4>3
    <3> QED
      BY <1>1, <3>6 DEF Reached, Progress
  <2> QED
    BY <2>1, <2>2
<1> QED
  BY <1>1, <1>4, <1>5 DEF Progress, Accused, RangeOf

LEMMA ExpireReached ==
  ASSUME Reached, NEW k \in Keys, Expire(k)
  PROVE  (Progress /\ Accused)'
  BY DEF Expire, Progress, Accused

LEMMA CrashReached ==
  ASSUME Reached, Crash
  PROVE  (Progress /\ Accused)'
  BY DEF Crash, Progress, Accused

LEMMA ReachedHolds == Spec => []Reached
<1>1. Init => Progress /\ Accused
  BY DEF Init, Progress, Accused
<1>2. ASSUME Reached, [Next]_vars PROVE (Progress /\ Accused)'
  <2>1. CASE UNCHANGED <<made, event, todo, at, memory, global, own, remote, file, external,
                         returned, cut, unwritten>>
    <3>1. \A w \in Writers : Now(w)' = Now(w)
      BY <2>1 DEF Now
    <3>2. Progress'
      BY <1>2, <2>1, <3>1 DEF Reached, Progress, RangeOf
    <3>3. Accused'
      BY <1>2, <2>1, <3>1 DEF Reached, Accused, RangeOf
    <3> QED
      BY <3>2, <3>3
  <2> QED
    BY <1>2, <2>1, StepCases, LogReached, CommandReached, SendReached, ExpireReached,
       CrashReached
<1> QED
  BY <1>1, <1>2, BaseHolds, PTL DEF Spec, Reached
(* aims_logger.py:18-21: whatever the writers' commands interleave into,   *)
(* an event whose log_event returned is with the AIMS API or in the file   *)
(* unless the file failed it, and in a Redis of its own process unless a   *)
(* command failed or a week has passed.                                    *)
THEOREM KeepsReturned == Spec => []NothingLost
<1>1. Init => NothingLost
  BY DEF Init, NothingLost
<1>2. ASSUME Reached, NothingLost, [Next]_vars PROVE NothingLost'
  <2>1. ASSUME NEW w \in Writers, NEW k \in KeysOf(w), Log(w, k) PROVE NothingLost'
    BY <1>2, <2>1 DEF Log, redisVars, history, NothingLost
  <2>2. ASSUME NEW w \in Writers, Command(w) PROVE NothingLost'
    <3>1. /\ UNCHANGED <<remote, file, external, returned, unwritten>>
          /\ \A k \in Keys : own[k] \subseteq own'[k]
          /\ cut \subseteq cut'
      BY <1>2, <2>2, CommandStores DEF Reached
    <3> QED
      BY <1>2, <3>1 DEF NothingLost
  <2>3. ASSUME NEW w \in Writers, Send(w) PROVE NothingLost'
    <3>1. /\ at[w] = "send" /\ UNCHANGED <<event, own, external, cut>>
          /\ returned' = returned \cup {Now(w)}
          /\ remote \subseteq remote' /\ file \subseteq file' /\ unwritten \subseteq unwritten'
          /\ Now(w) \in remote' \cup file' \cup unwritten'
      BY <1>2, <2>3, SendStores DEF Reached
    <3>2. event[Now(w)].key \in Keys
      <4>1. Now(w) \in Events /\ event \in [Events -> Sayings]
        BY <1>2, <3>1, QueueTyped DEF Reached, Base, TypeOK
      <4> QED
        BY <4>1 DEF Sayings
    <3>3. Now(w) \in own[event[Now(w)].key] \cup cut
      BY <1>2, <3>1 DEF Reached, Progress
    <3> QED
      BY <1>2, <3>1, <3>2, <3>3 DEF NothingLost
  <2>4. ASSUME NEW k \in Keys, Expire(k) PROVE NothingLost'
    <3>1. /\ own' = [own EXCEPT ![k] = {}] /\ cut' = cut \cup own[k]
          /\ UNCHANGED <<remote, file, external, returned, unwritten>>
      BY <2>4 DEF Expire
    <3>2. own \in [Keys -> SUBSET Events]
      BY <1>2 DEF Reached, Base, TypeOK
    <3>3. \A j \in Keys : own[j] \subseteq own'[j] \cup cut'
      BY <2>4, <3>1, <3>2
    <3> QED
      BY <1>2, <3>1, <3>3 DEF NothingLost
  <2>5. ASSUME Crash PROVE NothingLost'
    <3>1. /\ external => UNCHANGED own
          /\ cut \subseteq cut' /\ UNCHANGED <<remote, file, external, returned, unwritten>>
      BY <1>2, <2>5, CrashStores DEF Reached
    <3> QED
      BY <1>2, <3>1 DEF NothingLost
  <2>6. CASE UNCHANGED <<made, event, todo, at, memory, global, own, remote, file, external,
                         returned, cut, unwritten>>
    BY <1>2, <2>6 DEF NothingLost
  <2> QED
    BY <1>2, <2>1, <2>2, <2>3, <2>4, <2>5, <2>6, StepCases
<1> QED
  BY <1>1, <1>2, ReachedHolds, PTL DEF Spec

(* The global list and the incidents' lists agree with any number of       *)
(* writers between them, whatever the global list's length.                *)
THEOREM Agree == Spec => []ListsAgree
<1> DEFINE Shown(e) == \/ e \in own[event[e].key] \cup cut
                       \/ \E w \in Writers : at[w] \in {"trim", "pushOwn"} /\ Now(w) = e
<1>1. Init => ListsAgree
  BY DEF Init, ListsAgree, RangeOf
<1>2. ASSUME Reached, ListsAgree, [Next]_vars PROVE ListsAgree'
  <2>0. /\ at \in [Writers -> {"idle", "remember", "push", "trim", "pushOwn", "send"}]
        /\ event \in [Events -> Sayings] /\ own \in [Keys -> SUBSET Events]
        /\ RangeOf(global) \subseteq 1..made
        /\ \A e \in Events : event[e].key \in Keys
        /\ \A w \in Writers : at[w] # "idle" => Now(w) \in Events /\ Now(w) \in 1..made
    <3>1. event \in [Events -> Sayings]
      BY <1>2 DEF Reached, Base, TypeOK
    <3>2. \A e \in Events : event[e].key \in Keys
      BY <3>1 DEF Sayings
    <3>3. \A w \in Writers : at[w] # "idle" => Now(w) \in Events /\ Now(w) \in 1..made
      BY <1>2, QueueTyped DEF Reached
    <3> QED
      BY <1>2, <3>1, <3>2, <3>3 DEF Reached, Base, TypeOK, Created, Stored
  <2>00. \A e \in 1..made : e \in Events
    BY <1>2, TrailAssumption DEF TrailAssumption, Reached, Base, TypeOK, Events
  <2>1. ASSUME NEW w \in Writers, NEW k \in KeysOf(w), Log(w, k) PROVE ListsAgree'
    <3>1. /\ at[w] = "idle" /\ at' = [at EXCEPT ![w] = "remember"]
          /\ UNCHANGED <<global, own, cut>>
          /\ \A v \in Writers : v # w => todo'[v] = todo[v]
          /\ \A e \in 1..made : event'[e] = event[e]
      BY <1>2, <2>1, LogStores DEF Reached
    <3>2. \A v \in Writers : at[v] # "idle" => at'[v] = at[v] /\ Now(v)' = Now(v)
      BY <2>0, <3>1 DEF Now
    <3>3. ASSUME NEW e \in RangeOf(global) PROVE Shown(e)'
      BY <1>2, <2>0, <3>1, <3>2 DEF ListsAgree
    <3> QED
      BY <3>1, <3>3 DEF ListsAgree, RangeOf
  <2>2. ASSUME NEW w \in Writers, Command(w) PROVE ListsAgree'
    <3>1. /\ at[w] \in {"remember", "push", "trim", "pushOwn"}
          /\ UNCHANGED <<event, todo>>
          /\ RangeOf(global') \subseteq RangeOf(global) \cup {Now(w)}
          /\ \A k \in Keys : own[k] \subseteq own'[k]
          /\ cut \subseteq cut'
      BY <1>2, <2>2, CommandStores DEF Reached
    <3>2. PICK to \in {"push", "trim", "pushOwn", "send"} :
            /\ at' = [at EXCEPT ![w] = to]
            /\ IF to = "push" THEN /\ at[w] = "remember" /\ global' = global
                                   /\ memory' = Append(memory, Now(w))
                              ELSE at[w] # "remember" /\ memory' = memory
            /\ to = "send" => Now(w) \in own'[event[Now(w)].key] \cup cut'
      BY <1>2, <2>2, CommandStores, Zenon DEF Reached
    <3>3. /\ at'[w] = to /\ \A v \in Writers : v # w => at'[v] = at[v]
          /\ \A v \in Writers : Now(v)' = Now(v)
      BY <2>0, <3>1, <3>2 DEF Now
    <3>4. ASSUME NEW e \in RangeOf(global'), e = Now(w), to # "push" PROVE Shown(e)'
      BY <3>1, <3>2, <3>3, <3>4
    <3>5. ASSUME NEW e \in RangeOf(global), ~(e = Now(w) /\ to # "push") PROVE Shown(e)'
      <4>1. e \in Events
        BY <2>0, <2>00
      <4>2. CASE e \in own[event[e].key] \cup cut
        BY <2>0, <3>1, <4>1, <4>2
      <4>3. ASSUME NEW v \in Writers, at[v] \in {"trim", "pushOwn"}, Now(v) = e
            PROVE  Shown(e)'
        <5>1. v # w
          BY <3>2, <3>5, <4>3
        <5> QED
          BY <3>3, <4>3, <5>1
      <4> QED
        BY <1>2, <4>2, <4>3 DEF ListsAgree
    <3>6. ASSUME NEW e \in RangeOf(global') PROVE Shown(e)'
      <4>1. CASE e = Now(w) /\ to # "push"
        BY <3>4, <4>1
      <4>2. CASE ~(e = Now(w) /\ to # "push")
        <5>1. e \in RangeOf(global)
          BY <3>1, <3>2, <4>2 DEF RangeOf
        <5> QED
          BY <3>5, <4>2, <5>1
      <4> QED
        BY <4>1, <4>2
    <3> QED
      BY <3>6 DEF ListsAgree, RangeOf
  <2>3. ASSUME NEW w \in Writers, Send(w) PROVE ListsAgree'
    <3>1. /\ at[w] = "send" /\ UNCHANGED <<event, global, own, cut>>
          /\ todo' = [todo EXCEPT ![w] = Tail(todo[w])]
          /\ at' = [at EXCEPT ![w] = IF Len(todo[w]) > 1 THEN "remember" ELSE "idle"]
      BY <1>2, <2>3, SendStores DEF Reached
    <3>2. \A v \in Writers : v # w => at'[v] = at[v] /\ Now(v)' = Now(v)
      BY <1>2, <2>0, <3>1 DEF Now, Reached, Base, TypeOK
    <3>3. ASSUME NEW e \in RangeOf(global) PROVE Shown(e)'
      BY <1>2, <3>1, <3>2 DEF ListsAgree
    <3> QED
      BY <3>1, <3>3 DEF ListsAgree, RangeOf
  <2>4. ASSUME NEW k \in Keys, Expire(k) PROVE ListsAgree'
    <3>1. /\ own' = [own EXCEPT ![k] = {}] /\ cut' = cut \cup own[k]
          /\ \A w \in Writers : at[w] = "idle"
      BY <2>4 DEF Expire
    <3>2. UNCHANGED <<event, global>>
      BY <2>4 DEF Expire
    <3>3. ASSUME NEW e \in RangeOf(global) PROVE Shown(e)'
      <4>1. e \in own[event[e].key] \cup cut
        BY <1>2, <3>1 DEF ListsAgree
      <4> QED
        BY <2>0, <2>00, <3>1, <3>2, <4>1
    <3> QED
      BY <3>2, <3>3 DEF ListsAgree, RangeOf
  <2>5. ASSUME Crash PROVE ListsAgree'
    <3>1. /\ (external /\ UNCHANGED <<global, own>>) \/ (~external /\ RangeOf(global') = {})
          /\ cut \subseteq cut' /\ UNCHANGED event
          /\ \A w \in Writers : RangeOf(todo[w]) \subseteq cut'
      BY <1>2, <2>5, CrashStores DEF Reached
    <3>2. ASSUME NEW e \in RangeOf(global), UNCHANGED <<global, own>> PROVE Shown(e)'
      <4>1. CASE e \in own[event[e].key] \cup cut
        BY <3>1, <3>2, <4>1
      <4>2. ASSUME NEW w \in Writers, at[w] \in {"trim", "pushOwn"}, Now(w) = e
            PROVE  e \in cut'
        <5>1. /\ todo[w] \in Seq(Events) /\ Len(todo[w]) \in 1..2 /\ Now(w) = todo[w][1]
          BY <1>2, <4>2, QueueTyped DEF Reached
        <5>2. 1 \in DOMAIN todo[w]
          BY <5>1, LenProperties
        <5> QED
          BY <3>1, <4>2, <5>1, <5>2 DEF RangeOf
      <4> QED
        BY <1>2, <4>1, <4>2 DEF ListsAgree
    <3> QED
      BY <3>1, <3>2 DEF ListsAgree, RangeOf
  <2>6. CASE UNCHANGED <<made, event, todo, at, memory, global, own, remote, file, external,
                         returned, cut, unwritten>>
    BY <1>2, <2>6 DEF ListsAgree, RangeOf, Now
  <2> QED
    BY <1>2, <2>1, <2>2, <2>3, <2>4, <2>5, <2>6, StepCases
<1> QED
  BY <1>1, <1>2, ReachedHolds, PTL DEF Spec
(* Whoever finds a forced event finds its anomaly, however many writers    *)
(* write and whatever fails: the anomaly is stored before its event, and   *)
(* what takes it away is noted.                                            *)
THEOREM AnomaliesFirst == Spec => []AnomalyFirst
<1>1. Init => AnomalyFirst
  BY TrailAssumption DEF TrailAssumption, Init, AnomalyFirst, Unsaid
<1>2. ASSUME Reached, AnomalyFirst, [Next]_vars PROVE AnomalyFirst'
  <2>0. /\ event \in [Events -> Sayings] /\ own \in [Keys -> SUBSET Events]
        /\ memory \in Seq(Events)
        /\ \A e \in Events : event[e].key \in Keys
        /\ \A w \in Writers : at[w] # "idle" => Now(w) \in Events
        /\ \A a \in Events : event[a].accuses # 0 => event[a].accuses \in Events
    <3>1. event \in [Events -> Sayings]
      BY <1>2 DEF Reached, Base, TypeOK
    <3>2. \A e \in Events : event[e].key \in Keys
      BY <3>1 DEF Sayings
    <3>3. \A w \in Writers : at[w] # "idle" => Now(w) \in Events
      BY <1>2, QueueTyped DEF Reached
    <3>4. \A a \in Events : event[a].accuses # 0 => event[a].accuses \in Events
      BY <3>1, TrailAssumption DEF TrailAssumption, Sayings, Events
    <3> QED
      BY <1>2, <3>1, <3>2, <3>3, <3>4 DEF Reached, Base, TypeOK
  <2>1. ASSUME NEW w \in Writers, NEW k \in KeysOf(w), Log(w, k) PROVE AnomalyFirst'
    <3>1. /\ UNCHANGED <<memory, global, own, remote, file, external, returned, cut, unwritten>>
          /\ \A e \in 1..made : event'[e] = event[e]
          /\ \A a \in Events : event'[a].accuses \in 1..made => event'[a] = event[a]
      BY <1>2, <2>1, LogStores DEF Reached
    <3>2. Stored \subseteq 1..made
      BY <1>2 DEF Reached, Base, Created
    <3>3. ASSUME NEW a \in Events, NEW e, e = event'[a].accuses, e # 0
          PROVE  /\ \A i \in DOMAIN memory : memory[i] = e => \E j \in 1..i : memory[j] = a
                 /\ e \in own[event'[e].key] => a \in own[event'[a].key] \cup cut
                 /\ e \in remote \cup file => a \in remote \cup file \cup unwritten
      <4>1. CASE e \in 1..made
        <5>1. event'[a] = event[a] /\ event'[e] = event[e]
          BY <3>1, <3>3, <4>1
        <5> QED
          BY <1>2, <3>3, <5>1 DEF AnomalyFirst
      <4>2. CASE e \notin 1..made
        <5>1. /\ \A i \in DOMAIN memory : memory[i] # e
              /\ e \notin remote \cup file
              /\ \A k2 \in Keys : e \notin own[k2]
          BY <3>2, <4>2 DEF Stored, RangeOf
        <5>2. event'[e].key \in Keys \/ e \notin Events
          <6>1. event' \in [Events -> Sayings]
            BY <1>2, <2>1, LogKeeps DEF Reached, Base, TypeOK
          <6> QED
            BY <6>1 DEF Sayings
        <5>3. e \in Events
          <6>1. event' \in [Events -> Sayings]
            BY <1>2, <2>1, LogKeeps DEF Reached, Base, TypeOK
          <6>2. event'[a].accuses \in 0..MaxEvents
            BY <6>1 DEF Sayings
          <6> QED
            BY <3>3, <6>2, TrailAssumption DEF TrailAssumption, Events
        <5> QED
          BY <5>1, <5>2, <5>3
      <4> QED
        BY <4>1, <4>2
    <3> QED
      BY <3>1, <3>3 DEF AnomalyFirst
  <2>2. ASSUME NEW w \in Writers, Command(w) PROVE AnomalyFirst'
    <3>1. /\ at[w] # "idle" /\ UNCHANGED <<event, remote, file, unwritten>>
          /\ \A k \in Keys : own[k] \subseteq own'[k] /\ own'[k] \subseteq own[k] \cup {Now(w)}
          /\ cut \subseteq cut'
      BY <1>2, <2>2, CommandStores DEF Reached
    <3>2. memory' = Append(memory, Now(w)) \/ memory' = memory
      <4>1. PICK to \in {"push", "trim", "pushOwn", "send"} :
              IF to = "push" THEN /\ at[w] = "remember" /\ global' = global
                                  /\ memory' = Append(memory, Now(w))
                             ELSE at[w] # "remember" /\ memory' = memory
        BY <1>2, <2>2, CommandStores, Zenon DEF Reached
      <4> QED
        BY <4>1
    <3>3. ASSUME NEW a \in Events, NEW e \in Events, e = event[a].accuses, e # 0
          PROVE  /\ \A i \in DOMAIN memory' : memory'[i] = e => \E j \in 1..i : memory'[j] = a
                 /\ e \in own'[event[e].key] => a \in own'[event[a].key] \cup cut'
                 /\ e \in remote \cup file => a \in remote \cup file \cup unwritten
      <4>1. /\ \A i \in DOMAIN memory : memory[i] = e => \E j \in 1..i : memory[j] = a
            /\ e \in own[event[e].key] => a \in own[event[a].key] \cup cut
            /\ e \in remote \cup file => a \in remote \cup file \cup unwritten
        BY <1>2, <3>3 DEF AnomalyFirst
      <4>2. e = Now(w) => a \in RangeOf(memory) /\ a \in own[event[a].key] \cup cut
        BY <1>2, <3>1, <3>3 DEF Reached, Accused
      <4>3. e \in own'[event[e].key] => a \in own'[event[a].key] \cup cut'
        BY <2>0, <3>1, <4>1, <4>2
      <4>4. CASE memory' = Append(memory, Now(w))
        <5>1. /\ Len(memory') = Len(memory) + 1 /\ memory' \in Seq(Events)
              /\ \A i \in 1..Len(memory) : memory'[i] = memory[i]
              /\ memory'[Len(memory) + 1] = Now(w)
          BY <2>0, <3>1, <4>4, AppendProperties
        <5>2. /\ DOMAIN memory = 1..Len(memory) /\ Len(memory) \in Nat
              /\ DOMAIN memory' = 1..(Len(memory) + 1)
          BY <2>0, <5>1, LenProperties
        <5>3. ASSUME NEW i \in DOMAIN memory', memory'[i] = e
              PROVE  \E j \in 1..i : memory'[j] = a
          <6>1. CASE i \in 1..Len(memory)
            <7>1. PICK j \in 1..i : memory[j] = a
              BY <4>1, <5>1, <5>2, <5>3, <6>1
            <7>2. j \in 1..Len(memory)
              BY <5>2, <6>1
            <7> QED
              BY <5>1, <7>1, <7>2
          <6>2. CASE i = Len(memory) + 1
            <7>1. PICK j \in DOMAIN memory : memory[j] = a
              BY <4>2, <5>1, <5>3, <6>2 DEF RangeOf
            <7>2. j \in 1..i
              BY <5>2, <6>2
            <7> QED
              BY <5>1, <5>2, <7>1, <7>2
          <6> QED
            BY <5>2, <6>1, <6>2
        <5> QED
          BY <4>1, <4>3, <5>3
      <4>5. CASE memory' = memory
        BY <4>1, <4>3, <4>5
      <4> QED
        BY <3>2, <4>4, <4>5
    <3> QED
      BY <2>0, <3>1, <3>3 DEF AnomalyFirst
  <2>3. ASSUME NEW w \in Writers, Send(w) PROVE AnomalyFirst'
    <3>1. /\ at[w] = "send" /\ UNCHANGED <<event, memory, own, cut>>
          /\ remote \subseteq remote' /\ remote' \subseteq remote \cup {Now(w)}
          /\ file \subseteq file' /\ file' \subseteq file \cup {Now(w)}
          /\ unwritten \subseteq unwritten'
      BY <1>2, <2>3, SendStores DEF Reached
    <3>2. ASSUME NEW a \in Events, NEW e, e = event[a].accuses, e \in remote' \cup file', e # 0
          PROVE  a \in remote' \cup file' \cup unwritten'
      <4>1. e = Now(w) => a \in remote \cup file \cup unwritten
        BY <1>2, <3>1, <3>2 DEF Reached, Accused
      <4>2. e \in remote \cup file => a \in remote \cup file \cup unwritten
        BY <1>2, <3>2 DEF AnomalyFirst
      <4> QED
        BY <3>1, <3>2, <4>1, <4>2
    <3> QED
      BY <1>2, <3>1, <3>2 DEF AnomalyFirst
  <2>4. ASSUME NEW k \in Keys, Expire(k) PROVE AnomalyFirst'
    <3>1. /\ own' = [own EXCEPT ![k] = {}] /\ cut' = cut \cup own[k]
          /\ UNCHANGED <<event, memory, remote, file, unwritten>>
      BY <2>4 DEF Expire
    <3>2. \A j \in Keys : own'[j] \subseteq own[j] /\ own[j] \subseteq own'[j] \cup cut'
      BY <2>0, <3>1
    <3>3. ASSUME NEW a \in Events, NEW e \in Events, e = event[a].accuses, e # 0,
                 e \in own'[event[e].key]
          PROVE  a \in own'[event[a].key] \cup cut'
      <4>1. a \in own[event[a].key] \cup cut
        BY <1>2, <2>0, <3>2, <3>3 DEF AnomalyFirst
      <4> QED
        BY <2>0, <3>1, <3>2, <4>1
    <3> QED
      BY <1>2, <2>0, <3>1, <3>3 DEF AnomalyFirst
  <2>5. ASSUME Crash PROVE AnomalyFirst'
    <3>1. /\ memory' = <<>> /\ cut \subseteq cut' /\ UNCHANGED <<event, remote, file, unwritten>>
          /\ own' = own \/ own' = [j \in Keys |-> {}]
      BY <1>2, <2>5, CrashStores DEF Reached
    <3>2. \A i \in DOMAIN memory' : FALSE
      BY <3>1
    <3>3. ASSUME NEW a \in Events, NEW e \in Events, e = event[a].accuses, e # 0,
                 e \in own'[event[e].key]
          PROVE  a \in own'[event[a].key] \cup cut'
      <4>1. own' = own
        BY <2>0, <3>1, <3>3
      <4> QED
        BY <1>2, <3>1, <3>3, <4>1 DEF AnomalyFirst
    <3> QED
      BY <1>2, <2>0, <3>1, <3>2, <3>3 DEF AnomalyFirst
  <2>6. CASE UNCHANGED <<made, event, todo, at, memory, global, own, remote, file, external,
                         returned, cut, unwritten>>
    BY <1>2, <2>6 DEF AnomalyFirst
  <2> QED
    BY <1>2, <2>1, <2>2, <2>3, <2>4, <2>5, <2>6, StepCases
<1> QED
  BY <1>1, <1>2, ReachedHolds, PTL DEF Spec
=============================================================================
