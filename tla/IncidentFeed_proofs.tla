--------------------------- MODULE IncidentFeed_proofs ---------------------------
(***************************************************************************)
(* Proofs about IncidentFeed for any number of incidents, changes and      *)
(* requests at once: the stream never goes back in time, what it loses was *)
(* lost in its gap, and a page whose requests neither failed nor           *)
(* overlapped since one ran alone is up to date when all is at rest.       *)
(***************************************************************************)
EXTENDS IncidentFeed, FiniteSetTheorems, TLAPS

Events == Incidents \X (1..MaxVersion)

FetchType ==
  {Free} \cup [stage : {"sent"}, alone : BOOLEAN]
         \cup [stage : {"answered"}, alone : BOOLEAN, list : Lists]

Typed ==
  /\ live \in Lists /\ announced \in Lists /\ told \in Lists /\ shown \in Lists
  /\ born \in 0..MaxIncidents /\ conn \in {"closed", "replaying", "live"}
  /\ copy \in Seq(Incidents) /\ queue \in Seq(Events) /\ gap \subseteq Incidents
  /\ fetches \in [Slots -> FetchType] /\ blurred \in BOOLEAN

(* Nothing is ahead of the store, whose incidents are the last created.    *)
StoreSound ==
  /\ \A i \in Incidents : announced[i] <= live[i] /\ told[i] <= live[i]
  /\ \E first \in 1..(born + 1) : \A i \in Incidents : live[i] > 0 <=> i \in first..born

(* During the replay, what is not up to date is still to be replayed or in *)
(* the gap; there is a queue only after it.                                *)
ReplaySound ==
  /\ conn # "live" => queue = <<>>
  /\ conn # "replaying" => copy = <<>>
  /\ conn = "closed" => told = Nothing
  /\ conn = "replaying" =>
       \A i \in Incidents \ gap : told[i] >= announced[i] \/ i \in Range(copy)

QueueSound == \A m \in DOMAIN queue : queue[m][2] <= announced[queue[m][1]]

Stream == ReplaySound /\ QueueSound /\ NeverBackwards /\ LostOnlyInGap

(* A request that runs alone is the only one, and its answer is as new as  *)
(* all the stream has sent: an event meanwhile would have sent another.    *)
FetchesSound ==
  /\ \A s \in InFlight : fetches[s].alone => InFlight = {s}
  /\ \A s \in InFlight : ~fetches[s].alone => blurred
  /\ \A s \in Slots : fetches[s].stage = "answered" /\ fetches[s].alone =>
        \A i \in Incidents : told[i] <= fetches[s].list[i]
  /\ InFlight = {} /\ ~blurred => \A i \in Incidents : told[i] <= shown[i]

IInv == Typed /\ StoreSound /\ Stream /\ FetchesSound
-----------------------------------------------------------------------------
LEMMA Bounds == MaxIncidents \in Nat \ {0} /\ MaxVersion \in Nat \ {0} /\ MaxFetches \in Nat \ {0}
  BY FeedAssumption DEF FeedAssumption

LEMMA NothingTyped == Nothing \in Lists /\ \A i \in Incidents : Nothing[i] = 0
  BY Bounds DEF Nothing, Lists

LEMMA ListsTyped == \A l \in Lists : \A i \in Incidents : l[i] \in Nat /\ l[i] <= MaxVersion
  BY Bounds DEF Lists

LEMMA InitSound == Init => IInv
<1> SUFFICES ASSUME Init PROVE IInv
  OBVIOUS
<1> USE Bounds, NothingTyped
<1>1. <<>> \in Seq(Incidents) /\ <<>> \in Seq(Events)
  OBVIOUS
<1>2. fetches \in [Slots -> FetchType]
  BY DEF Init, FetchType, Slots
<1>3. blurred \in BOOLEAN /\ ~blurred
  BY Zenon DEF Init
<1>4. Typed
  BY <1>1, <1>2, <1>3 DEF Init, Typed
<1>5. StoreSound
  <2>1. 1 \in 1..(born + 1) /\ \A i \in Incidents : i \notin 1..born
    BY DEF Init, Incidents
  <2>2. \A i \in Incidents : live[i] = 0 /\ announced[i] = 0 /\ told[i] = 0
    BY DEF Init
  <2> QED
    BY <2>1, <2>2 DEF StoreSound
<1>6. Stream
  BY DEF Init, Stream, ReplaySound, QueueSound, NeverBackwards, LostOnlyInGap
<1>7. FetchesSound
  <2>1. 1 \in Slots /\ InFlight = {1} /\ fetches[1].stage = "sent" /\ fetches[1].alone = TRUE
    BY DEF Init, Slots, InFlight, Free
  <2>2. \A s \in Slots : fetches[s].stage # "answered"
    BY DEF Init, Slots, Free
  <2> QED
    BY <2>1, <2>2 DEF FetchesSound
<1> QED
  BY <1>4, <1>5, <1>6, <1>7 DEF IInv
-----------------------------------------------------------------------------
(* The browser's requests.                                                 *)

(* One more request: it is alone or else none is, whatever was sent.       *)
LEMMA FetchKeeps ==
  ASSUME Typed, FetchesSound, Fetch
  PROVE  /\ fetches' \in [Slots -> FetchType] /\ blurred' \in BOOLEAN
         /\ UNCHANGED shown /\ FetchesSound'
<1>1. PICK slot \in Slots, alone \in BOOLEAN :
        /\ slot \notin InFlight /\ (alone <=> InFlight = {})
        /\ fetches' = [s \in Slots |->
                        IF s = slot THEN [stage |-> "sent", alone |-> alone]
                        ELSE IF s \in InFlight THEN [fetches[s] EXCEPT !.alone = FALSE]
                        ELSE Free]
        /\ blurred' = (blurred \/ ~alone) /\ UNCHANGED shown
  <2> DEFINE free == CHOOSE s \in Slots \ InFlight : TRUE
  <2>1. free \in Slots /\ free \notin InFlight
    BY DEF Fetch, InFlight
  <2>2. (InFlight = {}) \in BOOLEAN
    OBVIOUS
  <2>3. /\ fetches' = [s \in Slots |->
                        IF s = free THEN [stage |-> "sent", alone |-> InFlight = {}]
                        ELSE IF s \in InFlight THEN [fetches[s] EXCEPT !.alone = FALSE]
                        ELSE Free]
        /\ blurred' = (blurred \/ ~(InFlight = {})) /\ UNCHANGED shown
    BY Zenon DEF Fetch
  <2> HIDE DEF free
  <2> QED
    BY <2>1, <2>2, <2>3, Zenon
<1>2. fetches'[slot] = [stage |-> "sent", alone |-> alone]
  BY <1>1
<1>3. \A s \in InFlight : s \in Slots /\ s # slot /\ fetches'[s] = [fetches[s] EXCEPT !.alone = FALSE]
  BY <1>1 DEF InFlight
<1>4. \A s \in Slots : s # slot /\ s \notin InFlight => fetches'[s] = Free
  BY <1>1
<1>5. \A s \in InFlight : /\ fetches'[s] \in FetchType
                         /\ fetches'[s].stage = fetches[s].stage /\ fetches'[s].alone = FALSE
  <2> SUFFICES ASSUME NEW s \in InFlight
               PROVE  /\ fetches'[s] \in FetchType
                      /\ fetches'[s].stage = fetches[s].stage /\ fetches'[s].alone = FALSE
    OBVIOUS
  <2>1. fetches[s] \in FetchType /\ fetches[s] # Free
    BY <1>3 DEF InFlight, Typed, Free
  <2>2. fetches'[s] = [fetches[s] EXCEPT !.alone = FALSE]
    BY <1>3
  <2>3. CASE fetches[s] \in [stage : {"sent"}, alone : BOOLEAN]
    <3>1. fetches'[s] = [stage |-> "sent", alone |-> FALSE]
      BY <2>2, <2>3
    <3> QED
      BY <2>3, <3>1 DEF FetchType
  <2>4. CASE fetches[s] \in [stage : {"answered"}, alone : BOOLEAN, list : Lists]
    <3>1. fetches'[s] = [stage |-> "answered", alone |-> FALSE, list |-> fetches[s].list]
      BY <2>2, <2>4
    <3> QED
      BY <2>4, <3>1 DEF FetchType
  <2> QED
    BY <2>1, <2>3, <2>4 DEF FetchType
<1>6. InFlight' = InFlight \cup {slot}
  <2>1. \A s \in InFlight : fetches'[s].stage # "free"
    BY <1>5 DEF InFlight
  <2>2. fetches'[slot].stage # "free"
    BY <1>2
  <2>3. \A s \in Slots : s # slot /\ s \notin InFlight => fetches'[s].stage = "free"
    BY <1>4 DEF Free
  <2>4. InFlight \subseteq Slots
    BY DEF InFlight
  <2>5. InFlight' = {s \in Slots : fetches'[s].stage # "free"}
    BY DEF InFlight, Slots
  <2> QED
    BY <2>1, <2>2, <2>3, <2>4, <2>5
<1>7. fetches' \in [Slots -> FetchType]
  <2>1. [stage |-> "sent", alone |-> alone] \in FetchType /\ Free \in FetchType
    BY DEF FetchType
  <2>2. \A s \in Slots : fetches'[s] \in FetchType
    BY <1>2, <1>4, <1>5, <2>1
  <2>3. fetches' = [s \in Slots |-> fetches'[s]]
    BY <1>1
  <2> QED
    BY <2>2, <2>3
<1>8. \A s \in Slots : fetches'[s].stage = "answered" => ~fetches'[s].alone
  <2> SUFFICES ASSUME NEW s \in Slots, fetches'[s].stage = "answered" PROVE fetches'[s].alone = FALSE
    OBVIOUS
  <2>1. s # slot
    BY <1>2
  <2>2. s \in InFlight
    BY <1>4, <2>1 DEF Free
  <2> QED
    BY <1>5, <2>2
<1>9. \A s \in InFlight' : fetches'[s].alone => InFlight' = {s}
  BY <1>1, <1>2, <1>5, <1>6
<1>10. \A s \in InFlight' : ~fetches'[s].alone => blurred'
  BY <1>1, <1>2, <1>5, <1>6, Zenon
<1>11. InFlight' # {}
  BY <1>6
<1>12. FetchesSound'
  <2>1. Slots' = Slots /\ Incidents' = Incidents
    BY DEF Slots, Incidents
  <2> QED
    BY <1>8, <1>9, <1>10, <1>11, <2>1 DEF FetchesSound
<1>13. blurred' \in BOOLEAN
  BY <1>1 DEF Typed
<1> QED
  BY <1>1, <1>7, <1>12, <1>13

(* The stream may forget, when it closes.                                  *)
LEMMA PageKept ==
  ASSUME Typed, FetchesSound, UNCHANGED <<fetches, shown, blurred>>, told' \in Lists,
         \A i \in Incidents : told'[i] <= told[i]
  PROVE  FetchesSound'
<1>1. \A i \in Incidents : told[i] \in Nat /\ told'[i] \in Nat /\ shown[i] \in Nat
  BY ListsTyped DEF Typed
<1>2. \A s \in Slots : fetches[s].stage = "answered" => \A i \in Incidents : fetches[s].list[i] \in Nat
  BY ListsTyped DEF Typed, FetchType, Free
<1>3. InFlight' = InFlight
  BY DEF InFlight
<1>4. \A s \in Slots : fetches[s].stage = "answered" /\ fetches[s].alone =>
        \A i \in Incidents : told'[i] <= fetches[s].list[i]
  BY <1>1, <1>2 DEF FetchesSound
<1>5. InFlight = {} /\ ~blurred => \A i \in Incidents : told'[i] <= shown[i]
  BY <1>1 DEF FetchesSound
<1> QED
  BY <1>3, <1>4, <1>5 DEF FetchesSound
(* An answer is as new as the stream, as the store is, and so is the page  *)
(* that it fills.                                                          *)
LEMMA AnswerKeeps ==
  ASSUME Typed, StoreSound, FetchesSound, NEW s \in Slots, Answer(s)
  PROVE  fetches' \in [Slots -> FetchType] /\ FetchesSound'
<1>1. /\ fetches[s].stage = "sent"
      /\ fetches' = [fetches EXCEPT ![s] = [stage |-> "answered", alone |-> @.alone, list |-> live]]
      /\ UNCHANGED <<told, shown, blurred>>
  BY DEF Answer, streamVars
<1>2. fetches[s] \in [stage : {"sent"}, alone : BOOLEAN] /\ s \in InFlight
  BY <1>1 DEF Typed, FetchType, Free, InFlight
<1>3. /\ fetches'[s] = [stage |-> "answered", alone |-> fetches[s].alone, list |-> live]
      /\ \A r \in Slots : r # s => fetches'[r] = fetches[r]
  BY <1>1 DEF Typed
<1>4. fetches' \in [Slots -> FetchType]
  <2>1. fetches'[s] \in FetchType
    BY <1>2, <1>3 DEF FetchType, Typed
  <2> QED
    BY <1>1, <2>1 DEF Typed
<1>5. InFlight' = InFlight
  BY <1>2, <1>3 DEF InFlight, Slots
<1>6. \A r \in InFlight : fetches'[r].alone = fetches[r].alone
  BY <1>3 DEF InFlight
<1>7. \A r \in Slots : fetches'[r].stage = "answered" /\ fetches'[r].alone =>
        \A i \in Incidents : told'[i] <= fetches'[r].list[i]
  <2>1. \A i \in Incidents : told'[i] <= live[i]
    BY <1>1 DEF StoreSound
  <2> QED
    BY <1>1, <1>3, <2>1 DEF FetchesSound
<1>8. Slots' = Slots /\ Incidents' = Incidents
  BY DEF Slots, Incidents
<1>9. /\ \A r \in InFlight' : fetches'[r].alone => InFlight' = {r}
      /\ \A r \in InFlight' : ~fetches'[r].alone => blurred'
  BY <1>1, <1>5, <1>6, Zenon DEF FetchesSound
<1>10. InFlight' # {}
  BY <1>2, <1>5
<1> QED
  BY <1>4, <1>7, <1>8, <1>9, <1>10 DEF FetchesSound

LEMMA FreedTyped ==
  ASSUME Typed, NEW s \in Slots, fetches' = [fetches EXCEPT ![s] = Free]
  PROVE  /\ fetches' \in [Slots -> FetchType] /\ InFlight' = InFlight \ {s}
         /\ \A r \in Slots : fetches'[r].stage # "free" => r # s /\ fetches'[r] = fetches[r]
<1>1. fetches'[s].stage = "free" /\ \A r \in Slots : r # s => fetches'[r] = fetches[r]
  BY DEF Typed, Free
<1>2. fetches' \in [Slots -> FetchType]
  BY DEF Typed, FetchType
<1> QED
  BY <1>1, <1>2 DEF InFlight, Slots

LEMMA LandKeeps ==
  ASSUME Typed, FetchesSound, NEW s \in Slots, Land(s)
  PROVE  /\ fetches' \in [Slots -> FetchType] /\ blurred' \in BOOLEAN
         /\ shown' \in Lists /\ FetchesSound'
<1>1. /\ fetches[s].stage = "answered" /\ shown' = fetches[s].list
      /\ blurred' = (blurred /\ ~fetches[s].alone)
      /\ fetches' = [fetches EXCEPT ![s] = Free] /\ UNCHANGED told
  BY Zenon DEF Land, streamVars
<1>2. fetches[s] \in [stage : {"answered"}, alone : BOOLEAN, list : Lists] /\ s \in InFlight
  BY <1>1 DEF Typed, FetchType, Free, InFlight
<1>3. /\ fetches' \in [Slots -> FetchType] /\ InFlight' = InFlight \ {s}
      /\ \A r \in Slots : fetches'[r].stage # "free" => r # s /\ fetches'[r] = fetches[r]
  BY <1>1, FreedTyped
<1>4. Slots' = Slots /\ Incidents' = Incidents
  BY DEF Slots, Incidents
<1>5. \A r \in InFlight' : r \in InFlight /\ r # s /\ fetches'[r] = fetches[r]
  BY <1>3 DEF InFlight
<1>6. \A r \in InFlight' : fetches'[r].alone => InFlight' = {r}
  BY <1>2, <1>3, <1>5 DEF FetchesSound
<1>7. \A r \in InFlight' : ~fetches'[r].alone => blurred'
  <2> SUFFICES ASSUME NEW r \in InFlight', ~fetches'[r].alone PROVE blurred'
    OBVIOUS
  <2>1. blurred
    BY <1>5 DEF FetchesSound
  <2>2. ~fetches[s].alone
    BY <1>2, <1>5 DEF FetchesSound
  <2> QED
    BY <1>1, <2>1, <2>2, Zenon
<1>8. \A r \in Slots : fetches'[r].stage = "answered" /\ fetches'[r].alone =>
        \A i \in Incidents : told'[i] <= fetches'[r].list[i]
  BY <1>1, <1>3 DEF FetchesSound
<1>9. InFlight' = {} /\ ~blurred' => \A i \in Incidents : told'[i] <= shown'[i]
  <2> SUFFICES ASSUME InFlight' = {}, ~blurred' PROVE \A i \in Incidents : told'[i] <= shown'[i]
    OBVIOUS
  <2>1. ~blurred \/ fetches[s].alone
    BY <1>1, Zenon
  <2>2. fetches[s].alone
    BY <1>2, <2>1, Zenon DEF FetchesSound
  <2> QED
    BY <1>1, <2>2 DEF FetchesSound
<1>10. blurred' \in BOOLEAN
  BY <1>1 DEF Typed
<1> QED
  BY <1>1, <1>2, <1>3, <1>4, <1>6, <1>7, <1>8, <1>9, <1>10 DEF FetchesSound

LEMMA FailKeeps ==
  ASSUME Typed, FetchesSound, NEW s \in Slots, Fail(s)
  PROVE  fetches' \in [Slots -> FetchType] /\ blurred' = TRUE /\ FetchesSound'
<1>1. fetches' = [fetches EXCEPT ![s] = Free] /\ UNCHANGED told /\ blurred' = TRUE /\ s \in InFlight
  BY DEF Fail, streamVars
<1>2. /\ fetches' \in [Slots -> FetchType] /\ InFlight' = InFlight \ {s}
      /\ \A r \in Slots : fetches'[r].stage # "free" => r # s /\ fetches'[r] = fetches[r]
  BY <1>1, FreedTyped
<1>3. \A r \in InFlight' : r \in InFlight /\ r # s /\ fetches'[r] = fetches[r]
  BY <1>2 DEF InFlight
<1>4. \A r \in InFlight' : fetches'[r].alone => InFlight' = {r}
  BY <1>1, <1>2, <1>3 DEF FetchesSound
<1>5. \A r \in Slots : fetches'[r].stage = "answered" /\ fetches'[r].alone =>
        \A i \in Incidents : told'[i] <= fetches'[r].list[i]
  BY <1>1, <1>2 DEF FetchesSound
<1>6. Slots' = Slots /\ Incidents' = Incidents
  BY DEF Slots, Incidents
<1> QED
  BY <1>1, <1>2, <1>4, <1>5, <1>6 DEF FetchesSound
-----------------------------------------------------------------------------
(* The store and what it broadcasts.                                       *)

LEMMA Levels ==
  ASSUME Typed, StoreSound, NEW i \in Incidents
  PROVE  /\ live[i] \in Nat /\ announced[i] \in Nat /\ told[i] \in Nat /\ shown[i] \in Nat
         /\ announced[i] <= live[i] /\ told[i] <= live[i]
BY ListsTyped DEF Typed, StoreSound

LEMMA Appended ==
  ASSUME Typed, NEW e \in Events
  PROVE  /\ Append(queue, e) \in Seq(Events)
         /\ Len(queue) \in Nat /\ DOMAIN queue = 1..Len(queue)
         /\ DOMAIN Append(queue, e) = 1..(Len(queue) + 1)
         /\ \A n \in DOMAIN queue : Append(queue, e)[n] = queue[n] /\ queue[n] \in Events
         /\ Append(queue, e)[Len(queue) + 1] = e
<1>1. queue \in Seq(Events)
  BY DEF Typed
<1> HIDE DEF Events
<1>2. Len(queue) \in Nat /\ DOMAIN queue = 1..Len(queue)
  BY <1>1
<1>3. \A n \in DOMAIN queue : queue[n] \in Events
  BY <1>1
<1>4. Append(queue, e) \in Seq(Events) /\ Len(Append(queue, e)) = Len(queue) + 1
  BY <1>1
<1>5. \A n \in DOMAIN queue : Append(queue, e)[n] = queue[n]
  BY <1>1
<1>6. Append(queue, e)[Len(queue) + 1] = e
  BY <1>1
<1>7. DOMAIN Append(queue, e) = 1..(Len(queue) + 1)
  BY <1>4
<1> QED
  BY <1>2, <1>3, <1>4, <1>5, <1>6, <1>7

(* A change newer than all there was is queued behind all there was, or is *)
(* still to be replayed, or falls in the gap.                              *)
LEMMA BroadcastKeeps ==
  ASSUME Typed, StoreSound, Stream, NEW i \in Incidents, NEW v \in 1..MaxVersion,
         v > live[i], announced' = [announced EXCEPT ![i] = v], Broadcast(i, v),
         UNCHANGED <<conn, copy, told>>
  PROVE  Stream' /\ queue' \in Seq(Events) /\ gap' \subseteq Incidents
<1> USE Bounds
<1>1. <<i, v>> \in Events /\ v \in Nat
  BY DEF Events
<1>2. told[i] < v /\ announced[i] < v
  BY <1>1, Levels
<1>3. announced'[i] = v /\ \A j \in Incidents : j # i => announced'[j] = announced[j]
  BY DEF Typed, Lists
<1>4. gap' \subseteq Incidents
  BY DEF Broadcast, NoteGap, Typed
<1>5. Incidents' = Incidents
  BY DEF Incidents
<1>6. ReplaySound'
  <2>1. conn # "live" => queue' = <<>>
    BY DEF Broadcast, Stream, ReplaySound
  <2>2. ASSUME conn = "replaying", NEW j \in Incidents, j \notin gap'
        PROVE  told[j] >= announced'[j] \/ j \in Range(copy)
    BY <1>3, <2>2 DEF Broadcast, NoteGap, Stream, ReplaySound
  <2> QED
    BY <1>5, <2>1, <2>2 DEF Stream, ReplaySound
<1>7. CASE conn # "live"
  <2>1. queue' = <<>>
    BY <1>7 DEF Broadcast, Stream, ReplaySound
  <2>2. <<>> \in Seq(Events)
    OBVIOUS
  <2>3. QueueSound' /\ NeverBackwards' /\ LostOnlyInGap'
    BY <1>7, <2>1 DEF QueueSound, NeverBackwards, LostOnlyInGap
  <2> QED
    BY <1>4, <1>6, <2>1, <2>2, <2>3 DEF Stream
<1>8. CASE conn = "live"
  <2>1. queue' = Append(queue, <<i, v>>) /\ gap' = gap \ {i}
    BY <1>8 DEF Broadcast, NoteGap
  <2> DEFINE k == Len(queue)
  <2>2. /\ k \in Nat /\ DOMAIN queue = 1..k /\ DOMAIN queue' = 1..(k + 1)
        /\ \A n \in 1..k : queue'[n] = queue[n]
        /\ queue'[k + 1] = <<i, v>> /\ queue' \in Seq(Events)
    BY <1>1, <2>1, Appended
  <2>3. \A n \in 1..k : queue[n][1] \in Incidents /\ queue[n][2] \in Nat
    BY <1>1, Appended DEF Events
  <2> HIDE DEF k
  <2>4. \A n \in 1..k : queue[n][2] <= announced[queue[n][1]]
    BY <2>2 DEF Stream, QueueSound
  <2>5. \A n \in 1..k : queue[n][1] = i => queue[n][2] < v
    BY <1>1, <1>2, <2>3, <2>4, Levels
  <2>6. ASSUME NEW n \in 1..k PROVE queue'[n][2] <= announced'[queue'[n][1]]
    <3>1. queue'[n] = queue[n] /\ queue[n][1] \in Incidents /\ queue[n][2] \in Nat
      BY <2>2, <2>3
    <3>2. CASE queue[n][1] = i
      <4>1. queue[n][2] < v
        BY <2>5, <3>2
      <4> QED
        BY <1>1, <1>3, <3>1, <3>2, <4>1
    <3>3. CASE queue[n][1] # i
      BY <1>3, <2>4, <3>1, <3>3
    <3> QED
      BY <3>2, <3>3
  <2>7. \A n \in 1..(k + 1) : n \in 1..k \/ n = k + 1
    BY <2>2
  <2>8. QueueSound'
    BY <1>1, <1>3, <2>2, <2>6, <2>7 DEF QueueSound
  <2>9. ASSUME NEW m \in 1..(k + 1) PROVE told[queue'[m][1]] < queue'[m][2]
    <3>1. CASE m \in 1..k
      BY <2>2, <3>1 DEF Stream, NeverBackwards
    <3>2. CASE m = k + 1
      BY <1>2, <2>2, <3>2
    <3> QED
      BY <2>7, <3>1, <3>2
  <2>10. ASSUME NEW m \in 1..(k + 1), NEW n \in 1..(k + 1), m < n, queue'[m][1] = queue'[n][1]
         PROVE  queue'[m][2] < queue'[n][2]
    <3>1. m \in 1..k
      BY <2>2, <2>10
    <3>2. CASE n \in 1..k
      BY <2>2, <2>10, <3>1, <3>2 DEF Stream, NeverBackwards
    <3>3. CASE n = k + 1
      BY <2>2, <2>5, <2>10, <3>1, <3>3
    <3> QED
      BY <2>7, <3>2, <3>3
  <2>11. NeverBackwards'
    BY <2>2, <2>9, <2>10 DEF NeverBackwards
  <2>12. Range(queue) \subseteq Range(queue') /\ <<i, v>> \in Range(queue')
    <3>1. \A n \in 1..k : n \in 1..(k + 1)
      BY <2>2
    <3>2. k + 1 \in 1..(k + 1)
      BY <2>2
    <3> QED
      BY <2>2, <3>1, <3>2 DEF Range
  <2>13. ASSUME NEW j \in Incidents, j \notin gap'
         PROVE  told[j] >= announced'[j] \/ <<j, announced'[j]>> \in Range(queue')
    <3>1. CASE j = i
      BY <1>3, <2>12, <3>1
    <3>2. CASE j # i
      BY <1>3, <1>8, <2>1, <2>12, <2>13, <3>2 DEF Stream, LostOnlyInGap
    <3> QED
      BY <3>1, <3>2
  <2>14. LostOnlyInGap'
    BY <1>5, <2>13 DEF LostOnlyInGap
  <2> QED
    BY <1>4, <1>6, <2>2, <2>8, <2>11, <2>14 DEF Stream
<1> QED
  BY <1>7, <1>8
LEMMA CreateKeeps == IInv /\ Create => IInv'
<1> SUFFICES ASSUME IInv, Create PROVE IInv'
  OBVIOUS
<1> USE Bounds
<1>1. Typed /\ StoreSound /\ Stream /\ FetchesSound
  BY DEF IInv
<1>2. /\ born < MaxIncidents /\ born' = born + 1
      /\ live' = [live EXCEPT ![born'] = 1] /\ announced' = [announced EXCEPT ![born'] = 1]
      /\ Broadcast(born', 1)
      /\ UNCHANGED <<conn, copy, told, fetches, shown, blurred>>
  BY DEF Create, pageVars
<1>3. born \in Nat /\ born' \in Incidents /\ born' \in 0..MaxIncidents /\ 1 \in 1..MaxVersion
  BY <1>1, <1>2 DEF Typed, Incidents
<1>4. PICK first \in 1..(born + 1) : \A i \in Incidents : live[i] > 0 <=> i \in first..born
  BY <1>1 DEF StoreSound
<1>5. live[born'] = 0
  <2>1. born' \notin first..born
    BY <1>2, <1>3
  <2> QED
    BY <1>1, <1>3, <1>4, <2>1, Levels
<1>6. /\ live' \in Lists /\ announced' \in Lists /\ live'[born'] = 1 /\ announced'[born'] = 1
      /\ \A j \in Incidents : j # born' => live'[j] = live[j] /\ announced'[j] = announced[j]
  <2>1. 1 \in 0..MaxVersion /\ live \in Lists /\ announced \in Lists
    BY <1>1 DEF Typed
  <2> QED
    BY <1>2, <1>3, <2>1 DEF Lists
<1>7. Stream' /\ queue' \in Seq(Events) /\ gap' \subseteq Incidents
  <2>1. 1 > live[born']
    BY <1>5
  <2> QED
    BY <1>1, <1>2, <1>3, <2>1, BroadcastKeeps
<1>8. StoreSound'
  <2>1. ASSUME NEW j \in Incidents PROVE announced'[j] <= live'[j] /\ told[j] <= live'[j]
    BY <1>1, <1>5, <1>6, Levels
  <2>2. ASSUME NEW j \in Incidents PROVE live'[j] > 0 <=> j \in first..born'
    <3>1. CASE j = born'
      BY <1>2, <1>3, <1>6, <3>1
    <3>2. CASE j # born'
      <4>1. live'[j] = live[j] /\ j \in Int
        BY <1>6, <3>2 DEF Incidents
      <4>2. j \in first..born' <=> j \in first..born
        BY <1>2, <1>3, <3>2, <4>1
      <4> QED
        BY <1>4, <4>1, <4>2
    <3> QED
      BY <3>1, <3>2
  <2>3. first \in 1..(born' + 1) /\ Incidents' = Incidents
    BY <1>2, <1>3 DEF Incidents
  <2> QED
    BY <1>2, <2>1, <2>2, <2>3 DEF StoreSound
<1>9. FetchesSound'
  BY <1>1, <1>2, PageKept, Levels DEF Typed
<1>10. Typed'
  BY <1>1, <1>2, <1>3, <1>6, <1>7 DEF Typed, FetchType, Lists, Slots, Incidents, Events
<1> QED
  BY <1>7, <1>8, <1>9, <1>10 DEF IInv

(* A change leaves the incident live, or not, as it was.                   *)
LEMMA StoreKept ==
  ASSUME Typed, StoreSound, NEW i \in Incidents, live[i] \in 1..(MaxVersion - 1),
         live' = [live EXCEPT ![i] = @ + 1], UNCHANGED <<born, told>>,
         announced' = announced \/ announced' = [announced EXCEPT ![i] = live'[i]]
  PROVE  /\ live' \in Lists /\ announced' \in Lists /\ live'[i] = live[i] + 1
         /\ live'[i] \in 1..MaxVersion /\ StoreSound'
<1> USE Bounds
<1>1. live[i] + 1 \in 1..MaxVersion /\ live[i] + 1 \in 0..MaxVersion /\ live[i] \in Nat /\ live[i] > 0
  OBVIOUS
<1>2. live \in Lists /\ announced \in Lists
  BY DEF Typed
<1>3. live' \in Lists /\ live'[i] = live[i] + 1 /\ \A j \in Incidents : j # i => live'[j] = live[j]
  BY <1>1, <1>2 DEF Lists
<1>4. announced' \in Lists /\ \A j \in Incidents : announced'[j] = announced[j] \/ announced'[j] = live'[j]
  <2>1. CASE announced' = announced
    BY <1>2, <2>1
  <2>2. CASE announced' = [announced EXCEPT ![i] = live'[i]]
    <3>1. live'[i] \in 0..MaxVersion
      BY <1>1, <1>3
    <3> QED
      BY <1>2, <2>2, <3>1 DEF Lists
  <2> QED
    BY <2>1, <2>2
<1>5. ASSUME NEW j \in Incidents
      PROVE  announced'[j] <= live'[j] /\ told'[j] <= live'[j] /\ (live'[j] > 0 <=> live[j] > 0)
  <2>1. live[j] <= live'[j] /\ live'[j] \in Nat
    BY <1>1, <1>3, Levels
  <2> QED
    BY <1>1, <1>3, <1>4, <2>1, Levels
<1>6. PICK first \in 1..(born + 1) : \A j \in Incidents : live[j] > 0 <=> j \in first..born
  BY DEF StoreSound
<1>7. \A j \in Incidents : live'[j] > 0 <=> j \in first..born'
  BY <1>5, <1>6
<1>8. StoreSound'
  BY <1>5, <1>6, <1>7 DEF StoreSound, Incidents
<1> QED
  BY <1>1, <1>3, <1>4, <1>8

LEMMA ChangeKeeps == ASSUME IInv, NEW i \in Incidents, Change(i) PROVE IInv'
<1>1. Typed /\ StoreSound /\ Stream /\ FetchesSound
  BY DEF IInv
<1>2. /\ live[i] \in 1..(MaxVersion - 1)
      /\ live' = [live EXCEPT ![i] = @ + 1] /\ announced' = [announced EXCEPT ![i] = live'[i]]
      /\ Broadcast(i, live'[i])
      /\ UNCHANGED <<born, conn, copy, told, fetches, shown, blurred>>
  BY DEF Change, pageVars
<1>3. /\ live' \in Lists /\ announced' \in Lists /\ live'[i] = live[i] + 1
      /\ live'[i] \in 1..MaxVersion /\ StoreSound'
  BY <1>1, <1>2, StoreKept
<1>4. live'[i] > live[i]
  BY <1>1, <1>3, Levels
<1>5. Stream' /\ queue' \in Seq(Events) /\ gap' \subseteq Incidents
  BY <1>1, <1>2, <1>3, <1>4, BroadcastKeeps
<1>6. FetchesSound'
  BY <1>1, <1>2, PageKept, Levels DEF Typed
<1>7. Typed'
  BY <1>1, <1>2, <1>3, <1>5 DEF Typed, FetchType, Lists, Slots, Incidents, Events
<1> QED
  BY <1>3, <1>5, <1>6, <1>7 DEF IInv

LEMMA ResetKeeps == ASSUME IInv, NEW i \in Incidents, Reset(i) PROVE IInv'
<1>1. Typed /\ StoreSound /\ Stream /\ FetchesSound
  BY DEF IInv
<1>2. /\ live[i] \in 1..(MaxVersion - 1) /\ live' = [live EXCEPT ![i] = @ + 1]
      /\ UNCHANGED <<announced, born, conn, copy, queue, told, gap, fetches, shown, blurred>>
  BY DEF Reset, streamVars, pageVars
<1>3. live' \in Lists /\ StoreSound'
  BY <1>1, <1>2, StoreKept
<1>4. FetchesSound'
  BY <1>1, <1>2, PageKept, Levels DEF Typed
<1>5. Stream'
  BY <1>1, <1>2 DEF Stream, ReplaySound, QueueSound, NeverBackwards, LostOnlyInGap, Nothing, Incidents
<1>6. Typed'
  BY <1>1, <1>2, <1>3 DEF Typed, FetchType, Lists, Slots, Incidents, Events
<1> QED
  BY <1>3, <1>4, <1>5, <1>6 DEF IInv
-----------------------------------------------------------------------------
(* The stream.                                                             *)

(* The replay's list exists and holds what is live.                        *)
LEMMA NewestListed ==
  ASSUME Typed, StoreSound
  PROVE  Newest \in Seq(Incidents) /\ Range(Newest) = {i \in Incidents : live[i] > 0}
<1> DEFINE ids == {i \in Incidents : live[i] > 0}
           Listing(s) == Range(s) = ids /\ \A m, n \in DOMAIN s : m < n => s[m] > s[n]
<1>1. PICK first \in 1..(born + 1) : \A i \in Incidents : live[i] > 0 <=> i \in first..born
  BY DEF StoreSound
<1>2. born \in Nat /\ born <= MaxIncidents /\ MaxIncidents \in Nat /\ first \in Int
  BY Bounds DEF Typed
<1>3. ids = first..born
  <2>1. first..born \subseteq Incidents
    BY <1>1, <1>2 DEF Incidents
  <2> QED
    BY <1>1, <2>1
<1>4. Cardinality(ids) \in Nat /\ Cardinality(ids) = born + 1 - first
  <2>1. Cardinality(first..born) = IF first > born THEN 0 ELSE born - first + 1
    BY <1>2, FS_Interval
  <2>2. Cardinality(ids) = Cardinality(first..born)
    BY <1>3
  <2> HIDE DEF ids
  <2> QED
    BY <1>2, <2>1, <2>2
<1> DEFINE size == Cardinality(ids)
           down == [k \in 1..size |-> born + 1 - k]
<1>5. ids \subseteq Incidents
  OBVIOUS
<1> HIDE DEF ids, size
<1>6. down \in [1..size -> ids] /\ Listing(down)
  <2>1. size \in Nat /\ size = born + 1 - first
    BY <1>4 DEF size
  <2>2. \A k \in 1..size : down[k] \in ids
    BY <1>2, <1>3, <2>1
  <2>3. \A i \in ids : born + 1 - i \in 1..size /\ down[born + 1 - i] = i
    BY <1>1, <1>2, <1>3, <2>1
  <2>4. Range(down) = ids
    BY <2>2, <2>3 DEF Range
  <2>5. \A m, n \in 1..size : m < n => down[m] > down[n]
    BY <1>2, <2>1
  <2> QED
    BY <2>2, <2>4, <2>5
<1>7. Newest = CHOOSE s \in [1..size -> ids] : Listing(s)
  BY DEF Newest, ids, size
<1> HIDE DEF down, Listing
<1>8. Newest \in [1..size -> ids] /\ Listing(Newest)
  BY <1>6, <1>7
<1>9. Newest \in Seq(ids)
  BY <1>4, <1>8 DEF size
<1>10. Newest \in Seq(Incidents)
  BY <1>5, <1>9
<1> QED
  BY <1>8, <1>10 DEF Listing, ids
(* What is sent is the summary as it is, and it was the next to be sent.   *)
LEMMA ReplayKeeps ==
  ASSUME IInv, NEW list \in Seq(Incidents), list # <<>>, Replay(list),
         \A i \in Incidents \ gap : told[i] >= announced[i] \/ i \in Range(list),
         queue = <<>>, conn' = "replaying", UNCHANGED <<storeVars, queue, gap>>
  PROVE  IInv'
<1>1. Typed /\ StoreSound /\ FetchesSound
  BY DEF IInv
<1> DEFINE h == Head(list)
<1>2. /\ told' = [told EXCEPT ![h] = live[h]] /\ copy' = Tail(list) /\ Fetch
      /\ UNCHANGED <<live, announced, born, queue, gap>>
  BY DEF Replay, storeVars
<1>3. /\ h \in Incidents /\ Tail(list) \in Seq(Incidents)
      /\ \A i \in Range(list) : i = h \/ i \in Range(Tail(list))
  <2>1. Len(list) \in Nat /\ Len(list) > 0 /\ DOMAIN list = 1..Len(list) /\ h = list[1]
    OBVIOUS
  <2>2. /\ Tail(list) \in Seq(Incidents) /\ DOMAIN Tail(list) = 1..(Len(list) - 1)
        /\ \A n \in 1..(Len(list) - 1) : Tail(list)[n] = list[n + 1]
    OBVIOUS
  <2>3. ASSUME NEW n \in DOMAIN list, n # 1 PROVE list[n] \in Range(Tail(list))
    <3>1. n - 1 \in 1..(Len(list) - 1) /\ (n - 1) + 1 = n
      BY <2>1, <2>3
    <3>2. Tail(list)[n - 1] = list[n]
      BY <2>2, <3>1
    <3> QED
      BY <2>2, <3>1, <3>2 DEF Range
  <2> QED
    BY <2>1, <2>2, <2>3 DEF Range
<1> HIDE DEF h
<1>4. told' \in Lists /\ told'[h] = live[h] /\ \A i \in Incidents : i # h => told'[i] = told[i]
  BY <1>1, <1>2, <1>3 DEF Typed, Lists
<1>5. StoreSound'
  <2>1. \A i \in Incidents : told'[i] <= live[i]
    BY <1>1, <1>3, <1>4, Levels
  <2> QED
    BY <1>1, <1>2, <2>1 DEF StoreSound, Incidents
<1>6. ASSUME NEW i \in Incidents, i \notin gap
      PROVE  told'[i] >= announced[i] \/ i \in Range(Tail(list))
  <2>1. CASE i = h
    BY <1>1, <1>4, <2>1, Levels
  <2>2. CASE i # h
    BY <1>3, <1>4, <1>6, <2>2
  <2> QED
    BY <2>1, <2>2
<1>7. ReplaySound'
  BY <1>2, <1>6 DEF ReplaySound, Incidents
<1>8. queue' = <<>>
  BY <1>2
<1>9. Stream'
  BY <1>7, <1>8 DEF Stream, QueueSound, NeverBackwards, LostOnlyInGap
<1>10. /\ fetches' \in [Slots -> FetchType] /\ blurred' \in BOOLEAN
       /\ UNCHANGED shown /\ FetchesSound'
  <2>1. \A i \in Incidents : told[i] \in Nat /\ told'[i] \in Nat
    BY <1>1, <1>4, ListsTyped, Levels
  <2> QED
    BY <1>1, <1>2, FetchKeeps
<1>11. Typed'
  BY <1>1, <1>2, <1>3, <1>4, <1>10 DEF Typed, FetchType, Lists, Slots, Incidents, Events
<1> QED
  BY <1>5, <1>9, <1>10, <1>11 DEF IInv

LEMMA ConnectKeeps == IInv /\ Connect => IInv'
<1> SUFFICES ASSUME IInv, Connect PROVE IInv'
  OBVIOUS
<1>1. Typed /\ StoreSound /\ Stream /\ FetchesSound
  BY DEF IInv
<1>2. conn = "closed" /\ UNCHANGED <<live, announced, born, queue, gap>>
  BY DEF Connect, storeVars
<1>3. queue = <<>> /\ copy = <<>> /\ told = Nothing
  BY <1>1, <1>2 DEF Stream, ReplaySound
<1>4. Newest \in Seq(Incidents) /\ Range(Newest) = {i \in Incidents : live[i] > 0}
  BY <1>1, NewestListed
<1> HIDE DEF Newest
<1>5. \A i \in Incidents : told[i] >= announced[i] \/ i \in Range(Newest)
  <2>1. \A i \in Incidents : live[i] > 0 \/ (live[i] = 0 /\ told[i] >= announced[i])
    BY <1>1, Levels
  <2> QED
    BY <1>4, <2>1
<1>6. CASE Newest # <<>>
  <2>1. conn' = "replaying" /\ Replay(Newest)
    BY <1>6 DEF Connect
  <2> QED
    BY <1>2, <1>3, <1>4, <1>5, <1>6, <2>1, ReplayKeeps DEF storeVars
<1>7. CASE Newest = <<>>
  <2>1. conn' = "live" /\ UNCHANGED <<copy, told, fetches, shown, blurred>>
    BY <1>7 DEF Connect, pageVars
  <2>2. Range(Newest) = {}
    BY <1>7 DEF Range
  <2>3. \A i \in Incidents : told[i] >= announced[i]
    BY <1>5, <2>2
  <2>4. Stream'
    BY <1>2, <1>3, <2>1, <2>3
       DEF Stream, ReplaySound, QueueSound, NeverBackwards, LostOnlyInGap, Incidents
  <2>5. FetchesSound'
    BY <1>1, <2>1, PageKept, Levels DEF Typed
  <2>6. StoreSound'
    BY <1>1, <1>2, <2>1 DEF StoreSound, Incidents
  <2>7. Typed'
    BY <1>1, <1>2, <2>1 DEF Typed, FetchType, Lists, Slots, Incidents, Events
  <2> QED
    BY <2>4, <2>5, <2>6, <2>7 DEF IInv
<1> QED
  BY <1>6, <1>7

LEMMA ReplayNextKeeps == IInv /\ ReplayNext => IInv'
<1> SUFFICES ASSUME IInv, ReplayNext PROVE IInv'
  OBVIOUS
<1>1. /\ conn = "replaying" /\ copy # <<>> /\ Replay(copy) /\ conn' = "replaying"
      /\ UNCHANGED <<storeVars, queue, gap>>
  BY DEF ReplayNext
<1>2. copy \in Seq(Incidents) /\ queue = <<>>
  BY <1>1 DEF IInv, Typed, Stream, ReplaySound
<1>3. \A i \in Incidents \ gap : told[i] >= announced[i] \/ i \in Range(copy)
  BY <1>1 DEF IInv, Stream, ReplaySound
<1> QED
  BY <1>1, <1>2, <1>3, ReplayKeeps

LEMMA SubscribeKeeps == IInv /\ Subscribe => IInv'
<1> SUFFICES ASSUME IInv, Subscribe PROVE IInv'
  OBVIOUS
<1>1. Typed /\ StoreSound /\ Stream /\ FetchesSound
  BY DEF IInv
<1>2. /\ conn = "replaying" /\ copy = <<>> /\ conn' = "live"
      /\ UNCHANGED <<live, announced, born, copy, queue, told, gap, fetches, shown, blurred>>
  BY DEF Subscribe, storeVars, pageVars
<1>3. queue = <<>> /\ Range(copy) = {}
  BY <1>1, <1>2 DEF Stream, ReplaySound, Range
<1>4. \A i \in Incidents \ gap : told[i] >= announced[i]
  BY <1>1, <1>2, <1>3 DEF Stream, ReplaySound
<1>5. Stream'
  BY <1>2, <1>3, <1>4
     DEF Stream, ReplaySound, QueueSound, NeverBackwards, LostOnlyInGap, Incidents
<1>6. FetchesSound'
  BY <1>1, <1>2, PageKept, Levels DEF Typed
<1>7. StoreSound'
  BY <1>1, <1>2 DEF StoreSound, Incidents
<1>8. Typed'
  BY <1>1, <1>2 DEF Typed, FetchType, Lists, Slots, Incidents, Events
<1> QED
  BY <1>5, <1>6, <1>7, <1>8 DEF IInv

(* What is sent was queued first: the rest of the queue is newer.          *)
LEMMA RelayKeeps == IInv /\ Relay => IInv'
<1> SUFFICES ASSUME IInv, Relay PROVE IInv'
  OBVIOUS
<1> USE Bounds
<1>1. Typed /\ StoreSound /\ Stream /\ FetchesSound
  BY DEF IInv
<1> DEFINE h == Head(queue)
           rest == Tail(queue)
<1>2. /\ conn = "live" /\ conn' = "live" /\ queue # <<>> /\ queue' = rest
      /\ told' = [told EXCEPT ![h[1]] = h[2]]
      /\ Fetch /\ UNCHANGED <<live, announced, born, copy, gap>>
  BY DEF Relay, storeVars
<1>3. queue \in Seq(Events)
  BY <1>1 DEF Typed
<1> HIDE DEF Events
<1>4. /\ Len(queue) \in Nat /\ 1 \in DOMAIN queue /\ h = queue[1] /\ h \in Events
      /\ rest \in Seq(Events)
      /\ \A n \in DOMAIN rest : n + 1 \in DOMAIN queue /\ 1 < n + 1 /\ rest[n] = queue[n + 1] /\ n \in Nat
  BY <1>2, <1>3
<1>5. \A n \in DOMAIN queue : n = 1 \/ (n - 1 \in DOMAIN rest /\ rest[n - 1] = queue[n])
  <2>1. DOMAIN queue = 1..Len(queue) /\ DOMAIN rest = 1..(Len(queue) - 1) /\ Len(queue) \in Nat
    BY <1>2, <1>3
  <2> SUFFICES ASSUME NEW n \in 1..Len(queue), n # 1
               PROVE  n - 1 \in DOMAIN rest /\ rest[n - 1] = queue[n]
    BY <2>1
  <2>2. n - 1 \in 1..(Len(queue) - 1) /\ (n - 1) + 1 = n
    BY <2>1
  <2> QED
    BY <1>4, <2>1, <2>2
<1> HIDE DEF h, rest
<1>6. h[1] \in Incidents /\ h[2] \in 1..MaxVersion
  BY <1>4 DEF Events
<1>7. \A n \in DOMAIN rest : rest[n] \in Events /\ rest[n][1] \in Incidents /\ rest[n][2] \in Nat
  BY <1>4 DEF Events
<1>8. told' \in Lists /\ told'[h[1]] = h[2] /\ \A i \in Incidents : i # h[1] => told'[i] = told[i]
  BY <1>1, <1>2, <1>6 DEF Typed, Lists
<1>9. h[2] <= announced[h[1]] /\ told[h[1]] < h[2]
  BY <1>1, <1>4 DEF Stream, QueueSound, NeverBackwards
<1>10. StoreSound'
  <2>1. \A i \in Incidents : told'[i] <= live[i]
    BY <1>1, <1>6, <1>8, <1>9, Levels
  <2> QED
    BY <1>1, <1>2, <2>1 DEF StoreSound, Incidents
<1>11. ReplaySound'
  BY <1>1, <1>2 DEF Stream, ReplaySound
<1>12. QueueSound'
  BY <1>1, <1>2, <1>4 DEF Stream, QueueSound
<1>13. NeverBackwards'
  <2>1. ASSUME NEW m \in DOMAIN rest PROVE told'[rest[m][1]] < rest[m][2]
    <3>1. CASE rest[m][1] = h[1]
      BY <1>1, <1>4, <1>8, <3>1 DEF Stream, NeverBackwards
    <3>2. CASE rest[m][1] # h[1]
      BY <1>1, <1>4, <1>7, <1>8, <3>2 DEF Stream, NeverBackwards
    <3> QED
      BY <3>1, <3>2
  <2>2. ASSUME NEW m \in DOMAIN rest, NEW n \in DOMAIN rest, m < n, rest[m][1] = rest[n][1]
        PROVE  rest[m][2] < rest[n][2]
    <3>1. m + 1 < n + 1
      BY <1>4, <2>2
    <3> QED
      BY <1>1, <1>4, <2>2, <3>1 DEF Stream, NeverBackwards
  <2> QED
    BY <1>2, <2>1, <2>2 DEF NeverBackwards
<1>14. LostOnlyInGap'
  <2> SUFFICES ASSUME NEW i \in Incidents, i \notin gap
               PROVE  told'[i] >= announced[i] \/ <<i, announced[i]>> \in Range(rest)
    BY <1>2 DEF LostOnlyInGap, Incidents
  <2>1. told[i] >= announced[i] \/ <<i, announced[i]>> \in Range(queue)
    BY <1>1, <1>2 DEF Stream, LostOnlyInGap
  <2>2. CASE told[i] >= announced[i]
    <3>1. i # h[1]
      BY <1>1, <1>6, <1>9, <2>2, Levels
    <3> QED
      BY <1>8, <2>2, <3>1
  <2>3. CASE <<i, announced[i]>> \in Range(queue)
    <3>1. PICK n \in DOMAIN queue : queue[n] = <<i, announced[i]>>
      BY <2>3 DEF Range
    <3>2. CASE n = 1
      <4>1. h[1] = i /\ h[2] = announced[i]
        BY <1>4, <3>1, <3>2
      <4> QED
        BY <1>1, <1>8, <4>1, Levels
    <3>3. CASE n # 1
      BY <1>5, <3>1, <3>3 DEF Range
    <3> QED
      BY <3>2, <3>3
  <2> QED
    BY <2>1, <2>2, <2>3
<1>15. Stream'
  BY <1>11, <1>12, <1>13, <1>14 DEF Stream
<1>16. /\ fetches' \in [Slots -> FetchType] /\ blurred' \in BOOLEAN
       /\ UNCHANGED shown /\ FetchesSound'
  BY <1>1, <1>2, FetchKeeps
<1>17. Typed'
  BY <1>1, <1>2, <1>4, <1>8, <1>16 DEF Typed, FetchType, Lists, Slots, Incidents, Events
<1> QED
  BY <1>10, <1>15, <1>16, <1>17 DEF IInv
LEMMA ClosedSound ==
  ASSUME Closed, StoreSound'
  PROVE  told' \in Lists /\ copy' \in Seq(Incidents) /\ queue' \in Seq(Events) /\ Stream'
<1>1. /\ conn' = "closed" /\ copy' = <<>> /\ queue' = <<>> /\ told' = Nothing /\ gap' = {}
      /\ <<>> \in Seq(Incidents) /\ <<>> \in Seq(Events)
  BY DEF Closed
<1>2. Nothing' = Nothing
  BY DEF Nothing, Incidents
<1> QED
  BY <1>1, <1>2, NothingTyped
     DEF Stream, ReplaySound, QueueSound, NeverBackwards, LostOnlyInGap

LEMMA DisconnectKeeps == IInv /\ Disconnect => IInv'
<1> SUFFICES ASSUME IInv, Disconnect PROVE IInv'
  OBVIOUS
<1>1. Typed /\ StoreSound /\ FetchesSound
  BY DEF IInv
<1>2. Closed /\ UNCHANGED <<live, announced, born, fetches, shown, blurred>>
  BY DEF Disconnect, storeVars, pageVars
<1>3. \A i \in Incidents : told'[i] = 0
  BY <1>2, NothingTyped DEF Closed
<1>4. StoreSound'
  <2>1. \A i \in Incidents : told'[i] <= live[i]
    BY <1>1, <1>3, Levels
  <2> QED
    BY <1>1, <1>2, <2>1 DEF StoreSound, Incidents
<1>5. told' \in Lists /\ copy' \in Seq(Incidents) /\ queue' \in Seq(Events) /\ Stream'
  BY <1>2, <1>4, ClosedSound
<1>6. FetchesSound'
  <2>1. \A i \in Incidents : told'[i] <= told[i]
    BY <1>1, <1>3, Levels
  <2> QED
    BY <1>1, <1>2, <1>5, <2>1, PageKept
<1>7. Typed'
  BY <1>1, <1>2, <1>5 DEF Closed, Typed, FetchType, Lists, Slots, Incidents, Events
<1> QED
  BY <1>4, <1>5, <1>6, <1>7 DEF IInv

(* The requests of a process die with it.                                  *)
LEMMA RestartKeeps == IInv /\ Restart => IInv'
<1> SUFFICES ASSUME IInv, Restart PROVE IInv'
  OBVIOUS
<1> USE Bounds
<1>1. Typed /\ StoreSound /\ FetchesSound
  BY DEF IInv
<1>2. /\ Closed /\ live' = Nothing /\ announced' = Nothing /\ UNCHANGED <<born, shown>>
      /\ fetches' = [s \in Slots |-> Free] /\ blurred' = (blurred \/ InFlight # {})
  BY DEF Restart
<1>3. \A i \in Incidents : live'[i] = 0 /\ announced'[i] = 0 /\ told'[i] = 0
  BY <1>2, NothingTyped DEF Closed
<1>4. StoreSound'
  <2>1. born' + 1 \in 1..(born' + 1) /\ \A i \in Incidents : i \notin (born' + 1)..born'
    BY <1>1, <1>2 DEF Typed
  <2>2. \A i \in Incidents : announced'[i] <= live'[i] /\ told'[i] <= live'[i]
    BY <1>3
  <2>3. \A i \in Incidents : live'[i] > 0 <=> i \in (born' + 1)..born'
    BY <1>3, <2>1
  <2> QED
    BY <2>1, <2>2, <2>3 DEF StoreSound, Incidents
<1>5. told' \in Lists /\ copy' \in Seq(Incidents) /\ queue' \in Seq(Events) /\ Stream'
  BY <1>2, <1>4, ClosedSound
<1>6. FetchesSound'
  <2>1. InFlight' = {} /\ \A s \in Slots : fetches'[s].stage = "free"
    BY <1>2 DEF InFlight, Free, Slots
  <2>2. \A i \in Incidents : told'[i] <= shown'[i]
    BY <1>1, <1>2, <1>3, Levels
  <2> QED
    BY <2>1, <2>2 DEF FetchesSound, Slots, Incidents
<1>7. fetches' \in [Slots -> FetchType] /\ blurred' \in BOOLEAN
  BY <1>1, <1>2 DEF Typed, FetchType
<1>8. Typed'
  BY <1>1, <1>2, <1>5, <1>7, NothingTyped
     DEF Closed, Typed, FetchType, Lists, Slots, Incidents, Events, Nothing
<1> QED
  BY <1>4, <1>5, <1>6, <1>8 DEF IInv

(* The dashboard's steps leave the store and the stream alone.             *)
LEMMA PageSteps ==
  ASSUME IInv, NEW s \in Slots, Answer(s) \/ Land(s) \/ Fail(s)
  PROVE  IInv'
<1>1. Typed /\ StoreSound /\ Stream /\ FetchesSound
  BY DEF IInv
<1>2. UNCHANGED <<live, announced, born, conn, copy, queue, told, gap>>
  BY DEF Answer, Land, Fail, storeVars, streamVars
<1>3. StoreSound'
  BY <1>1, <1>2 DEF StoreSound, Incidents
<1>4. Stream'
  BY <1>1, <1>2
     DEF Stream, ReplaySound, QueueSound, NeverBackwards, LostOnlyInGap, Incidents, Nothing
<1>5. fetches' \in [Slots -> FetchType] /\ blurred' \in BOOLEAN /\ shown' \in Lists /\ FetchesSound'
  <2>1. CASE Answer(s)
    BY <1>1, <2>1, AnswerKeeps DEF Answer, Typed
  <2>2. CASE Land(s)
    BY <1>1, <2>2, LandKeeps
  <2>3. CASE Fail(s)
    BY <1>1, <2>3, FailKeeps DEF Fail, Typed
  <2> QED
    BY <2>1, <2>2, <2>3
<1>6. Typed'
  BY <1>1, <1>2, <1>5 DEF Typed, FetchType, Lists, Slots, Incidents, Events
<1> QED
  BY <1>3, <1>4, <1>5, <1>6 DEF IInv

LEMMA Stutter == IInv /\ UNCHANGED vars => IInv'
<1> SUFFICES ASSUME IInv, UNCHANGED vars PROVE IInv'
  OBVIOUS
<1>1. Typed /\ StoreSound /\ Stream /\ FetchesSound
  BY DEF IInv
<1>2. UNCHANGED <<live, announced, born, conn, copy, queue, told, gap, fetches, shown, blurred>>
  BY DEF vars, storeVars, streamVars, pageVars
<1>3. Typed'
  BY <1>1, <1>2 DEF Typed, FetchType, Lists, Slots, Incidents, Events
<1>4. StoreSound'
  BY <1>1, <1>2 DEF StoreSound, Incidents
<1>5. Stream'
  BY <1>1, <1>2
     DEF Stream, ReplaySound, QueueSound, NeverBackwards, LostOnlyInGap, Incidents, Nothing
<1>6. FetchesSound'
  BY <1>1, <1>2, PageKept, Levels DEF Typed
<1> QED
  BY <1>3, <1>4, <1>5, <1>6 DEF IInv
-----------------------------------------------------------------------------
(* The invariant holds throughout, and with it the properties.             *)
THEOREM Invariance == Spec => []IInv
<1>1. IInv /\ [Next]_vars => IInv'
  <2> SUFFICES ASSUME IInv, [Next]_vars PROVE IInv'
    OBVIOUS
  <2>1. CASE Create
    BY <2>1, CreateKeeps
  <2>2. CASE Connect
    BY <2>2, ConnectKeeps
  <2>3. CASE ReplayNext
    BY <2>3, ReplayNextKeeps
  <2>4. CASE Subscribe
    BY <2>4, SubscribeKeeps
  <2>5. CASE Relay
    BY <2>5, RelayKeeps
  <2>6. CASE Disconnect
    BY <2>6, DisconnectKeeps
  <2>7. CASE Restart
    BY <2>7, RestartKeeps
  <2>8. ASSUME NEW i \in Incidents, Change(i) PROVE IInv'
    BY <2>8, ChangeKeeps
  <2>9. ASSUME NEW i \in Incidents, Reset(i) PROVE IInv'
    BY <2>9, ResetKeeps
  <2>10. ASSUME NEW s \in Slots, Answer(s) \/ Land(s) \/ Fail(s) PROVE IInv'
    BY <2>10, PageSteps
  <2>11. CASE UNCHANGED vars
    BY <2>11, Stutter
  <2> QED
    BY <2>1, <2>2, <2>3, <2>4, <2>5, <2>6, <2>7, <2>8, <2>9, <2>10, <2>11 DEF Next, Serve
<1> QED
  BY <1>1, InitSound, PTL DEF Spec

(* What a stream says of an incident never goes back in time.              *)
THEOREM Forward == Spec => []NeverBackwards
<1>1. IInv => NeverBackwards
  BY DEF IInv, Stream
<1> QED
  BY <1>1, Invariance, PTL

(* A subscribed stream lost nothing but what fell in its gap.              *)
THEOREM GapOnly == Spec => []LostOnlyInGap
<1>1. IInv => LostOnlyInGap
  BY DEF IInv, Stream
<1> QED
  BY <1>1, Invariance, PTL

(* What was lost aside, the page is up to date at rest, if no request      *)
(* failed or overlapped with another since one ran alone.                  *)
THEOREM Current == Spec => []CurrentAtRest
<1>1. IInv => CurrentAtRest
  <2> SUFFICES ASSUME IInv, conn = "live", queue = <<>>, InFlight = {}, gap = {}, ~blurred,
                      NEW i \in Incidents
               PROVE  shown[i] >= announced[i]
    BY DEF CurrentAtRest
  <2>1. told[i] >= announced[i]
    BY DEF IInv, Stream, LostOnlyInGap, Range
  <2>2. told[i] <= shown[i]
    BY Zenon DEF IInv, FetchesSound
  <2>3. told[i] \in Nat /\ announced[i] \in Nat /\ shown[i] \in Nat
    BY Levels DEF IInv
  <2> QED
    BY <2>1, <2>2, <2>3
<1> QED
  BY <1>1, Invariance, PTL
=============================================================================
