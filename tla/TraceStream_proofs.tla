-------------------------- MODULE TraceStream_proofs --------------------------
(***************************************************************************)
(* Proofs about TraceStream for every set of clients: whatever bursts,     *)
(* resets, late arrivals and disconnections do, a client gets no step      *)
(* twice or out of order and none that came since it subscribed passes it  *)
(* by.  The inductive invariant describes a subscriber's queue exactly: it *)
(* is the end of the trace, and what left it is what the client was sent.  *)
(***************************************************************************)
EXTENDS TraceStream, SequenceTheorems, TLAPS

(* The trace's length at each stage of the run; it is over only at its end. *)
PipeSound ==
  /\ emitted \in 0..MaxSteps /\ over \in BOOLEAN
  /\ pipe \in {"launched", "waiting", "ended"}
  /\ pipe = "launched" => emitted = 0
  /\ pipe = "waiting" => emitted = 3
  /\ over => pipe = "ended"

(* The last step that has left c's queue.                                  *)
Drained(c) == emitted - Len(queue[c])

(* A client that has not subscribed has replayed the steps in order.       *)
ReplaySound(c) ==
  /\ at[c] \in {"away", "replaying"} => queue[c] = <<>>
  /\ at[c] = "away" => got[c] = <<>>
  /\ at[c] = "replaying" =>
       /\ Len(got[c]) <= replay[c]
       /\ \A i \in DOMAIN got[c] : got[c][i] = i

(* A subscriber's queue is the end of the trace, without a gap, and it has *)
(* yielded what has left it since it subscribed and nothing beyond.        *)
QueueSound(c) ==
  /\ c \in subscribers <=> at[c] \in {"live", "checking"}
  /\ at[c] \in {"live", "checking"} =>
       /\ Len(got[c]) <= Drained(c)
       /\ \A i \in DOMAIN queue[c] : queue[c][i] = Drained(c) + i
       /\ \A i \in DOMAIN got[c] : got[c][i] <= Drained(c)
       /\ \A k \in (joined[c] + 1)..Drained(c) : \E i \in DOMAIN got[c] : got[c][i] = k

(* No burst follows the "done".                                            *)
DoneSound(c) ==
  at[c] = "done" => /\ pipe = "ended"
                    /\ \A k \in (joined[c] + 1)..emitted : \E i \in DOMAIN got[c] : got[c][i] = k

(* What a client was sent, and what waits for it, are steps of the trace.  *)
HeldSound(c) ==
  /\ Len(got[c]) <= emitted /\ \A i \in DOMAIN got[c] : got[c][i] \in 1..emitted
  /\ Len(queue[c]) <= emitted /\ \A i \in DOMAIN queue[c] : queue[c][i] \in 1..emitted

ClientSound(c) ==
  /\ joined[c] <= emitted /\ replay[c] <= emitted
  /\ \A i, j \in DOMAIN got[c] : i < j => got[c][i] < got[c][j]
  /\ HeldSound(c) /\ ReplaySound(c) /\ QueueSound(c) /\ DoneSound(c)

Shape ==
  /\ subscribers \subseteq Clients
  /\ queue \in [Clients -> Seq(Nat)] /\ got \in [Clients -> Seq(Nat)]
  /\ at \in [Clients -> {"away", "replaying", "live", "checking", "done", "gone"}]
  /\ replay \in [Clients -> Nat] /\ joined \in [Clients -> Nat]

IInv == PipeSound /\ Shape /\ \A c \in Clients : ClientSound(c)
-----------------------------------------------------------------------------
LEMMA InitSound == Init => IInv
<1> SUFFICES ASSUME Init PROVE IInv
  OBVIOUS
<1>1. PipeSound /\ Shape
  <2>1. <<>> \in Seq(Nat)
    OBVIOUS
  <2>2. PipeSound
    <3>1. over = FALSE
      BY DEF Init
    <3>2. over \in BOOLEAN /\ ~over
      BY <3>1, Zenon
    <3>3. QED
      BY <3>2 DEF Init, PipeSound, MaxSteps
  <2>3. Shape
    BY <2>1 DEF Init, Shape
  <2>4. QED
    BY <2>2, <2>3
<1>2. ASSUME NEW c \in Clients PROVE ClientSound(c)
  BY DEF Init, ClientSound, HeldSound, ReplaySound, QueueSound, DoneSound
<1>3. QED
  BY <1>1, <1>2 DEF IInv

(* The pipeline's part.                                                    *)
LEMMA StepPipe == PipeSound /\ [Next]_vars => PipeSound'
<1> SUFFICES ASSUME PipeSound, [Next]_vars PROVE PipeSound'
  OBVIOUS
<1> USE DEF PipeSound, MaxSteps
<1>1. CASE FirstBurst
  <2>1. CASE Emit(3) /\ pipe' = "waiting" /\ UNCHANGED over
    <3>1. emitted = 0 /\ emitted' = emitted + 3
      BY <1>1, <2>1 DEF FirstBurst, Emit
    <3>2. QED
      BY <1>1, <2>1, <3>1 DEF FirstBurst
  <2>2. CASE (\E n \in 1..MaxSteps : Emit(n)) /\ pipe' = "ended" /\ over' = TRUE
    <3>1. emitted = 0 /\ \E n \in 1..5 : emitted' = emitted + n
      BY <1>1, <2>2 DEF FirstBurst, Emit
    <3>2. QED
      BY <2>2, <3>1
  <2>3. QED
    BY <1>1, <2>1, <2>2 DEF FirstBurst
<1>2. CASE SecondBurst
  <2>1. emitted = 3 /\ \E n \in 1..2 : emitted' = emitted + n
    BY <1>2 DEF SecondBurst, Emit
  <2>2. pipe' = "ended" /\ over' \in BOOLEAN
    BY <1>2 DEF SecondBurst
  <2>3. emitted' \in 0..5
    BY <2>1
  <2>4. QED
    BY <2>2, <2>3
<1>3. CASE Reset
  BY <1>3 DEF Reset
<1>4. ASSUME NEW c \in Clients, Connect(c) \/ Serve(c) \/ Disconnect(c) PROVE PipeSound'
  BY <1>4 DEF Connect, Serve, Disconnect, Replay, Subscribe, Relay, KeepAlive, Check, pipeVars
<1>5. CASE UNCHANGED vars
  BY <1>5 DEF vars, pipeVars
<1>6. QED
  BY <1>1, <1>2, <1>3, <1>4, <1>5 DEF Next

(* A burst of n steps, as the clients see it.                              *)
Burst(n) ==
  /\ pipe # "ended" /\ Emit(n)
  /\ UNCHANGED <<subscribers, at, replay, got, joined>>

LEMMA BurstOfPipe ==
  ASSUME PipeSound, FirstBurst \/ SecondBurst
  PROVE  \E n \in 1..MaxSteps : Burst(n)
<1> USE DEF PipeSound, MaxSteps, Burst
<1>1. CASE FirstBurst
  <2>1. /\ pipe = "launched" /\ UNCHANGED <<subscribers, at, replay, got, joined>>
        /\ \E n \in 1..MaxSteps : Emit(n)
    <3>1. 3 \in 1..MaxSteps
      OBVIOUS
    <3>2. QED
      BY <1>1, <3>1 DEF FirstBurst
  <2>2. QED
    BY <2>1
<1>2. CASE SecondBurst
  <2>1. /\ pipe = "waiting" /\ UNCHANGED <<subscribers, at, replay, got, joined>>
        /\ \E n \in 1..2 : Emit(n)
    BY <1>2 DEF SecondBurst
  <2>2. QED
    BY <2>1
<1>3. QED
  BY <1>1, <1>2

LEMMA BurstQueue ==
  ASSUME PipeSound, Shape, NEW n \in 1..MaxSteps, Burst(n), NEW c \in Clients
  PROVE  /\ emitted \in Nat /\ emitted' = emitted + n
         /\ c \notin subscribers => queue'[c] = queue[c]
         /\ c \in subscribers =>
              /\ queue'[c] \in Seq(Nat) /\ Len(queue'[c]) = Len(queue[c]) + n
              /\ \A i \in 1..Len(queue[c]) : queue'[c][i] = queue[c][i]
              /\ \A i \in (Len(queue[c]) + 1)..(Len(queue[c]) + n) :
                   queue'[c][i] = emitted + (i - Len(queue[c]))
<1>1. emitted \in Nat /\ n \in Nat /\ emitted' = emitted + n
  BY DEF PipeSound, Burst, Emit, MaxSteps
<1>2. c \notin subscribers => queue'[c] = queue[c]
  BY DEF Burst, Emit
<1>3. c \in subscribers => queue'[c] = queue[c] \o [i \in 1..n |-> emitted + i]
  BY DEF Burst, Emit
<1>4. queue[c] \in Seq(Nat)
  BY DEF Shape
<1>5. ASSUME c \in subscribers
      PROVE  /\ queue'[c] \in Seq(Nat) /\ Len(queue'[c]) = Len(queue[c]) + n
             /\ \A i \in 1..Len(queue[c]) : queue'[c][i] = queue[c][i]
             /\ \A i \in (Len(queue[c]) + 1)..(Len(queue[c]) + n) :
                  queue'[c][i] = emitted + (i - Len(queue[c]))
  <2> DEFINE u == [i \in 1..n |-> emitted + i]
  <2>1. u \in Seq(Nat) /\ Len(u) = n /\ \A i \in 1..n : u[i] = emitted + i
    BY <1>1
  <2>2. queue'[c] = queue[c] \o u
    BY <1>3, <1>5
  <2> HIDE DEF u
  <2>3. /\ queue[c] \o u \in Seq(Nat) /\ Len(queue[c] \o u) = Len(queue[c]) + n
        /\ \A i \in 1..(Len(queue[c]) + n) :
             (queue[c] \o u)[i] = IF i <= Len(queue[c]) THEN queue[c][i] ELSE u[i - Len(queue[c])]
    <3>1. /\ queue[c] \o u \in Seq(Nat) /\ Len(queue[c] \o u) = Len(queue[c]) + Len(u)
          /\ \A i \in 1..(Len(queue[c]) + Len(u)) :
               (queue[c] \o u)[i] = IF i <= Len(queue[c]) THEN queue[c][i] ELSE u[i - Len(queue[c])]
      BY <1>4, <2>1, ConcatProperties
    <3>2. QED
      BY <2>1, <3>1
  <2>4. Len(queue[c]) \in Nat
    BY <1>4
  <2>5. \A i \in 1..Len(queue[c]) : queue'[c][i] = queue[c][i]
    BY <1>1, <2>2, <2>3, <2>4
  <2>6. ASSUME NEW i \in (Len(queue[c]) + 1)..(Len(queue[c]) + n)
        PROVE  queue'[c][i] = emitted + (i - Len(queue[c]))
    <3>1. i \in 1..(Len(queue[c]) + n) /\ ~ (i <= Len(queue[c])) /\ i - Len(queue[c]) \in 1..n
      BY <1>1, <2>4
    <3>2. queue'[c][i] = u[i - Len(queue[c])]
      BY <2>2, <2>3, <3>1
    <3>3. QED
      BY <2>1, <3>1, <3>2
  <2>7. QED
    BY <2>2, <2>3, <2>5, <2>6
<1>6. QED
  BY <1>1, <1>2, <1>5

LEMMA BurstShape ==
  ASSUME PipeSound, Shape, NEW n \in 1..MaxSteps, Burst(n)
  PROVE  Shape'
<1>1. \A c \in Clients : queue'[c] \in Seq(Nat)
  BY BurstQueue DEF Shape
<1>2. queue' = [c \in Clients |-> queue'[c]]
  BY DEF Burst, Emit
<1>3. queue' \in [Clients -> Seq(Nat)]
  BY <1>1, <1>2
<1>4. QED
  BY <1>3 DEF Shape, Burst

LEMMA BurstSound ==
  ASSUME IInv, NEW n \in 1..MaxSteps, Burst(n), NEW c \in Clients
  PROVE  ClientSound(c)'
<1> USE DEF Drained
<1>1. /\ emitted \in Nat /\ n \in Nat \ {0} /\ emitted' = emitted + n /\ pipe # "ended"
      /\ UNCHANGED <<subscribers, at, replay, got, joined>>
      /\ queue[c] \in Seq(Nat) /\ got[c] \in Seq(Nat) /\ joined[c] \in Nat /\ replay[c] \in Nat
  BY BurstQueue DEF IInv, Burst, MaxSteps, Shape
<1>2. ClientSound(c)
  BY DEF IInv
<1>3. at[c] # "done"
  BY <1>1, <1>2 DEF ClientSound, DoneSound
<1>4. CASE c \notin subscribers
  <2>1. queue'[c] = queue[c] /\ at[c] \notin {"live", "checking"}
    BY <1>2, <1>4, BurstQueue DEF IInv, ClientSound, QueueSound
  <2>2. HeldSound(c)' /\ ReplaySound(c)'
    BY <1>1, <1>2, <2>1, SMTT(30) DEF ClientSound, HeldSound, ReplaySound
  <2>3. QueueSound(c)' /\ DoneSound(c)'
    BY <1>1, <1>3, <1>4, <2>1 DEF QueueSound, DoneSound
  <2>4. QED
    BY <1>1, <1>2, <2>2, <2>3 DEF ClientSound
<1>5. CASE c \in subscribers
  <2> DEFINE k == Len(queue[c])
  <2>1. /\ queue'[c] \in Seq(Nat) /\ Len(queue'[c]) = k + n
        /\ \A i \in 1..k : queue'[c][i] = queue[c][i]
        /\ \A i \in (k + 1)..(k + n) : queue'[c][i] = emitted + (i - k)
    BY <1>5, BurstQueue DEF IInv
  <2>2. /\ k \in 0..emitted /\ at[c] \in {"live", "checking"}
        /\ \A i \in 1..k : queue[c][i] = emitted - k + i
    <3>1. at[c] \in {"live", "checking"}
      BY <1>2, <1>5 DEF ClientSound, QueueSound
    <3>2. DOMAIN queue[c] = 1..k /\ k \in Nat /\ k <= emitted
      BY <1>1, <1>2 DEF ClientSound, HeldSound
    <3>9. k \in 0..emitted
      BY <1>1, <3>2
    <3>3. \A i \in 1..k : queue[c][i] = emitted - k + i
      BY <1>2, <3>1, <3>2 DEF ClientSound, QueueSound
    <3>4. QED
      BY <3>1, <3>9, <3>3
  <2> HIDE DEF k
  <2>3. DOMAIN queue'[c] = 1..(k + n) /\ Drained(c)' = emitted - k /\ Drained(c) = emitted - k
    BY <1>1, <2>1, <2>2 DEF k
  <2>4. \A i \in 1..(k + n) : queue'[c][i] = emitted - k + i
    <3> SUFFICES ASSUME NEW i \in 1..(k + n) PROVE queue'[c][i] = emitted - k + i
      OBVIOUS
    <3>1. CASE i <= k
      <4>1. i \in 1..k
        BY <2>2, <3>1
      <4>2. QED
        BY <2>1, <2>2, <4>1
    <3>2. CASE i > k
      <4>1. i \in (k + 1)..(k + n) /\ i \in Int /\ k \in Int
        BY <1>1, <2>2, <3>2
      <4>2. queue'[c][i] = emitted + (i - k)
        BY <2>1, <4>1
      <4>3. QED
        BY <1>1, <4>1, <4>2
    <3>3. QED
      BY <1>1, <2>2, <3>1, <3>2
  <2>5. QueueSound(c)'
    BY <1>1, <1>2, <1>5, <2>2, <2>3, <2>4 DEF ClientSound, QueueSound
  <2>6. HeldSound(c)'
    <3>1. Len(got'[c]) <= emitted' /\ \A i \in DOMAIN got'[c] : got'[c][i] \in 1..emitted'
      BY <1>1, <1>2 DEF ClientSound, HeldSound
    <3>2. \A i \in 1..(k + n) : emitted - k + i \in 1..emitted'
      BY <1>1, <2>2
    <3>3. Len(queue'[c]) <= emitted'
      BY <1>1, <2>1, <2>2
    <3>4. \A i \in DOMAIN queue'[c] : queue'[c][i] \in 1..emitted'
      BY <2>3, <2>4, <3>2
    <3>5. QED
      BY <3>1, <3>3, <3>4 DEF HeldSound
  <2>7. ReplaySound(c)' /\ DoneSound(c)'
    BY <1>1, <2>2 DEF ReplaySound, DoneSound
  <2>8. QED
    BY <1>1, <1>2, <2>5, <2>6, <2>7 DEF ClientSound
<1>6. QED
  BY <1>4, <1>5

(* A client's own steps leave the pipeline and the others alone.           *)
LEMMA ClientKept ==
  ASSUME NEW c, ClientSound(c), UNCHANGED <<emitted, pipe>>,
         queue'[c] = queue[c], at'[c] = at[c], replay'[c] = replay[c], got'[c] = got[c],
         joined'[c] = joined[c], c \in subscribers' <=> c \in subscribers
  PROVE  ClientSound(c)'
  BY DEF ClientSound, HeldSound, ReplaySound, QueueSound, DoneSound, Drained

(* A step of c alone.                                                      *)
Only(c) ==
  /\ UNCHANGED <<emitted, pipe>>
  /\ \A d \in Clients \ {c} :
       /\ queue'[d] = queue[d] /\ at'[d] = at[d] /\ replay'[d] = replay[d]
       /\ got'[d] = got[d] /\ joined'[d] = joined[d]
       /\ d \in subscribers' <=> d \in subscribers

LEMMA OthersKept ==
  ASSUME IInv, NEW c \in Clients, Only(c), ClientSound(c)'
  PROVE  \A d \in Clients : ClientSound(d)'
<1> SUFFICES ASSUME NEW d \in Clients, d # c PROVE ClientSound(d)'
  OBVIOUS
<1> QED
  BY ClientKept DEF IInv, Only

LEMMA ConnectSound ==
  ASSUME IInv, NEW c \in Clients, Connect(c)
  PROVE  Shape' /\ Only(c) /\ ClientSound(c)'
<1>1. /\ at[c] = "away" /\ replay' = [replay EXCEPT ![c] = emitted]
      /\ UNCHANGED <<emitted, pipe, queue, got, joined>> /\ emitted \in Nat
  BY DEF Connect, Moves, pipeVars, IInv, PipeSound, MaxSteps
<1>2. queue[c] = <<>> /\ got[c] = <<>> /\ joined[c] \in Nat /\ joined[c] <= emitted /\ c \notin subscribers
  BY <1>1 DEF IInv, ClientSound, ReplaySound, QueueSound, Shape
<1>3. CASE emitted = 0
  <2>1. at' = [at EXCEPT ![c] = "live"] /\ subscribers' = subscribers \cup {c}
    BY <1>3 DEF Connect, Moves
  <2>2. Shape' /\ Only(c)
    BY <1>1, <2>1 DEF IInv, Shape, Only
  <2>3. /\ at'[c] = "live" /\ c \in subscribers' /\ queue'[c] = <<>> /\ got'[c] = <<>>
        /\ joined'[c] = 0 /\ replay'[c] = emitted
    BY <1>1, <1>2, <1>3, <2>1 DEF IInv, Shape
  <2>4. ClientSound(c)'
    BY <1>1, <1>3, <2>3 DEF ClientSound, HeldSound, ReplaySound, QueueSound, DoneSound, Drained
  <2>5. QED
    BY <2>2, <2>4
<1>4. CASE emitted # 0
  <2>1. at' = [at EXCEPT ![c] = "replaying"] /\ UNCHANGED subscribers
    BY <1>4 DEF Connect, Moves
  <2>2. Shape' /\ Only(c)
    BY <1>1, <2>1 DEF IInv, Shape, Only
  <2>3. /\ at'[c] = "replaying" /\ c \notin subscribers' /\ queue'[c] = <<>> /\ got'[c] = <<>>
        /\ joined'[c] <= emitted /\ replay'[c] = emitted
    BY <1>1, <1>2, <2>1 DEF IInv, Shape
  <2>4. ClientSound(c)'
    BY <1>1, <2>3 DEF ClientSound, HeldSound, ReplaySound, QueueSound, DoneSound
  <2>5. QED
    BY <2>2, <2>4
<1>5. QED
  BY <1>3, <1>4

LEMMA ReplayKeepsSound ==
  ASSUME IInv, NEW c \in Clients, Replay(c)
  PROVE  Shape' /\ Only(c) /\ ClientSound(c)'
<1> DEFINE n == Len(got[c])
<1>1. /\ n < replay[c] /\ at[c] = "replaying" /\ at' = [at EXCEPT ![c] = "replaying"]
      /\ got' = [got EXCEPT ![c] = Append(got[c], n + 1)]
      /\ UNCHANGED <<emitted, pipe, subscribers, queue, replay, joined>>
  BY DEF Replay, Moves, pipeVars
<1>2. Shape' /\ Only(c)
  BY <1>1 DEF IInv, Shape, Only
<1>3. /\ queue[c] = <<>> /\ replay[c] <= emitted /\ replay[c] \in Nat /\ emitted \in Nat
      /\ got[c] \in Seq(Nat) /\ \A i \in DOMAIN got[c] : got[c][i] = i
      /\ joined[c] <= emitted /\ c \notin subscribers
  <2>1. ClientSound(c) /\ replay[c] \in Nat /\ emitted \in Nat /\ got[c] \in Seq(Nat)
    BY DEF IInv, Shape, PipeSound, MaxSteps
  <2>2. QED
    BY <1>1, <2>1 DEF ClientSound, ReplaySound, QueueSound
<1>4. /\ n \in Nat /\ n + 1 <= emitted /\ got'[c] = Append(got[c], n + 1)
      /\ at'[c] = "replaying" /\ queue'[c] = <<>>
  BY <1>1, <1>3 DEF IInv, Shape
<1>5. DOMAIN got'[c] = 1..(n + 1) /\ Len(got'[c]) = n + 1 /\ \A i \in 1..(n + 1) : got'[c][i] = i
  BY <1>3, <1>4
<1>6. ClientSound(c)'
  BY <1>1, <1>3, <1>4, <1>5 DEF ClientSound, HeldSound, ReplaySound, QueueSound, DoneSound
<1>7. QED
  BY <1>2, <1>6

LEMMA SubscribeSound ==
  ASSUME IInv, NEW c \in Clients, Subscribe(c)
  PROVE  Shape' /\ Only(c) /\ ClientSound(c)'
<1>1. /\ Len(got[c]) = replay[c] /\ at[c] = "replaying" /\ at' = [at EXCEPT ![c] = "live"]
      /\ subscribers' = subscribers \cup {c} /\ joined' = [joined EXCEPT ![c] = emitted]
      /\ UNCHANGED <<emitted, pipe, queue, replay, got>> /\ emitted \in Nat
  BY DEF Subscribe, Moves, pipeVars, IInv, PipeSound, MaxSteps
<1>2. Shape' /\ Only(c)
  BY <1>1 DEF IInv, Shape, Only
<1>3. ClientSound(c) /\ got[c] \in Seq(Nat)
  BY DEF IInv, Shape
<1>4. /\ at'[c] = "live" /\ c \in subscribers' /\ queue'[c] = <<>> /\ joined'[c] = emitted
      /\ Len(queue'[c]) = 0 /\ DOMAIN queue'[c] = {}
  BY <1>1, <1>3 DEF IInv, Shape, ClientSound, ReplaySound
<1>5. HeldSound(c)' /\ ReplaySound(c)' /\ DoneSound(c)'
  BY <1>1, <1>3, <1>4 DEF ClientSound, HeldSound, ReplaySound, DoneSound
<1>6. QueueSound(c)'
  BY <1>1, <1>3, <1>4 DEF ClientSound, HeldSound, QueueSound, Drained
<1>7. QED
  BY <1>1, <1>2, <1>3, <1>4, <1>5, <1>6 DEF ClientSound

LEMMA RelaySound ==
  ASSUME IInv, NEW c \in Clients, Relay(c)
  PROVE  Shape' /\ Only(c) /\ ClientSound(c)'
<1> DEFINE s == queue[c]  t == Tail(s)  g == got[c]  h == Append(g, Head(s))  x == emitted - Len(s)
<1>1. /\ s # <<>> /\ at[c] = "live" /\ at' = [at EXCEPT ![c] = "checking"]
      /\ got' = [got EXCEPT ![c] = h] /\ queue' = [queue EXCEPT ![c] = t]
      /\ UNCHANGED <<emitted, pipe, subscribers, replay, joined>> /\ emitted \in Nat
  BY DEF Relay, Moves, pipeVars, IInv, PipeSound, MaxSteps
<1>2. /\ s \in Seq(Nat) /\ g \in Seq(Nat) /\ joined[c] \in Nat /\ ClientSound(c)
  BY DEF IInv, Shape
<1>3. /\ t \in Seq(Nat) /\ Len(s) \in Nat \ {0} /\ Len(t) = Len(s) - 1
      /\ \A i \in 1..Len(t) : t[i] = s[i + 1]
  BY <1>1, <1>2
<1>4. /\ c \in subscribers /\ Len(s) <= emitted /\ Len(g) <= x
      /\ \A i \in 1..Len(s) : s[i] = x + i
      /\ \A i \in 1..Len(g) : g[i] <= x
      /\ \A k \in (joined[c] + 1)..x : \E i \in 1..Len(g) : g[i] = k
      /\ \A i, j \in 1..Len(g) : i < j => g[i] < g[j]
      /\ \A i \in 1..Len(g) : g[i] \in 1..emitted
      /\ joined[c] <= emitted /\ replay[c] <= emitted
  <2>1. DOMAIN s = 1..Len(s) /\ DOMAIN g = 1..Len(g) /\ x = Drained(c)
    BY <1>2 DEF Drained
  <2>2. at[c] \in {"live", "checking"}
    BY <1>1
  <2>3. /\ joined[c] <= emitted /\ replay[c] <= emitted /\ Len(s) <= emitted
        /\ \A i, j \in 1..Len(g) : i < j => g[i] < g[j]
        /\ \A i \in 1..Len(g) : g[i] \in 1..emitted
    BY <1>2, <2>1 DEF ClientSound, HeldSound
  <2>4. /\ c \in subscribers /\ Len(g) <= Drained(c)
        /\ \A i \in DOMAIN s : s[i] = Drained(c) + i
        /\ \A i \in DOMAIN g : g[i] <= Drained(c)
        /\ \A k \in (joined[c] + 1)..Drained(c) : \E i \in DOMAIN g : g[i] = k
    BY <1>2, <2>2 DEF ClientSound, QueueSound
  <2> HIDE DEF s, g, x
  <2>5. QED
    BY <2>1, <2>3, <2>4
<1>5. Head(s) = x + 1 /\ x + 1 \in 1..emitted /\ x \in Nat
  <2>1. Head(s) = s[1] /\ 1 \in 1..Len(s)
    BY <1>2, <1>3
  <2>2. Head(s) = x + 1
    BY <1>4, <2>1
  <2>3. Len(s) \in 1..emitted
    BY <1>1, <1>3, <1>4
  <2>4. x = emitted - Len(s)
    OBVIOUS
  <2> HIDE DEF s, x
  <2>5. x \in Nat /\ x + 1 \in 1..emitted
    BY <1>1, <2>3, <2>4
  <2>6. QED
    BY <2>2, <2>5
<1>6. /\ h \in Seq(Nat) /\ Len(h) = Len(g) + 1 /\ h[Len(g) + 1] = x + 1
      /\ \A i \in 1..Len(g) : h[i] = g[i]
  BY <1>2, <1>5
<1>7. Shape' /\ Only(c) /\ at'[c] = "checking" /\ got'[c] = h /\ queue'[c] = t
  BY <1>1, <1>2, <1>3, <1>6 DEF IInv, Shape, Only
<1>0. x = emitted - Len(s)
  OBVIOUS
<1> HIDE DEF s, t, g, h, x
<1>8. emitted - Len(t) = x + 1 /\ Len(t) \in Nat /\ Len(t) = emitted - (x + 1)
  BY <1>0, <1>1, <1>3
<1>9. \A i, j \in 1..(Len(g) + 1) : i < j => h[i] < h[j]
  <2> SUFFICES ASSUME NEW i \in 1..(Len(g) + 1), NEW j \in 1..(Len(g) + 1), i < j PROVE h[i] < h[j]
    OBVIOUS
  <2>1. i \in 1..Len(g) /\ Len(g) \in Nat
    BY <1>2
  <2>2. CASE j \in 1..Len(g)
    BY <1>4, <1>6, <2>1, <2>2
  <2>3. CASE j = Len(g) + 1
    BY <1>4, <1>5, <1>6, <2>1, <2>3
  <2>4. QED
    BY <2>1, <2>2, <2>3
<1>10. \A k \in (joined[c] + 1)..(x + 1) : \E i \in 1..(Len(g) + 1) : h[i] = k
  <2> SUFFICES ASSUME NEW k \in (joined[c] + 1)..(x + 1) PROVE \E i \in 1..(Len(g) + 1) : h[i] = k
    OBVIOUS
  <2>1. CASE k = x + 1
    BY <1>2, <1>6, <2>1
  <2>2. CASE k # x + 1
    <3>1. k \in (joined[c] + 1)..x
      BY <1>2, <1>5, <2>2
    <3>2. PICK i \in 1..Len(g) : g[i] = k
      BY <1>4, <3>1
    <3>3. i \in 1..(Len(g) + 1) /\ h[i] = k
      BY <1>2, <1>6, <3>2
    <3>4. QED
      BY <3>3
  <2>3. QED
    BY <2>1, <2>2
<1>11. DOMAIN h = 1..(Len(g) + 1) /\ DOMAIN t = 1..Len(t) /\ Len(g) \in Nat
  BY <1>2, <1>3, <1>6
<1>12. ASSUME NEW i \in 1..(Len(g) + 1) PROVE h[i] \in 1..(x + 1)
  <2>1. CASE i = Len(g) + 1
    BY <1>5, <1>6, <2>1
  <2>2. CASE i # Len(g) + 1
    <3>1. i \in 1..Len(g)
      BY <1>11, <2>2
    <3>2. h[i] = g[i] /\ g[i] <= x /\ g[i] \in 1..emitted
      BY <1>4, <1>6, <3>1
    <3>3. QED
      BY <1>1, <1>5, <3>2
  <2>3. QED
    BY <2>1, <2>2
<1>13. \A i \in 1..Len(t) : t[i] = x + 1 + i
  BY <1>3, <1>4, <1>5
<1>14. HeldSound(c)'
  <2>1. Len(h) <= emitted /\ \A i \in DOMAIN h : h[i] \in 1..emitted
    BY <1>1, <1>4, <1>5, <1>6, <1>11, <1>12
  <2>2. Len(t) \in Nat /\ Len(t) = emitted - (x + 1)
    BY <1>8
  <2>3. Len(t) <= emitted
    BY <1>1, <1>5, <2>2
  <2>4. ASSUME NEW i \in 1..Len(t) PROVE t[i] \in 1..emitted
    <3>1. t[i] = x + 1 + i
      BY <1>13
    <3>2. QED
      BY <1>1, <1>5, <2>2, <3>1
  <2>5. QED
    BY <1>1, <1>7, <1>11, <2>1, <2>3, <2>4 DEF HeldSound
<1>15. QueueSound(c)'
  <2>1. Drained(c)' = x + 1
    BY <1>1, <1>7, <1>8 DEF Drained
  <2>2. Len(h) <= x + 1 /\ \A i \in DOMAIN h : h[i] <= x + 1
    BY <1>4, <1>5, <1>6, <1>11, <1>12
  <2>3. QED
    BY <1>1, <1>4, <1>7, <1>10, <1>11, <1>13, <2>1, <2>2, ZenonT(60) DEF QueueSound
<1>16. ReplaySound(c)' /\ DoneSound(c)'
  BY <1>7 DEF ReplaySound, DoneSound
<1>17. QED
  BY <1>1, <1>4, <1>7, <1>9, <1>11, <1>14, <1>15, <1>16 DEF ClientSound

(* KeepAlive, Check and Disconnect only move the client.                   *)
LEMMA MoveSound ==
  ASSUME IInv, NEW c \in Clients, KeepAlive(c) \/ Check(c) \/ Disconnect(c)
  PROVE  Shape' /\ Only(c) /\ ClientSound(c)'
<1> USE DEF KeepAlive, Check, Disconnect, Moves, Connected, pipeVars
<1>1. UNCHANGED <<emitted, pipe, queue, replay, got, joined>>
  OBVIOUS
<1>2. ClientSound(c) /\ at[c] \in {"replaying", "live", "checking"}
  BY DEF IInv
<1>3. ASSUME NEW a \in {"live", "checking"}, at' = [at EXCEPT ![c] = a], UNCHANGED subscribers,
             at[c] \in {"live", "checking"}
      PROVE  Shape' /\ Only(c) /\ ClientSound(c)'
  <2>1. Shape' /\ Only(c) /\ at'[c] = a
    BY <1>1, <1>3 DEF IInv, Shape, Only
  <2>2. QED
    BY <1>1, <1>2, <1>3, <2>1
       DEF ClientSound, HeldSound, ReplaySound, QueueSound, DoneSound, Drained
<1>4. ASSUME NEW a \in {"done", "gone"}, at' = [at EXCEPT ![c] = a], subscribers' = subscribers \ {c},
             a = "done" => pipe = "ended" /\ at[c] = "checking" /\ queue[c] = <<>>
      PROVE  Shape' /\ Only(c) /\ ClientSound(c)'
  <2>1. Shape' /\ Only(c) /\ at'[c] = a /\ c \notin subscribers'
    BY <1>1, <1>4 DEF IInv, Shape, Only
  <2>2. HeldSound(c)' /\ ReplaySound(c)' /\ QueueSound(c)'
    BY <1>1, <1>2, <1>4, <2>1 DEF ClientSound, HeldSound, ReplaySound, QueueSound
  <2>3. DoneSound(c)'
    <3>1. SUFFICES ASSUME a = "done" PROVE DoneSound(c)'
      BY <1>4, <2>1 DEF DoneSound
    <3>2. emitted \in Nat /\ Len(queue[c]) = 0
      BY <1>4, <3>1 DEF IInv, PipeSound, MaxSteps
    <3>3. Drained(c) = emitted
      BY <3>2 DEF Drained
    <3>4. \A k \in (joined[c] + 1)..emitted : \E i \in DOMAIN got[c] : got[c][i] = k
      BY <1>2, <1>4, <3>1, <3>3 DEF ClientSound, QueueSound
    <3>5. QED
      BY <1>1, <1>4, <3>1, <3>4 DEF DoneSound
  <2>4. QED
    BY <1>1, <1>2, <2>1, <2>2, <2>3 DEF ClientSound
<1>5. CASE KeepAlive(c)
  BY <1>3, <1>5
<1>6. CASE Check(c)
  <2>1. CASE over /\ queue[c] = <<>>
    <3>1. pipe = "ended"
      BY <2>1 DEF IInv, PipeSound
    <3>2. QED
      BY <1>4, <1>6, <2>1, <3>1
  <2>2. CASE ~(over /\ queue[c] = <<>>)
    BY <1>3, <1>6, <2>2
  <2>3. QED
    BY <2>1, <2>2
<1>7. CASE Disconnect(c)
  BY <1>4, <1>7
<1>8. QED
  BY <1>5, <1>6, <1>7

LEMMA StepSound == IInv /\ [Next]_vars => IInv'
<1> SUFFICES ASSUME IInv, [Next]_vars PROVE IInv'
  OBVIOUS
<1>1. PipeSound'
  BY StepPipe DEF IInv
<1>2. CASE FirstBurst \/ SecondBurst
  <2>1. PICK n \in 1..MaxSteps : Burst(n)
    BY <1>2, BurstOfPipe DEF IInv
  <2>2. QED
    BY <1>1, <2>1, BurstShape, BurstSound DEF IInv
<1>3. CASE Reset \/ UNCHANGED vars
  <2>1. UNCHANGED <<emitted, pipe, subscribers, queue, at, replay, got, joined>>
    BY <1>3 DEF Reset, vars, pipeVars
  <2>2. Shape' /\ \A c \in Clients : ClientSound(c)'
    BY <2>1, ClientKept DEF IInv, Shape
  <2>3. QED
    BY <1>1, <2>2 DEF IInv
<1>4. ASSUME NEW c \in Clients, Connect(c) \/ Serve(c) \/ Disconnect(c) PROVE IInv'
  <2>1. Shape' /\ Only(c) /\ ClientSound(c)'
    BY <1>4, ConnectSound, ReplayKeepsSound, SubscribeSound, RelaySound, MoveSound DEF Serve
  <2>2. QED
    BY <1>1, <2>1, OthersKept DEF IInv
<1>5. QED
  BY <1>2, <1>3, <1>4 DEF Next

(* The inductive invariant.                                                *)
THEOREM Invariance == Spec => []IInv
  BY InitSound, StepSound, PTL DEF Spec

(* No client sees a step twice or out of order (main.py:946-975).          *)
THEOREM Ordered == Spec => []OrderedOnce
<1>1. IInv => OrderedOnce
  BY DEF IInv, ClientSound, OrderedOnce
<1>2. QED
  BY <1>1, Invariance, PTL

(* Whatever comes after the subscription reaches the client, and has when  *)
(* it is told "done" (main.py:966).                                        *)
THEOREM NothingLost == Spec => []NothingLostSinceJoin
<1>1. ASSUME IInv PROVE NothingLostSinceJoin
  <2> SUFFICES ASSUME NEW c \in Clients, NEW k \in (joined[c] + 1)..emitted
               PROVE  /\ at[c] \in {"live", "checking"} => k \in RangeOf(got[c]) \cup RangeOf(queue[c])
                      /\ at[c] = "done" => k \in RangeOf(got[c])
    BY DEF NothingLostSinceJoin
  <2>1. /\ ClientSound(c) /\ joined[c] \in Nat /\ emitted \in Nat
        /\ got[c] \in Seq(Nat) /\ queue[c] \in Seq(Nat)
    BY <1>1 DEF IInv, Shape, PipeSound, MaxSteps
  <2>2. ASSUME at[c] \in {"live", "checking"} PROVE k \in RangeOf(got[c]) \cup RangeOf(queue[c])
    <3> DEFINE n == Len(queue[c])
    <3>1. /\ n \in Nat /\ DOMAIN queue[c] = 1..n /\ n <= emitted
          /\ \A i \in 1..n : queue[c][i] = emitted - n + i
          /\ \A m \in (joined[c] + 1)..(emitted - n) : \E i \in DOMAIN got[c] : got[c][i] = m
      <4>1. n \in Nat /\ DOMAIN queue[c] = 1..n /\ Drained(c) = emitted - n
        BY <2>1 DEF Drained
      <4>2. n <= emitted
        BY <2>1 DEF ClientSound, HeldSound
      <4>3. /\ \A i \in DOMAIN queue[c] : queue[c][i] = Drained(c) + i
            /\ \A m \in (joined[c] + 1)..Drained(c) : \E i \in DOMAIN got[c] : got[c][i] = m
        BY <2>1, <2>2 DEF ClientSound, QueueSound
      <4> HIDE DEF n
      <4>4. QED
        BY <4>1, <4>2, <4>3
    <3> HIDE DEF n
    <3>2. CASE k <= emitted - n
      <4>1. k \in (joined[c] + 1)..(emitted - n)
        BY <2>1, <3>1, <3>2
      <4>2. QED
        BY <3>1, <4>1 DEF RangeOf
    <3>3. CASE k > emitted - n
      <4>1. k - (emitted - n) \in 1..n /\ emitted - n + (k - (emitted - n)) = k
        BY <2>1, <3>1, <3>3
      <4>2. queue[c][k - (emitted - n)] = k
        BY <3>1, <4>1
      <4>3. QED
        BY <3>1, <4>1, <4>2 DEF RangeOf
    <3>4. QED
      BY <2>1, <3>1, <3>2, <3>3
  <2>3. ASSUME at[c] = "done" PROVE k \in RangeOf(got[c])
    BY <2>1, <2>3 DEF ClientSound, DoneSound, RangeOf
  <2>4. QED
    BY <2>2, <2>3
<1>2. QED
  BY <1>1, Invariance, PTL

(* Traces, queues and what clients were sent keep their types and sizes.   *)
THEOREM TypeCorrect == Spec => []TypeOK
<1>1. ASSUME IInv PROVE TypeOK
  <2>1. ASSUME NEW s, s \in Seq(Nat), Len(s) <= emitted, \A i \in DOMAIN s : s[i] \in 1..emitted
        PROVE  s \in StepSeqs
    <3>1. emitted \in 0..5 /\ Len(s) \in Nat /\ DOMAIN s = 1..Len(s)
      BY <1>1, <2>1 DEF IInv, PipeSound, MaxSteps
    <3>2. Len(s) \in 0..MaxSteps
      <4>1. Len(s) <= emitted
        BY <2>1
      <4>2. QED
        BY <3>1, <4>1, SMTT(30) DEF MaxSteps
    <3>3. ASSUME NEW i \in 1..Len(s) PROVE s[i] \in Steps
      <4>1. s[i] \in 1..emitted
        BY <2>1, <3>1
      <4>2. QED
        BY <3>1, <4>1 DEF Steps, MaxSteps
    <3>4. s \in [1..Len(s) -> Steps]
      BY <2>1, <3>3
    <3>5. QED
      BY <3>2, <3>4 DEF StepSeqs
  <2>2. ASSUME NEW c \in Clients
        PROVE  /\ queue[c] \in StepSeqs /\ got[c] \in StepSeqs
               /\ replay[c] \in 0..MaxSteps /\ joined[c] \in 0..MaxSteps
    <3>1. /\ queue[c] \in Seq(Nat) /\ got[c] \in Seq(Nat) /\ replay[c] \in Nat /\ joined[c] \in Nat
          /\ emitted \in 0..MaxSteps /\ ClientSound(c)
      BY <1>1 DEF IInv, Shape, PipeSound
    <3>2. /\ Len(got[c]) <= emitted /\ \A i \in DOMAIN got[c] : got[c][i] \in 1..emitted
          /\ Len(queue[c]) <= emitted /\ \A i \in DOMAIN queue[c] : queue[c][i] \in 1..emitted
          /\ joined[c] <= emitted /\ replay[c] <= emitted
      BY <3>1 DEF ClientSound, HeldSound
    <3>3. queue[c] \in StepSeqs /\ got[c] \in StepSeqs
      BY <2>1, <3>1, <3>2
    <3>4. QED
      BY <3>1, <3>2, <3>3 DEF MaxSteps
  <2>3. QED
    BY <1>1, <2>2 DEF IInv, Shape, PipeSound, TypeOK
<1>2. QED
  BY <1>1, Invariance, PTL
=============================================================================
