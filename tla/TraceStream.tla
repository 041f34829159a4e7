----------------------------- MODULE TraceStream -----------------------------
(***************************************************************************)
(* GET /incidents/{id}/stream (backend/main.py): every client replays the  *)
(* trace steps there are, subscribes a queue, and relays what on_trace     *)
(* (backend/store.py) puts into it until the incident is over.             *)
(*                                                                         *)
(* Everything but a reset runs on the event loop.  The generator gives it  *)
(* up at each yield and at q.get(); run_pipeline only while it waits for   *)
(* approvals, so its trace steps come in at most two bursts.  A step is    *)
(* its position in the trace.                                              *)
(***************************************************************************)
EXTENDS Naturals, Sequences

CONSTANTS Clients

VARIABLES
  emitted,     \* length of IncidentState.trace
  pipe,        \* "launched", "waiting" for approvals, or "ended"
  over,        \* the live status is RESOLVED or ERROR
  subscribers, \* clients whose queue is in _subscribers
  queue,       \* each client's asyncio.Queue
  at,          \* where each client's generator stands
  replay,      \* how many steps its copy of the trace has
  got,         \* the steps it has yielded
  joined       \* history: the trace's length when it subscribed

pipeVars == <<emitted, pipe, over>>
vars == <<pipeVars, subscribers, queue, at, replay, got, joined>>

MaxSteps == 5   \* four stages and the error handler's step

Steps == 1..MaxSteps
StepSeqs == UNION {[1..n -> Steps] : n \in 0..MaxSteps}

TypeOK ==
  /\ emitted \in 0..MaxSteps
  /\ pipe \in {"launched", "waiting", "ended"} /\ over \in BOOLEAN
  /\ subscribers \subseteq Clients
  /\ queue \in [Clients -> StepSeqs]
  /\ at \in [Clients -> {"away", "replaying", "live", "checking", "done", "gone"}]
  /\ replay \in [Clients -> 0..MaxSteps]
  /\ got \in [Clients -> StepSeqs]
  /\ joined \in [Clients -> 0..MaxSteps]

Init == /\ emitted = 0 /\ pipe = "launched" /\ over = FALSE
        /\ subscribers = {}
        /\ queue = [c \in Clients |-> <<>>]
        /\ at = [c \in Clients |-> "away"]
        /\ replay = [c \in Clients |-> 0]
        /\ got = [c \in Clients |-> <<>>]
        /\ joined = [c \in Clients |-> 0]
-----------------------------------------------------------------------------
(* The pipeline.                                                           *)

(* on_trace, n times without an await in between.                          *)
Emit(n) ==
  /\ emitted' = emitted + n
  /\ queue' = [c \in Clients |->
                 IF c \in subscribers THEN queue[c] \o [i \in 1..n |-> emitted + i]
                                      ELSE queue[c]]

(* The first burst: three steps up to the approvals; or to the end, which  *)
(* is four steps without an error and any number with one.                 *)
FirstBurst == /\ pipe = "launched"
              /\ \/ Emit(3) /\ pipe' = "waiting" /\ UNCHANGED over
                 \/ \E n \in 1..MaxSteps : Emit(n) /\ pipe' = "ended" /\ over' = TRUE
              /\ UNCHANGED <<subscribers, at, replay, got, joined>>

(* The second: the RCA's step, the error's, or both.  An error handler     *)
(* whose own save a reset disturbs never gets to set ERROR.                *)
SecondBurst == /\ pipe = "waiting"
               /\ \E n \in 1..2 : Emit(n)
               /\ pipe' = "ended" /\ over' \in {TRUE, over}
               /\ UNCHANGED <<subscribers, at, replay, got, joined>>

(* reset_incident, in a worker thread.                                     *)
Reset == /\ over' = FALSE
         /\ UNCHANGED <<emitted, pipe, subscribers, queue, at, replay, got, joined>>
-----------------------------------------------------------------------------
(* A client's generator.                                                   *)

Moves(c, from, to) == at[c] = from /\ at' = [at EXCEPT ![c] = to]

(* Its first run copies the trace; with nothing to replay it goes on to    *)
(* subscribe before anything else can happen.                              *)
Connect(c) ==
  /\ replay' = [replay EXCEPT ![c] = emitted]
  /\ IF emitted = 0
     THEN Moves(c, "away", "live") /\ subscribers' = subscribers \cup {c}
     ELSE Moves(c, "away", "replaying") /\ UNCHANGED subscribers
  /\ UNCHANGED <<pipeVars, queue, got, joined>>

Replay(c) ==
  /\ Len(got[c]) < replay[c] /\ Moves(c, "replaying", "replaying")
  /\ got' = [got EXCEPT ![c] = Append(@, Len(@) + 1)]
  /\ UNCHANGED <<pipeVars, subscribers, queue, replay, joined>>

(* Mutant: the queue starts with the whole trace, replayed or not.         *)
SubscribeRewinding(c) ==
  /\ Len(got[c]) = replay[c] /\ Moves(c, "replaying", "live")
  /\ subscribers' = subscribers \cup {c}
  /\ queue' = [queue EXCEPT ![c] = [i \in 1..emitted |-> i]]
  /\ joined' = [joined EXCEPT ![c] = emitted]
  /\ UNCHANGED <<pipeVars, replay, got>>

Subscribe(c) ==
  /\ Len(got[c]) = replay[c] /\ Moves(c, "replaying", "live")
  /\ subscribers' = subscribers \cup {c}
  /\ joined' = [joined EXCEPT ![c] = emitted]
  /\ UNCHANGED <<pipeVars, queue, replay, got>>

Relay(c) ==
  /\ queue[c] # <<>> /\ Moves(c, "live", "checking")
  /\ got' = [got EXCEPT ![c] = Append(@, Head(queue[c]))]
  /\ queue' = [queue EXCEPT ![c] = Tail(@)]
  /\ UNCHANGED <<pipeVars, subscribers, replay, joined>>

(* Mutant: a keep-alive goes back to waiting without a look at the status. *)
KeepAliveOnly(c) ==
  /\ queue[c] = <<>> /\ Moves(c, "live", "live")
  /\ UNCHANGED <<pipeVars, subscribers, queue, replay, got, joined>>

(* Fifteen seconds without a step.                                         *)
KeepAlive(c) ==
  /\ queue[c] = <<>> /\ Moves(c, "live", "checking")
  /\ UNCHANGED <<pipeVars, subscribers, queue, replay, got, joined>>

(* Mutant: done as soon as the incident is over, the queue left behind.    *)
CheckStatusOnly(c) ==
  /\ IF over
     THEN Moves(c, "checking", "done") /\ subscribers' = subscribers \ {c}
     ELSE Moves(c, "checking", "live") /\ UNCHANGED subscribers
  /\ UNCHANGED <<pipeVars, queue, replay, got, joined>>

(* After each yield: done, if the incident is over and the queue drained.  *)
Check(c) ==
  /\ IF over /\ queue[c] = <<>>
     THEN Moves(c, "checking", "done") /\ subscribers' = subscribers \ {c}
     ELSE Moves(c, "checking", "live") /\ UNCHANGED subscribers
  /\ UNCHANGED <<pipeVars, queue, replay, got, joined>>

Connected(c) == at[c] \in {"replaying", "live", "checking"}

Disconnect(c) ==
  /\ Connected(c) /\ at' = [at EXCEPT ![c] = "gone"]
  /\ subscribers' = subscribers \ {c}
  /\ UNCHANGED <<pipeVars, queue, replay, got, joined>>

Serve(c) == Replay(c) \/ Subscribe(c) \/ Relay(c) \/ KeepAlive(c) \/ Check(c)

Next == \/ FirstBurst \/ SecondBurst \/ Reset
        \/ \E c \in Clients : Connect(c) \/ Serve(c) \/ Disconnect(c)

Spec == Init /\ [][Next]_vars

(* The loop serves every connected client; nothing is assumed of clients'  *)
(* coming and going, of resets, or of the pipeline.                        *)
FairSpec == Spec /\ \A c \in Clients : WF_vars(Serve(c))
-----------------------------------------------------------------------------
RangeOf(s) == {s[i] : i \in DOMAIN s}

(* A client sees no step twice and none before an earlier one: replay and  *)
(* queue never overlap.                                                    *)
OrderedOnce ==
  \A c \in Clients : \A i, j \in DOMAIN got[c] : i < j => got[c][i] < got[c][j]

(* From its subscription on nothing passes a client by: what came since    *)
(* was relayed or waits in its queue, and once it is told "done" all of it *)
(* was relayed (main.py:966).                                              *)
NothingLostSinceJoin ==
  \A c \in Clients :
    LET since == (joined[c] + 1)..emitted
    IN  /\ at[c] \in {"live", "checking"} => since \subseteq RangeOf(got[c]) \cup RangeOf(queue[c])
        /\ at[c] = "done" => since \subseteq RangeOf(got[c])

(* A client that stays is told when the incident is over, whenever it came *)
(* and whatever it was sent, unless a reset took that back.                *)
StreamEnds ==
  \A c \in Clients : <>[]over => (Connected(c) ~> at[c] \in {"done", "gone"})

(* main.py:951: "Replay everything we already have, then live-stream new   *)
(* steps", so at the end a client has the whole trace.                     *)
NoStepLost ==
  \A c \in Clients : at[c] = "done" => RangeOf(got[c]) = 1..emitted
=============================================================================
