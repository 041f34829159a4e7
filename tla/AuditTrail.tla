------------------------------ MODULE AuditTrail ------------------------------
(***************************************************************************)
(* The AIMS audit trail: log_event (backend/aims_logger.py) and            *)
(* append_aims_event (backend/redis_store.py), called by the pipelines on  *)
(* the event loop and by tool calls (invoke_tool, backend/main.py) in      *)
(* worker threads.  Every copy of the trail is a place of its own that is  *)
(* written by a command of its own; the commands of two writers            *)
(* interleave, any of them may fail, and the process may end between two.  *)
(***************************************************************************)
EXTENDS Naturals, Sequences

CONSTANTS Tools,      \* worker threads that serve POST /tools/{name}
          Incidents,  \* incidents the loop logs for
          Wordings,   \* what an event's text may say of a destructive command
          Limit,      \* the global list's length: 1000
          MaxEvents   \* bound on the events logged

(* The text claims that one was executed; and it has a keyword and one of  *)
(* the phrases "auto-executed", "executed automatically" and, as JSON has  *)
(* it, "executed": true.  Neither implies the other.                       *)
ASSUME TrailAssumption == /\ Limit \in Nat \ {0} /\ MaxEvents \in Nat
                          /\ "loop" \notin Tools /\ "unknown" \notin Incidents
                          /\ Wordings \subseteq [claims : BOOLEAN, listed : BOOLEAN]

Writers == Tools \cup {"loop"}
Keys == Incidents \cup {"unknown"}
Events == 1..MaxEvents   \* named in the order they are created

VARIABLES
  made,      \* number of events created
  event,     \* what each event says
  todo,      \* the events each writer has yet to persist
  at,        \* where each writer stands with the first of them
  memory,    \* _IN_MEMORY_EVENTS
  global,    \* aims:events, newest first
  own,       \* the events of each list aims:events:{incident}
  remote, file, \* the events the AIMS API confirmed, and those in the local file
  external,  \* Redis answers at every start; else fakeredis, in the process
  returned,  \* history: events whose log_event returned
  cut,       \* history: events Redis failed, a crash cut short or a week ended
  unwritten  \* history: events the local file could not take

redisVars == <<global, own>>
history == <<returned, cut, unwritten>>
vars == <<made, event, todo, at, memory, redisVars, remote, file, external, history>>

(* An event, by the key of its own list, what its text says, whether it is *)
(* blocked, and, for an anomaly, the event it accuses.                     *)
Unsaid == [key |-> "unknown", says |-> [claims |-> FALSE, listed |-> FALSE],
           blocked |-> FALSE, accuses |-> 0]

Sayings == [key : Keys, says : Wordings \cup {Unsaid.says},
            blocked : BOOLEAN, accuses : 0..MaxEvents]

TypeOK ==
  /\ made \in 0..MaxEvents
  /\ event \in [Events -> Sayings]
  /\ todo \in [Writers -> Seq(Events)]
  /\ at \in [Writers -> {"idle", "remember", "push", "trim", "pushOwn", "send"}]
  /\ memory \in Seq(Events) /\ global \in Seq(Events)
  /\ own \in [Keys -> SUBSET Events]
  /\ remote \subseteq Events /\ file \subseteq Events /\ external \in BOOLEAN
  /\ returned \subseteq Events /\ cut \subseteq Events /\ unwritten \subseteq Events

Init == /\ made = 0 /\ event = [e \in Events |-> Unsaid]
        /\ todo = [w \in Writers |-> <<>>] /\ at = [w \in Writers |-> "idle"]
        /\ memory = <<>> /\ global = <<>> /\ own = [k \in Keys |-> {}]
        /\ remote = {} /\ file = {} /\ external \in BOOLEAN
        /\ returned = {} /\ cut = {} /\ unwritten = {}
-----------------------------------------------------------------------------
(* A tool call's event has no incident; the loop's event has one.          *)
KeysOf(w) == IF w = "loop" THEN Incidents ELSE {"unknown"}

(* Whether it is blocked is for the caller to say.                         *)
Said(k) == [key : {k}, says : Wordings, blocked : BOOLEAN, accuses : {0}]

(* _independent_safety_recheck looks for its phrases, not for claims.      *)
Violates(said) == said.says.listed /\ ~said.blocked

Forced(said) == [said EXCEPT !.blocked = TRUE]

(* Its text cites the accused event's.                                     *)
Anomaly(said, e) == [said EXCEPT !.blocked = TRUE, !.accuses = e]

LogPlain(w, said) ==
  /\ ~Violates(said)
  /\ made < MaxEvents /\ made' = made + 1
  /\ event' = [event EXCEPT ![made + 1] = said]
  /\ todo' = [todo EXCEPT ![w] = <<made + 1>>]

(* Mutant: the event is persisted before the anomaly it gives rise to.     *)
LogViolationLast(w, said) ==
  /\ Violates(said)
  /\ made + 2 <= MaxEvents /\ made' = made + 2
  /\ event' = [event EXCEPT ![made + 1] = Forced(said),
                            ![made + 2] = Anomaly(said, made + 1)]
  /\ todo' = [todo EXCEPT ![w] = <<made + 1, made + 2>>]

(* An event that says what it must not is blocked and accused, and the     *)
(* anomaly is persisted before the event.                                  *)
LogViolation(w, said) ==
  /\ Violates(said)
  /\ made + 2 <= MaxEvents /\ made' = made + 2
  /\ event' = [event EXCEPT ![made + 1] = Forced(said),
                            ![made + 2] = Anomaly(said, made + 1)]
  /\ todo' = [todo EXCEPT ![w] = <<made + 2, made + 1>>]

Log(w, k) ==
  /\ at[w] = "idle" /\ at' = [at EXCEPT ![w] = "remember"]
  /\ \E said \in Said(k) : LogPlain(w, said) \/ LogViolation(w, said)
  /\ UNCHANGED <<memory, redisVars, remote, file, external, history>>

WriterAt(w, from, to) == at[w] = from /\ at' = [at EXCEPT ![w] = to]
Now(w) == Head(todo[w])

Remember(w) ==
  /\ WriterAt(w, "remember", "push")
  /\ memory' = Append(memory, Now(w))
  /\ UNCHANGED <<made, event, todo, redisVars, remote, file, external, history>>

(* LPUSH; over a network a timeout repeats it, and the first may have come *)
(* through as well.                                                        *)
Pushed(w, n) == global' = [i \in 1..n |-> Now(w)] \o global

Push(w) ==
  /\ WriterAt(w, "push", "trim")
  /\ \E n \in IF external THEN {1, 2} ELSE {1} : Pushed(w, n)
  /\ UNCHANGED <<made, event, todo, memory, own, remote, file, external,
                 returned, cut, unwritten>>

Shortest(n, s) == SubSeq(s, 1, IF Len(s) < n THEN Len(s) ELSE n)

Trim(w) ==
  /\ WriterAt(w, "trim", "pushOwn")
  /\ global' = Shortest(Limit, global)
  /\ UNCHANGED <<made, event, todo, memory, own, remote, file, external,
                 returned, cut, unwritten>>

(* Mutant: events without an incident get no list of their own.            *)
OwnPushedNamed(w) ==
  own' = [own EXCEPT ![event[Now(w)].key] = IF event[Now(w)].key = "unknown"
                                            THEN @ ELSE @ \cup {Now(w)}]

OwnPushed(w) == own' = [own EXCEPT ![event[Now(w)].key] = @ \cup {Now(w)}]

PushOwn(w) ==
  /\ WriterAt(w, "pushOwn", "send") /\ OwnPushed(w)
  /\ UNCHANGED <<made, event, todo, memory, global, remote, file, external, history>>

(* A command fails, with its effect or without: the ones after it are      *)
(* skipped and the error is swallowed.                                     *)
RedisFails(w) ==
  /\ external
  /\ \/ /\ at[w] = "push" /\ UNCHANGED own
        /\ \E n \in 0..1 : Pushed(w, n)
     \/ at[w] = "trim" /\ UNCHANGED redisVars
     \/ /\ at[w] = "pushOwn" /\ UNCHANGED global
        /\ UNCHANGED own \/ OwnPushed(w)
  /\ at' = [at EXCEPT ![w] = "send"]
  /\ cut' = cut \cup {Now(w)}
  /\ UNCHANGED <<made, event, todo, memory, remote, file, external, returned, unwritten>>

(* Mutant: a response counts as sent before its status is looked at.       *)
DeliveredUnchecked(e) ==
  /\ remote' \in {remote, remote \cup {e}}
  /\ UNCHANGED <<file, unwritten>>

(* To the AIMS API, or else to the local file, which may fail as well.     *)
Delivered(e) ==
  \/ remote' = remote \cup {e} /\ UNCHANGED <<file, unwritten>>
  \/ file' = file \cup {e} /\ UNCHANGED <<remote, unwritten>>
  \/ unwritten' = unwritten \cup {e} /\ UNCHANGED <<remote, file>>

Send(w) ==
  /\ at[w] = "send" /\ Delivered(Now(w))
  /\ todo' = [todo EXCEPT ![w] = Tail(@)]
  /\ at' = [at EXCEPT ![w] = IF Len(todo[w]) > 1 THEN "remember" ELSE "idle"]
  /\ returned' = returned \cup {Now(w)}
  /\ UNCHANGED <<made, event, memory, redisVars, external, cut>>

(* A list of an incident expires a week after its last push; the global    *)
(* list, which has no expiry, keeps what it had.                           *)
Expire(k) ==
  /\ own[k] # {} /\ \A w \in Writers : at[w] = "idle"
  /\ own' = [own EXCEPT ![k] = {}] /\ cut' = cut \cup own[k]
  /\ UNCHANGED <<made, event, todo, at, memory, global, remote, file, external,
                 returned, unwritten>>

(* The process ends and starts anew.                                       *)
Crash ==
  /\ memory' = <<>>
  /\ IF external THEN UNCHANGED redisVars
                 ELSE global' = <<>> /\ own' = [k \in Keys |-> {}]
  /\ cut' = cut \cup UNION {{todo[w][i] : i \in DOMAIN todo[w]} : w \in Writers}
  /\ todo' = [w \in Writers |-> <<>>] /\ at' = [w \in Writers |-> "idle"]
  /\ UNCHANGED <<made, event, remote, file, external, returned, unwritten>>

Persist(w) == \/ Remember(w) \/ Push(w) \/ Trim(w) \/ PushOwn(w) \/ Send(w)
              \/ RedisFails(w)

Next == \/ \E w \in Writers : (\E k \in KeysOf(w) : Log(w, k)) \/ Persist(w)
        \/ \E k \in Keys : Expire(k)
        \/ Crash

Spec == Init /\ [][Next]_vars
-----------------------------------------------------------------------------
RangeOf(s) == {s[i] : i \in DOMAIN s}
Stored == UNION {RangeOf(memory), RangeOf(global), remote, file, UNION {own[k] : k \in Keys}}

(* aims_logger.py:14-15: "it is impossible for a destructive action to be  *)
(* silently logged as routinely executed": in no copy of the trail does an *)
(* event claim an execution without being blocked.  The code breaks it:    *)
(* its phrases miss what str() makes of a result, executed=True.           *)
NoRoutineDestructive ==
  \A e \in Stored : event[e].says.claims => event[e].blocked

(* Whoever finds a forced event finds its anomaly: in the process's list   *)
(* before it, in the incident's list unless Redis lost it, and with the    *)
(* AIMS API or in the file unless the file failed it.                      *)
AnomalyFirst ==
  \A a \in {x \in Events : event[x].accuses # 0} :
    LET e == event[a].accuses
    IN  /\ \A i \in DOMAIN memory : memory[i] = e => \E j \in 1..i : memory[j] = a
        /\ e \in own[event[e].key] => a \in own[event[a].key] \cup cut
        /\ e \in remote \cup file => a \in remote \cup file \cup unwritten

(* What the view of all events shows, the view of its incident shows too,  *)
(* unless its writing is under way, was cut short or is a week old.        *)
ListsAgree ==
  \A e \in RangeOf(global) :
    \/ e \in own[event[e].key] \cup cut
    \/ \E w \in Writers : at[w] \in {"trim", "pushOwn"} /\ Now(w) = e

(* aims_logger.py:18-21: "no audit data is ever lost": an event whose      *)
(* log_event returned is with the AIMS API or in the local file, and in a  *)
(* Redis that outlives the process, after any crash -- but for what the    *)
(* code gives up in silence: a write to the file that fails (lines 97-98), *)
(* and what a failing command, or a week, takes from Redis.                *)
NothingLost ==
  /\ returned \subseteq remote \cup file \cup unwritten
  /\ external => returned \subseteq cut \cup UNION {own[k] : k \in Keys}
=============================================================================
