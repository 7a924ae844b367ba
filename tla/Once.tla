-------------------------------- MODULE Once --------------------------------
(***************************************************************************)
(* Disciplines.once (scripts/noetic_disciplines.py): a command takes       *)
(* effect in the ordinal domain, one database, and its answer is kept in a *)
(* cache, another database whose write lock the caller holds meanwhile.    *)
(* The two commit separately; a caller that dies, or whose cache commit    *)
(* fails, leaves the effect without its answer, and the next caller finds  *)
(* the event of the effect in the domain's history.                        *)
(***************************************************************************)
EXTENDS Naturals, Sequences

CONSTANTS Callers, Keys, Requests, MaxFaults

ASSUME CallersAreNamed == "free" \notin Callers
ASSUME RequestsAreNamed == "none" \notin Requests
ASSUME FaultsAreCounted == MaxFaults \in Nat

VARIABLES
  pc,      \* of each caller
  call,    \* its command: [key, request]
  lock,    \* the caller holding the cache's write lock, or "free"
  cache,   \* committed rows: key -> [request, event], NoRow where absent
  history, \* committed events of the domain: [key, request]
  found,   \* the event the caller in the lock has for its key, or 0
  answer,  \* what each caller was last told: an event of the history, or 0
  faults

vars == <<pc, call, lock, cache, history, found, answer, faults>>

NoRow == [request |-> "none", event |-> 0]
NoCommand == [key |-> "none", request |-> "none"]
Commands == [key : Keys, request : Requests]

Init ==
  /\ pc = [c \in Callers |-> "idle"] /\ call = [c \in Callers |-> NoCommand]
  /\ lock = "free" /\ cache = [k \in Keys |-> NoRow] /\ history = <<>>
  /\ found = 0 /\ answer = [c \in Callers |-> 0] /\ faults = 0

Call(c) ==
  /\ pc[c] = "idle"
  /\ \E command \in Commands : call' = [call EXCEPT ![c] = command]
  /\ pc' = [pc EXCEPT ![c] = "calling"]
  /\ answer' = [answer EXCEPT ![c] = 0]
  /\ UNCHANGED <<lock, cache, history, found, faults>>

\* BEGIN IMMEDIATE on the cache.
Lock(c) ==
  /\ pc[c] = "calling" /\ lock = "free"
  /\ lock' = c
  /\ pc' = [pc EXCEPT ![c] = "locked"]
  /\ UNCHANGED <<call, cache, history, found, answer, faults>>

\* Leaving the lock without a cache row: refused, failed or answered from one.
Unlock(c) ==
  /\ lock' = "free" /\ found' = 0
  /\ pc' = [pc EXCEPT ![c] = "idle"]

UseRowOfAny(c) ==
  /\ cache[call[c].key] # NoRow
  /\ answer' = [answer EXCEPT ![c] = cache[call[c].key].event]

\* A row of the cache answers the same request and refuses any other.
UseRow(c) ==
  LET row == cache[call[c].key]
  IN /\ row # NoRow
     /\ answer' = [answer EXCEPT ![c] = IF row.request = call[c].request THEN row.event ELSE 0]

Cached(c) ==
  /\ pc[c] = "locked" /\ lock = c
  /\ UseRow(c)
  /\ Unlock(c)
  /\ UNCHANGED <<call, cache, history, faults>>

NoEvents(k) == {}
EventsOf(k) == {i \in DOMAIN history : history[i].key = k}

\* Without a row the history is searched for the key's event.
Search(c) ==
  /\ pc[c] = "locked" /\ lock = c /\ cache[call[c].key] = NoRow
  /\ IF EventsOf(call[c].key) = {}
     THEN found' = 0
     ELSE found' = CHOOSE i \in EventsOf(call[c].key) : \A j \in EventsOf(call[c].key) : i <= j
  /\ pc' = [pc EXCEPT ![c] = "searched"]
  /\ UNCHANGED <<call, lock, cache, history, answer, faults>>

SameRequestAny(c) == TRUE
SameRequest(c) == history[found].request = call[c].request

\* The event was made by the same request: its record is the response.
Recover(c) ==
  /\ pc[c] = "searched" /\ lock = c /\ found # 0 /\ SameRequest(c)
  /\ pc' = [pc EXCEPT ![c] = "done"]
  /\ UNCHANGED <<call, lock, cache, history, found, answer, faults>>

\* Another request's event, or an effect the domain refuses: an exception.
Refuse(c) ==
  /\ pc[c] = "searched" /\ lock = c
  /\ ~(found # 0 /\ SameRequest(c))
  /\ Unlock(c)
  /\ UNCHANGED <<call, cache, history, answer, faults>>

\* effect(source): committed by the domain's own transaction, with its event.
Perform(c) ==
  /\ pc[c] = "searched" /\ lock = c /\ found = 0
  /\ history' = Append(history, call[c])
  /\ found' = Len(history) + 1
  /\ pc' = [pc EXCEPT ![c] = "done"]
  /\ UNCHANGED <<call, lock, cache, answer, faults>>

\* INSERT INTO commands, commit of the cache, and the response returned.
Commit(c) ==
  /\ pc[c] = "done" /\ lock = c
  /\ cache' = [cache EXCEPT ![call[c].key] = [request |-> call[c].request, event |-> found]]
  /\ answer' = [answer EXCEPT ![c] = found]
  /\ Unlock(c)
  /\ UNCHANGED <<call, history, faults>>

\* The process dies, the lock times out or the cache cannot commit: SQLite
\* rolls the cache back and frees its lock; the domain keeps what it has.
Fault(c) ==
  /\ pc[c] # "idle" /\ faults < MaxFaults
  /\ faults' = faults + 1
  /\ pc' = [pc EXCEPT ![c] = "idle"]
  /\ IF lock = c THEN lock' = "free" /\ found' = 0 ELSE UNCHANGED <<lock, found>>
  /\ UNCHANGED <<call, cache, history, answer>>

Next ==
  \E c \in Callers :
    \/ Call(c) \/ Lock(c) \/ Cached(c) \/ Search(c) \/ Recover(c) \/ Refuse(c)
    \/ Perform(c) \/ Commit(c) \/ Fault(c)

Spec == Init /\ [][Next]_vars

-----------------------------------------------------------------------------
TypeOK ==
  /\ pc \in [Callers -> {"idle", "calling", "locked", "searched", "done"}]
  /\ call \in [Callers -> Commands \cup {NoCommand}]
  /\ \A c \in Callers : pc[c] # "idle" => call[c] \in Commands
  /\ lock \in Callers \cup {"free"}
  /\ history \in Seq(Commands)
  /\ found \in 0 .. Len(history)
  /\ cache \in [Keys -> [request : Requests, event : DOMAIN history] \cup {NoRow}]
  /\ answer \in [Callers -> 0 .. Len(history)]
  /\ faults \in 0 .. MaxFaults

\* Exclusion: only the holder of the cache lock is past it.
HolderAlone ==
  \A c \in Callers : pc[c] \in {"locked", "searched", "done"} <=> lock = c

\* However callers die and retry, a command key has one event in the domain.
AtMostOnce ==
  \A i, j \in DOMAIN history : history[i].key = history[j].key => i = j

\* Whoever is answered is told of the event of its own command, made by its
\* own request; the cache never says anything the domain does not.
AnswerIsTheEffect ==
  /\ \A c \in Callers : answer[c] # 0 => history[answer[c]] = call[c]
  /\ \A k \in Keys : cache[k] # NoRow =>
       history[cache[k].event] = [key |-> k, request |-> cache[k].request]

effect == [k \in Keys |->
             IF EventsOf(k) = {} THEN "none"
             ELSE history[CHOOSE i \in EventsOf(k) : TRUE].request]
told == [c \in Callers |-> IF answer[c] = 0 THEN NoCommand ELSE call[c]]

Promise == INSTANCE ExactlyOnce

\* Seen from outside, the cache, its lock and the domain's history together do
\* each command at most once and tell its callers of that (once,
\* noetic_disciplines.py:98-123).
KeepsPromise == Promise!Spec
=============================================================================
