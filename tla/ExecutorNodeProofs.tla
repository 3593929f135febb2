-------------------------- MODULE ExecutorNodeProofs --------------------------
(***************************************************************************)
(* What the executor node's cache can be trusted for, for every set of     *)
(* heartbeats, every log and every bound.  The inductive invariant relates *)
(* the cache to the log block by block: up to the last scanned block, or   *)
(* up to the block a scan began at, it has missed no creation, no end and  *)
(* no check-in, and it never has a timer later than the chain's.  It needs *)
(* what the log says of the heartbeats, because the node reads both.       *)
(***************************************************************************)
EXTENDS ExecutorNode, FunctionSums

EndTypes == {"HeartbeatExecuted", "HeartbeatDeactivated"}
Timer == [status : {"none", "live", "executed", "deactivated"},
          interval : Nat, lastCheckIn : Nat]
Entry == [tracked : BOOLEAN, interval : Nat, lastCheckIn : Nat]
EventType == EndTypes \cup {"HeartbeatCreated", "HeartbeatCheckedIn",
                             "RecipientsUpdated", "IntervalUpdated"}
Event == [type : EventType, id : Id, timestamp : Nat \ {0}]

Types ==
    /\ now \in Nat \ {0}
    /\ beats \in [Id -> Timer]
    /\ log \in Seq(Event)
    /\ active \in [Id -> Entry]
    /\ from \in Nat /\ lastScannedBlock \in Nat /\ latest \in Nat
    /\ pc \in {"down", "connected"} => latest = 0
    /\ pending \in Seq(Id) /\ mempool \in Seq(Id)
    /\ pc \in {"submitting", "waiting"} => pending # << >>

\* What the log says of the heartbeats: time does not run back, the events of a
\* heartbeat begin with its creation, and an end is final.
LogFits ==
    /\ \A b, c \in DOMAIN log : b <= c => log[b].timestamp <= log[c].timestamp
    /\ \A b \in DOMAIN log : log[b].timestamp <= now
    /\ \A id \in Id :
          /\ beats[id].status = "none" => \A b \in DOMAIN log : log[b].id # id
          /\ beats[id].status = "live" =>
                /\ beats[id].interval # 0 /\ beats[id].lastCheckIn # 0
                /\ \A b \in DOMAIN log : log[b].id = id => log[b].type \notin EndTypes
          /\ beats[id].lastCheckIn <= now
          /\ \A b \in DOMAIN log :
                log[b].id = id /\ log[b].type = "HeartbeatCheckedIn"
                    => log[b].timestamp <= beats[id].lastCheckIn

\* The block up to which the cache reflects the log: while the scan at the start
\* goes on, the block it began at.
Scanned == IF Running THEN lastScannedBlock ELSE latest

\* What a cached entry is worth, whatever happened on the chain since.
EntryFits(id) ==
    /\ active[id].interval # 0 =>
          /\ active[id].tracked /\ active[id].lastCheckIn # 0
          /\ beats[id].status # "none"
          /\ active[id].lastCheckIn <= beats[id].lastCheckIn
          /\ (\A b \in DOMAIN log : log[b].id = id => log[b].type # "IntervalUpdated")
             => active[id].interval = beats[id].interval
          /\ \A b \in 1..Scanned : log[b].id = id =>
                /\ log[b].type \notin EndTypes
                /\ log[b].type = "HeartbeatCheckedIn"
                      => active[id].lastCheckIn >= log[b].timestamp
    /\ id \in CreatedIn(from, Scanned) \ unseen /\ beats[id].status = "live"
          => active[id].tracked
    /\ pc = "polling" /\ id \in CreatedIn(lastScannedBlock + 1, latest)
       /\ beats[id].status = "live"
          => active[id].tracked \/ id \in Range(pending)

CacheFits ==
    /\ lastScannedBlock <= Len(log) /\ latest <= Len(log)
    /\ \A id \in Id : EntryFits(id)

IInv == Types /\ LogFits /\ CacheFits

LEMMA CreatedInDef ==
    ASSUME NEW a, NEW b, NEW id
    PROVE  id \in CreatedIn(a, b) <=>
              \E k \in DOMAIN log :
                  k \in a..b /\ log[k].type = "HeartbeatCreated" /\ log[k].id = id
BY DEF CreatedIn

LEMMA InitIInv == Init => IInv
<1> SUFFICES ASSUME Init PROVE IInv
  OBVIOUS
<1>1. Types
  BY DEF Init, Types, Timer, Entry, Untracked
<1>2. LogFits
  BY <1>1 DEF Init, LogFits
<1>3. CacheFits
  BY DEF Init, CacheFits, EntryFits, Untracked, CreatedIn, Scanned, Running
<1> QED
  BY <1>1, <1>2, <1>3 DEF IInv

------------------------------------------------------------------------------
\* What an event of the given type may do to the timer old, which becomes hb.
Effect(old, hb, type) ==
    /\ hb \in Timer /\ hb.status # "none" /\ type \in EventType
    /\ old.status = IF type = "HeartbeatCreated" THEN "none" ELSE "live"
    /\ hb.status = "live" <=> type \notin EndTypes
    /\ hb.status = "live" => hb.interval # 0 /\ hb.lastCheckIn # 0
    /\ \/ hb.lastCheckIn = now
       \/ type \in EndTypes \cup {"IntervalUpdated"} /\ hb.lastCheckIn = old.lastCheckIn
    /\ type \notin {"HeartbeatCreated", "IntervalUpdated"} => hb.interval = old.interval

\* An event on the chain: the log grows by one block.
LEMMA EventIInv ==
    ASSUME IInv, NEW id \in Id, NEW type, NEW hb, Effect(beats[id], hb, type),
           beats' = [beats EXCEPT ![id] = hb], Emit(type, id),
           UNCHANGED <<now, active, lastScannedBlock, from, latest, pending, pc, unseen>>,
           mempool' \in Seq(Id)
    PROVE  IInv'
<1> DEFINE n == Len(log)
           ev == [type |-> type, id |-> id, timestamp |-> now]
<1>1. /\ log \in Seq(Event) /\ now \in Nat \ {0} /\ ev \in Event /\ n \in Nat
      /\ beats \in [Id -> Timer] /\ hb \in Timer
  BY DEF IInv, Types, Event, Effect
<1>2. log' = Append(log, ev)
  BY DEF Emit
<1> HIDE DEF ev
<1>3. /\ log' \in Seq(Event) /\ DOMAIN log' = DOMAIN log \cup {n + 1} /\ Len(log') = n + 1
      /\ \A b \in DOMAIN log : log'[b] = log[b] /\ b \in 1..n
      /\ log'[n + 1] = ev /\ DOMAIN log = 1..n
  BY <1>1, <1>2
<1>4. ev.type = type /\ ev.id = id /\ ev.timestamp = now
  BY DEF ev
<1>5. /\ beats'[id] = hb /\ \A o \in Id : o # id => beats'[o] = beats[o]
      /\ beats' \in [Id -> Timer]
  BY <1>1
<1>6. Types'
  BY <1>1, <1>3, <1>5 DEF IInv, Types
<1> DEFINE old == beats[id]
<1>7. /\ old \in Timer /\ old.lastCheckIn <= now
      /\ old.status = IF type = "HeartbeatCreated" THEN "none" ELSE "live"
      /\ old.status = "none" => \A b \in DOMAIN log : log[b].id # id
      /\ old.status = "live" => \A b \in DOMAIN log : log[b].id = id => log[b].type \notin EndTypes
      /\ old.lastCheckIn <= hb.lastCheckIn /\ hb.lastCheckIn <= now
  BY <1>1 DEF IInv, LogFits, Effect, Timer
<1>8. LogFits'
  <2>1. \A b \in DOMAIN log' : log'[b].timestamp <= now
    BY <1>1, <1>3, <1>4 DEF IInv, LogFits
  <2>2. \A b, c \in DOMAIN log' : b <= c => log'[b].timestamp <= log'[c].timestamp
    BY <1>1, <1>3, <1>4, <2>1 DEF IInv, LogFits
  <2>3. ASSUME NEW o \in Id, o # id
        PROVE  /\ beats'[o].status = "none" => \A b \in DOMAIN log' : log'[b].id # o
               /\ beats'[o].status = "live" =>
                     /\ beats'[o].interval # 0 /\ beats'[o].lastCheckIn # 0
                     /\ \A b \in DOMAIN log' : log'[b].id = o => log'[b].type \notin EndTypes
               /\ beats'[o].lastCheckIn <= now
               /\ \A b \in DOMAIN log' :
                     log'[b].id = o /\ log'[b].type = "HeartbeatCheckedIn"
                         => log'[b].timestamp <= beats'[o].lastCheckIn
    BY <1>3, <1>4, <1>5, <2>3 DEF IInv, LogFits
  <2>4. /\ hb.status # "none"
        /\ hb.status = "live" =>
              /\ hb.interval # 0 /\ hb.lastCheckIn # 0
              /\ \A b \in DOMAIN log' : log'[b].id = id => log'[b].type \notin EndTypes
        /\ hb.lastCheckIn <= now
    BY <1>3, <1>4, <1>7 DEF Effect
  <2>5. ASSUME NEW b \in DOMAIN log', log'[b].id = id, log'[b].type = "HeartbeatCheckedIn"
        PROVE  log'[b].timestamp <= hb.lastCheckIn
    <3>1. CASE b \in DOMAIN log
      <4>1. log[b].timestamp <= old.lastCheckIn /\ log[b].timestamp \in Nat
        <5>1. log'[b] = log[b] /\ log[b] \in Event
          BY <1>1, <1>3, <3>1
        <5>2. log[b].id = id /\ log[b].type = "HeartbeatCheckedIn"
          BY <2>5, <5>1
        <5> QED
          BY <3>1, <5>1, <5>2 DEF IInv, LogFits, Event
      <4> QED
        BY <1>1, <1>3, <1>7, <3>1, <4>1 DEF Timer
    <3>2. CASE b = n + 1
      <4>1. hb.lastCheckIn = now
        BY <1>3, <1>4, <2>5, <3>2 DEF Effect, EndTypes
      <4> QED
        BY <1>1, <1>3, <1>4, <3>2, <4>1
    <3> QED
      BY <1>3, <3>1, <3>2
  <2> QED
    BY <1>5, <2>1, <2>2, <2>3, <2>4, <2>5 DEF LogFits
<1>9. CacheFits'
  <2>1. /\ lastScannedBlock \in 0..n /\ latest \in 0..n /\ Scanned \in 0..n
        /\ Scanned' = Scanned
    BY <1>1 DEF IInv, CacheFits, Types, Scanned, Running
  <2>2. /\ \A b \in 1..Scanned : log'[b] = log[b]
        /\ \A o : o \in CreatedIn(from, Scanned)' <=> o \in CreatedIn(from, Scanned)
        /\ \A o : o \in CreatedIn(lastScannedBlock + 1, latest)'
                      <=> o \in CreatedIn(lastScannedBlock + 1, latest)
    <3>1. \A b \in 1..n : log'[b] = log[b]
      BY <1>3
    <3>2. /\ CreatedIn(from, Scanned)' = CreatedIn(from, Scanned)
          /\ CreatedIn(lastScannedBlock + 1, latest)' = CreatedIn(lastScannedBlock + 1, latest)
      <4>1. \A a \in Nat, c \in 0..n :
               {k \in DOMAIN log' : k \in a..c} = {k \in DOMAIN log : k \in a..c}
        BY <1>1, <1>3
      <4>2. \A a \in Nat, c \in 0..n : CreatedIn(a, c)' = CreatedIn(a, c)
        <5> SUFFICES ASSUME NEW a \in Nat, NEW c \in 0..n
                     PROVE  CreatedIn(a, c)' = CreatedIn(a, c)
          OBVIOUS
        <5>1. {k \in DOMAIN log' : k \in a..c /\ log'[k].type = "HeartbeatCreated"}
              = {k \in DOMAIN log : k \in a..c /\ log[k].type = "HeartbeatCreated"}
          BY <1>1, <1>3, <4>1
        <5> QED
          BY <1>3, <5>1 DEF CreatedIn
      <4>3. from \in Nat /\ lastScannedBlock + 1 \in Nat /\ from' = from
            /\ lastScannedBlock' = lastScannedBlock /\ latest' = latest
        BY <2>1 DEF IInv, Types
      <4>4. /\ CreatedIn(from, Scanned)' = CreatedIn(from, Scanned)
            /\ CreatedIn(lastScannedBlock + 1, latest)' = CreatedIn(lastScannedBlock + 1, latest)
        <5>1. CreatedIn(from, Scanned)' = CreatedIn(from, Scanned)
          BY <2>1, <4>2, <4>3
        <5> QED
          BY <2>1, <4>2, <4>3, <5>1
      <4> QED
        BY <4>4
    <3> QED
      BY <2>1, <3>1, <3>2
  <2>3. ASSUME NEW o \in Id, o # id
        PROVE  EntryFits(o)'
    BY <1>3, <1>5, <2>1, <2>2, <2>3 DEF IInv, CacheFits, EntryFits
  <2>4. EntryFits(id)'
    <3>1. EntryFits(id) /\ active[id] \in Entry
      BY DEF IInv, CacheFits, Types
    <3>2. ASSUME active[id].interval # 0
          PROVE  /\ old.status = "live" /\ active[id].lastCheckIn <= hb.lastCheckIn
                 /\ type # "IntervalUpdated" => hb.interval = old.interval
      <4>1. old.status = "live" /\ active[id].lastCheckIn <= old.lastCheckIn
        BY <1>7, <3>1, <3>2 DEF EntryFits
      <4> QED
        BY <1>1, <1>7, <3>1, <4>1 DEF Effect, Timer, Entry
    <3>3. (\A b \in DOMAIN log' : log'[b].id = id => log'[b].type # "IntervalUpdated")
          => /\ \A b \in DOMAIN log : log[b].id = id => log[b].type # "IntervalUpdated"
             /\ type # "IntervalUpdated"
      BY <1>1, <1>3, <1>4
    <3>4. old.status # "live" => id \notin CreatedIn(from, Scanned)
                                 /\ id \notin CreatedIn(lastScannedBlock + 1, latest)
      <4>1. ASSUME old.status # "live", NEW a, NEW c
            PROVE  id \notin CreatedIn(a, c)
        <5>1. \A b \in 1..n : log[b].id # id
          BY <1>3, <1>7, <4>1
        <5> QED
          BY <1>3, <5>1 DEF CreatedIn
      <4> QED
        BY <4>1
    <3>5. active[id].interval # 0 =>
            /\ active[id].tracked /\ active[id].lastCheckIn # 0
            /\ hb.status # "none"
            /\ active[id].lastCheckIn <= hb.lastCheckIn
            /\ (\A b \in DOMAIN log' : log'[b].id = id => log'[b].type # "IntervalUpdated")
                  => active[id].interval = hb.interval
            /\ \A b \in 1..Scanned : log'[b].id = id =>
                  /\ log'[b].type \notin EndTypes
                  /\ log'[b].type = "HeartbeatCheckedIn"
                        => active[id].lastCheckIn >= log'[b].timestamp
      BY <2>2, <3>1, <3>2, <3>3 DEF EntryFits, Effect
    <3> QED
      BY <1>5, <2>1, <2>2, <3>1, <3>4, <3>5 DEF EntryFits
  <2> QED
    BY <1>1, <1>3, <2>1, <2>3, <2>4 DEF CacheFits
<1> QED
  BY <1>6, <1>8, <1>9 DEF IInv

\* Which events are ends: what the provers are told about the names.
LEMMA EventNames ==
    /\ {"HeartbeatCreated", "HeartbeatCheckedIn", "RecipientsUpdated",
        "IntervalUpdated"} \subseteq EventType \ EndTypes
    /\ EndTypes \subseteq EventType
    /\ "HeartbeatCreated" \notin EndTypes /\ "HeartbeatCheckedIn" \notin EndTypes
    /\ "RecipientsUpdated" \notin EndTypes /\ "IntervalUpdated" \notin EndTypes
BY DEF EventType, EndTypes

\* The events that set a timer running.
LEMMA StartEffect ==
    ASSUME NEW old, NEW hb \in Timer, hb.status = "live", now # 0,
           hb.interval # 0, hb.lastCheckIn = now
    PROVE  /\ old.status = "none" => Effect(old, hb, "HeartbeatCreated")
           /\ old.status = "live" /\ hb.interval = old.interval
              => Effect(old, hb, "HeartbeatCheckedIn") /\ Effect(old, hb, "RecipientsUpdated")
<1>1. ASSUME old.status = "none" PROVE Effect(old, hb, "HeartbeatCreated")
  BY <1>1, EventNames DEF Effect
<1>2. ASSUME old.status = "live", hb.interval = old.interval
      PROVE  Effect(old, hb, "HeartbeatCheckedIn")
  BY <1>2, EventNames DEF Effect
<1>3. ASSUME old.status = "live", hb.interval = old.interval
      PROVE  Effect(old, hb, "RecipientsUpdated")
  BY <1>3, EventNames DEF Effect
<1> QED
  BY <1>1, <1>2, <1>3

LEMMA ChainStepIInv ==
    ASSUME IInv, ChainStep
    PROVE  IInv'
<1>1. UNCHANGED <<now, active, lastScannedBlock, from, latest, pending, pc, unseen, mempool>>
  BY DEF ChainStep, pool, cache, process
<1>2. now \in Nat \ {0} /\ mempool \in Seq(Id)
  BY DEF IInv, Types
<1>3. PICK id \in Id :
        \/ \E interval \in Interval : Create(id, interval) \/ UpdateInterval(id, interval)
        \/ CheckIn(id) \/ UpdateRecipients(id) \/ Deactivate(id)
        \/ PeerExecutes(id)
  BY DEF ChainStep
<1>4. beats \in [Id -> Timer] /\ beats[id] \in Timer
  BY DEF IInv, Types
<1>5. beats[id].status = "live" => beats[id].interval # 0 /\ beats[id].lastCheckIn # 0
  BY DEF IInv, LogFits
<1>6. ASSUME NEW type, NEW hb, Effect(beats[id], hb, type),
             beats' = [beats EXCEPT ![id] = hb], Emit(type, id)
      PROVE  IInv'
  BY <1>1, <1>2, <1>6, EventIInv
<1>7. ASSUME NEW interval \in Interval, Create(id, interval)
      PROVE  IInv'
  <2> DEFINE hb == [status |-> "live", interval |-> interval, lastCheckIn |-> now]
  <2>1. /\ beats[id].status = "none" /\ interval \in Nat \ {0}
    BY <1>7, NodeAssumption DEF Create
  <2>2. Effect(beats[id], hb, "HeartbeatCreated")
    <3>1. hb \in Timer /\ hb.status = "live" /\ now # 0
          /\ hb.interval # 0 /\ hb.lastCheckIn = now
      BY <1>2, <2>1 DEF Timer
    <3> HIDE DEF hb
    <3> QED
      BY <2>1, <3>1, StartEffect
  <2> QED
    BY <1>6, <1>7, <2>2 DEF Create
<1>8. ASSUME NEW interval \in Interval, UpdateInterval(id, interval)
      PROVE  IInv'
  <2> DEFINE hb == [beats[id] EXCEPT !.interval = interval]
  <2>1. Effect(beats[id], hb, "IntervalUpdated")
    BY <1>4, <1>5, <1>8, NodeAssumption DEF Effect, UpdateInterval, Timer, EventType, EndTypes
  <2>2. beats' = [beats EXCEPT ![id] = hb]
    BY <1>4, <1>8 DEF UpdateInterval
  <2> QED
    BY <1>6, <1>8, <2>1, <2>2 DEF UpdateInterval
<1>9. CASE CheckIn(id) \/ UpdateRecipients(id)
  <2> DEFINE hb == [beats[id] EXCEPT !.lastCheckIn = now]
  <2>1. /\ beats[id].status = "live" /\ beats' = [beats EXCEPT ![id] = hb]
        /\ Emit("HeartbeatCheckedIn", id) \/ Emit("RecipientsUpdated", id)
    BY <1>4, <1>9 DEF CheckIn, UpdateRecipients
  <2>2. /\ Effect(beats[id], hb, "HeartbeatCheckedIn")
        /\ Effect(beats[id], hb, "RecipientsUpdated")
    <3>1. /\ hb \in Timer /\ hb.status = "live" /\ hb.interval = beats[id].interval
          /\ hb.interval # 0 /\ hb.lastCheckIn = now /\ now # 0
      BY <1>2, <1>4, <1>5, <2>1 DEF Timer
    <3> HIDE DEF hb
    <3> QED
      BY <2>1, <3>1, StartEffect
  <2> HIDE DEF hb
  <2> QED
    BY <1>6, <2>1, <2>2
<1>10. CASE Deactivate(id)
  <2> DEFINE hb == [beats[id] EXCEPT !.status = "deactivated"]
  <2>1. Effect(beats[id], hb, "HeartbeatDeactivated")
    BY <1>4, <1>10 DEF Effect, Deactivate, Timer, EventType, EndTypes
  <2>2. beats' = [beats EXCEPT ![id] = hb]
    BY <1>4, <1>10 DEF Deactivate
  <2> QED
    BY <1>6, <1>10, <2>1, <2>2 DEF Deactivate
<1>11. CASE PeerExecutes(id)
  <2> DEFINE hb == [beats[id] EXCEPT !.status = "executed"]
  <2>1. Effect(beats[id], hb, "HeartbeatExecuted")
    BY <1>4, <1>11 DEF Effect, PeerExecutes, Overdue, Timer, EventType, EndTypes
  <2>2. beats' = [beats EXCEPT ![id] = hb]
    BY <1>4, <1>11 DEF PeerExecutes
  <2> QED
    BY <1>6, <1>11, <2>1, <2>2 DEF PeerExecutes
<1> QED
  BY <1>3, <1>7, <1>8, <1>9, <1>10, <1>11

\* A step that neither the log nor the cache is part of, within or after a scan.
LEMMA QuietIInv ==
    ASSUME IInv, UNCHANGED <<chain, cache, from, unseen>>,
           (Running /\ Running') \/ (pc' = pc /\ latest' = latest),
           latest' \in Nat, latest' <= Len(log), pending' \in Seq(Id), mempool' \in Seq(Id),
           pc' \in {"submitting", "waiting"} => pending' # << >>,
           pc' = "polling" => pc = "polling" /\ UNCHANGED <<pending, latest>>
    PROVE  IInv'
<1>1. Types'
  <2>1. pc' \in {"down", "connected"} => latest' = 0
    BY DEF IInv, Types, Running
  <2> QED
    BY <2>1 DEF IInv, Types, chain, cache
<1>2. LogFits'
  BY DEF IInv, LogFits, chain
<1>3. Scanned' = Scanned
  BY DEF Scanned, Running, cache
<1>4. CacheFits'
  <2>1. ASSUME NEW id \in Id
        PROVE  EntryFits(id)'
    BY <1>3 DEF IInv, CacheFits, EntryFits, CreatedIn, chain, cache
  <2> QED
    BY <2>1 DEF IInv, CacheFits, chain, cache
<1> QED
  BY <1>1, <1>2, <1>4 DEF IInv

LEMMA MineIInv ==
    ASSUME IInv, Mine
    PROVE  IInv'
<1> DEFINE id == Head(mempool)
<1>1. /\ id \in Id /\ Tail(mempool) \in Seq(Id) /\ mempool' = Tail(mempool)
      /\ UNCHANGED <<now, active, lastScannedBlock, from, latest, pending, pc, unseen>>
  BY DEF IInv, Types, Mine, cache, process
<1>2. CASE Overdue(id)
  <2> DEFINE hb == [beats[id] EXCEPT !.status = "executed"]
  <2>1. /\ beats[id].status = "live" /\ beats \in [Id -> Timer]
        /\ beats' = [beats EXCEPT ![id] = hb] /\ Emit("HeartbeatExecuted", id)
    BY <1>1, <1>2 DEF IInv, Types, Mine, Overdue
  <2>2. Effect(beats[id], hb, "HeartbeatExecuted")
    BY <1>1, <2>1 DEF Effect, Timer, EventType, EndTypes
  <2> HIDE DEF id, hb
  <2> QED
    BY <1>1, <2>1, <2>2, EventIInv
<1>3. CASE ~Overdue(id)
  <2>1. UNCHANGED <<chain, cache, from, unseen>>
    BY <1>1, <1>3 DEF Mine, chain, cache
  <2>2. /\ latest \in Nat /\ latest <= Len(log) /\ pending \in Seq(Id)
        /\ pc \in {"submitting", "waiting"} => pending # << >>
    BY DEF IInv, Types, CacheFits
  <2> QED
    BY <1>1, <2>1, <2>2, QuietIInv
<1> QED
  BY <1>2, <1>3

\* The clock, and a mempool that forgets.
LEMMA TickDropIInv ==
    ASSUME IInv, Tick \/ Drop
    PROVE  IInv'
<1>1. CASE Tick
  <2>1. /\ now' \in Nat \ {0} /\ now' >= now /\ now \in Nat
        /\ UNCHANGED <<beats, log, mempool, cache, process, unseen>>
    BY <1>1 DEF IInv, Types, Tick, pool
  <2>2. Types'
    BY <2>1 DEF IInv, Types, cache, process
  <2>3. LogFits'
    <3>1. \A b \in DOMAIN log : log[b].timestamp \in Nat
      <4>1. \A b \in DOMAIN log : log[b] \in Event
        BY DEF IInv, Types
      <4> QED
        BY <4>1 DEF Event
    <3>2. \A id \in Id : beats[id].lastCheckIn \in Nat
      BY DEF IInv, Types, Timer
    <3> QED
      BY <2>1, <3>1, <3>2 DEF IInv, LogFits
  <2>4. CacheFits'
    BY <2>1 DEF IInv, CacheFits, EntryFits, CreatedIn, Scanned, Running, cache, process
  <2> QED
    BY <2>2, <2>3, <2>4 DEF IInv
<1>2. CASE Drop
  <2>1. /\ UNCHANGED <<chain, cache, unseen, pc, from, latest, pending>> /\ mempool' \in Seq(Id)
    BY <1>2 DEF Drop, process
  <2>2. /\ latest \in Nat /\ latest <= Len(log) /\ pending \in Seq(Id)
        /\ pc \in {"submitting", "waiting"} => pending # << >>
    BY DEF IInv, Types, CacheFits
  <2> QED
    BY <2>1, <2>2, QuietIInv
<1> QED
  BY <1>1, <1>2

------------------------------------------------------------------------------
\* The queues of a scan: the elements of a set, in some order.
LEMMA SetToSeqType ==
    ASSUME NEW S \in SUBSET Id
    PROVE  SetToSeq(S) \in Seq(Id)
<1>1. IsFiniteSet(S)
  BY FS_Subset, NodeAssumption DEF NodeAssumption
<1>2. Cardinality(S) \in Nat /\ ExistsBijection(1..Cardinality(S), S)
  BY <1>1, FS_CardinalityType
<1>3. \E f \in [1..Cardinality(S) -> S] : IsInjective(f)
  BY <1>2 DEF ExistsBijection, Bijection, Injection
<1>4. SetToSeq(S) \in [1..Cardinality(S) -> S]
  BY <1>3 DEF SetToSeq
<1>5. SetToSeq(S) \in Seq(S)
  BY <1>2, <1>4
<1> QED
  BY <1>5, <1>4, <1>2

\* The blocks of S in ascending order are all of S.
LEMMA AscendingOnto ==
    ASSUME NEW S \in SUBSET Nat, IsFiniteSet(S), NEW s \in Ascending(S)
    PROVE  /\ Cardinality(S) \in Nat /\ s \in [1..Cardinality(S) -> S]
           /\ \A b \in S : \E k \in 1..Cardinality(S) : s[k] = b
<1> DEFINE n == Cardinality(S)
<1>1. n \in Nat
  BY FS_CardinalityType
<1>2. s \in [1..n -> S] /\ \A i, j \in 1..n : i < j => s[i] < s[j]
  BY DEF Ascending
<1> HIDE DEF n
<1>3. ASSUME NEW i \in 1..n, NEW j \in 1..n, s[i] = s[j]
      PROVE  i = j
  <2>1. s[i] \in Nat /\ s[j] \in Nat
    BY <1>2
  <2>2. ~(i < j) /\ ~(j < i)
    BY <1>2, <1>3, <2>1
  <2> QED
    BY <1>1, <2>2
<1>4. s \in Injection(1..n, S)
  BY <1>2, <1>3 DEF Injection, IsInjective
<1>5. Cardinality(1..n) = n
  BY <1>1, FS_Interval
<1>6. Cardinality(1..n) = Cardinality(S) <=> s \in Surjection(1..n, S)
  BY <1>4, FS_Injection
<1>7. s \in Surjection(1..n, S)
  BY <1>5, <1>6 DEF n
<1>8. \A b \in S : \E k \in 1..n : s[k] = b
  BY <1>7 DEF Surjection
<1> QED
  BY <1>1, <1>2, <1>8 DEF n

\* Taking the first element off a queue.
LEMMA TailOfQueue ==
    ASSUME NEW q \in Seq(Id), q # << >>
    PROVE  /\ Head(q) \in Id /\ Tail(q) \in Seq(Id)
           /\ \A id \in Range(q) : id = Head(q) \/ id \in Range(Tail(q))
<1>1. Head(q) \in Id /\ Tail(q) \in Seq(Id) /\ Len(q) \in Nat /\ Len(q) # 0
  OBVIOUS
<1>2. ASSUME NEW k \in 1..Len(q)
      PROVE  q[k] = Head(q) \/ q[k] \in Range(Tail(q))
  <2>1. CASE k = 1
    BY <2>1
  <2>2. CASE k # 1
    <3>1. k - 1 \in DOMAIN Tail(q) /\ Tail(q)[k - 1] = q[k]
      BY <1>1, <2>2
    <3> QED
      BY <3>1 DEF Range
  <2> QED
    BY <2>1, <2>2
<1>3. DOMAIN q = 1..Len(q)
  OBVIOUS
<1> QED
  BY <1>1, <1>2, <1>3 DEF Range

\* The last of the blocks of a query: there is one, unless the answer is empty.
LEMMA MaxIsLast ==
    ASSUME NEW n \in Nat, NEW S \in SUBSET (0..n), S # {}
    PROVE  Max(S) \in S /\ \A b \in S : b <= Max(S)
<1> DEFINE Back == {n - b : b \in S}
<1>1. Back \subseteq Nat /\ Back # {}
  <2>1. \A b \in S : n - b \in Nat
    OBVIOUS
  <2> QED
    BY <2>1
<1>2. PICK x \in Back : \A y \in Back : x <= y
  <2> HIDE DEF Back
  <2> QED
    BY <1>1, LeastNumber
<1>3. PICK last \in S : x = n - last
  OBVIOUS
<1>4. \A b \in S : last >= b
  <2> SUFFICES ASSUME NEW b \in S PROVE last >= b
    OBVIOUS
  <2>1. n - b \in Back /\ b \in Nat /\ last \in Nat
    OBVIOUS
  <2>2. n - last <= n - b
    BY <1>2, <1>3, <2>1
  <2> QED
    BY <2>1, <2>2
<1> HIDE DEF Back
<1>5. Max(S) \in S /\ \A b \in S : Max(S) >= b
  BY <1>4 DEF Max
<1> QED
  BY <1>5

------------------------------------------------------------------------------
LEMMA FirstBlockType ==
    ASSUME NEW asked \in Nat, NEW head \in Nat
    PROVE  FirstBlock(asked, head) \in Nat
BY NodeAssumption DEF FirstBlock, NodeAssumption

\* The process connects: nothing is scanned, wherever the scan will start.
LEMMA ConnectIInv ==
    ASSUME IInv, Connect
    PROVE  IInv'
<1>1. /\ pc = "down" /\ pc' = "connected"
      /\ UNCHANGED <<now, beats, log, mempool, active, lastScannedBlock, latest, pending, unseen>>
  BY DEF Connect, Goto, chain, pool, cache
<1>2. Len(log) \in Nat /\ StartBlocks \subseteq Nat
  BY NodeAssumption DEF IInv, Types, NodeAssumption
<1>3. from' \in Nat
  BY <1>2, FirstBlockType DEF Connect
<1>4. Types' /\ LogFits'
  BY <1>1, <1>3 DEF IInv, Types, LogFits
<1>5. Scanned = 0 /\ Scanned' = 0
  BY <1>1 DEF Scanned, Running, IInv, Types
<1>6. CreatedIn(from, Scanned)' = {}
  <2>1. {k \in DOMAIN log : k \in from'..0} = {}
    BY <1>3 DEF IInv, Types
  <2> QED
    BY <1>1, <1>5, <2>1 DEF CreatedIn
<1>7. CacheFits'
  BY <1>1, <1>5, <1>6 DEF IInv, CacheFits, EntryFits
<1> QED
  BY <1>4, <1>7 DEF IInv

\* The scan at the start: the cache is empty but for the entries it names.
LEMMA BootstrapIInv ==
    ASSUME IInv, Bootstrap
    PROVE  IInv'
<1> DEFINE created == CreatedIn(FirstBlock(from, Len(log)), Len(log))
<1>1. PICK missed \in SUBSET created :
        /\ unseen' = missed
        /\ active' = [id \in Id |->
              IF id \in created \ missed THEN Unhydrated ELSE Untracked]
        /\ pending' = SetToSeq(created \ missed)
  BY DEF Bootstrap
<1>2. /\ pc' = "hydrating" /\ latest' = Len(log) /\ Len(log) \in Nat
      /\ from' = FirstBlock(from, Len(log)) /\ from' \in Nat
      /\ UNCHANGED <<now, beats, log, mempool, lastScannedBlock>>
  BY FirstBlockType DEF Bootstrap, Goto, chain, pool, IInv, Types
<1> DEFINE queued == created \ missed
<1>3. queued \in SUBSET Id
  <2>1. \A b \in DOMAIN log : log[b] \in Event
    BY DEF IInv, Types
  <2>2. \A b \in DOMAIN log : log[b].id \in Id
    BY <2>1 DEF Event
  <2> QED
    BY <2>2 DEF CreatedIn
<1>4. pending' \in Seq(Id)
  BY <1>1, <1>3, SetToSeqType
<1>5. /\ active' \in [Id -> Entry]
      /\ \A id \in Id : /\ active'[id].interval = 0
                        /\ id \in queued => active'[id].tracked
  BY <1>1 DEF Unhydrated, Untracked, Entry
<1>6. Types' /\ LogFits'
  BY <1>2, <1>4, <1>5 DEF IInv, Types, LogFits
<1>7. Scanned' = Len(log) /\ lastScannedBlock' <= Len(log')
  BY <1>2 DEF Scanned, Running, IInv, CacheFits
<1>8. (CreatedIn(from, Scanned) \ unseen)' = queued
  BY <1>1, <1>2, <1>7 DEF CreatedIn
<1>9. CacheFits'
  BY <1>2, <1>5, <1>7, <1>8 DEF CacheFits, EntryFits
<1> QED
  BY <1>6, <1>9 DEF IInv

\* The first heartbeat of a queue gets a new entry: a blank one, what the chain
\* says of it, or, outside a poll, the one it had.
LEMMA HeadIInv ==
    ASSUME IInv, pending # << >>, pc \in {"hydrating", "polling"},
           NEW h, h = Head(pending),
           NEW e, active' = [active EXCEPT ![h] = e],
           \/ e = Unhydrated
           \/ e = Untracked /\ beats[h].status # "live"
           \/ /\ beats[h].status = "live"
              /\ e = [tracked |-> TRUE, interval |-> beats[h].interval,
                      lastCheckIn |-> beats[h].lastCheckIn]
           \/ e = active[h] /\ pc # "polling",
           pending' = Tail(pending),
           UNCHANGED <<chain, pool, lastScannedBlock, pc, from, latest, unseen>>
    PROVE  IInv'
<1>1. /\ h \in Id /\ pending' \in Seq(Id)
      /\ \A id \in Range(pending) : id = h \/ id \in Range(pending')
  BY TailOfQueue DEF IInv, Types
<1>2. /\ UNCHANGED <<now, beats, log, mempool, lastScannedBlock, pc, latest, unseen>>
      /\ pc \notin {"submitting", "waiting"}
  BY DEF chain, pool
<1>3. /\ active \in [Id -> Entry] /\ beats \in [Id -> Timer]
      /\ active[h] \in Entry /\ beats[h] \in Timer
      /\ log \in Seq(Event) /\ Len(log) \in Nat /\ DOMAIN log = 1..Len(log)
  BY <1>1 DEF IInv, Types
<1>4. /\ Untracked \in Entry /\ Untracked.interval = 0
      /\ Unhydrated \in Entry /\ Unhydrated.interval = 0 /\ Unhydrated.tracked
  BY DEF Untracked, Unhydrated, Entry
<1>5. e \in Entry
  <2>1. beats[h].interval \in Nat /\ beats[h].lastCheckIn \in Nat
    BY <1>3 DEF Timer
  <2>2. [tracked |-> TRUE, interval |-> beats[h].interval,
         lastCheckIn |-> beats[h].lastCheckIn] \in Entry
    BY <2>1 DEF Entry
  <2> QED
    BY <1>3, <1>4, <2>2
<1>6. /\ active' \in [Id -> Entry] /\ active'[h] = e
      /\ \A o \in Id : o # h => active'[o] = active[o]
  BY <1>1, <1>3, <1>5
<1>7. Types' /\ LogFits'
  <2>1. Types'
    BY <1>1, <1>2, <1>6 DEF IInv, Types
  <2>2. LogFits'
    BY <1>2 DEF IInv, LogFits
  <2> QED
    BY <2>1, <2>2
<1>8. Scanned' = Scanned /\ Scanned \in 0..Len(log)
  BY <1>2 DEF Scanned, Running, IInv, CacheFits, Types
<1>9. EntryFits(h) /\ \A o \in Id : EntryFits(o)
  BY <1>1 DEF IInv, CacheFits
<1>10. ASSUME NEW o \in Id, o # h
       PROVE  EntryFits(o)'
  BY <1>1, <1>2, <1>6, <1>8, <1>9, <1>10 DEF EntryFits, CreatedIn
<1>11. EntryFits(h)'
  <2>1. CASE e.interval = 0 /\ (e.tracked \/ beats[h].status # "live")
    BY <1>2, <1>6, <2>1 DEF EntryFits
  <2>2. CASE beats[h].status = "live"
             /\ e = [tracked |-> TRUE, interval |-> beats[h].interval,
                     lastCheckIn |-> beats[h].lastCheckIn]
    <3>1. beats[h].lastCheckIn # 0 /\ beats[h].lastCheckIn \in Nat
      BY <1>1, <1>3, <2>2 DEF IInv, LogFits, Timer
    <3>2. ASSUME NEW b \in 1..Scanned, log[b].id = h
          PROVE  /\ log[b].type \notin EndTypes
                 /\ log[b].type = "HeartbeatCheckedIn"
                       => beats[h].lastCheckIn >= log[b].timestamp
      <4>1. b \in DOMAIN log /\ log[b] \in Event
        BY <1>3, <1>8
      <4>2. log[b].timestamp \in Nat
        BY <4>1 DEF Event
      <4> QED
        BY <1>1, <2>2, <3>1, <3>2, <4>1, <4>2 DEF IInv, LogFits
    <3>3. e.interval = beats[h].interval /\ e.lastCheckIn = beats[h].lastCheckIn /\ e.tracked
      BY <2>2
    <3> QED
      BY <1>2, <1>6, <1>8, <2>2, <3>1, <3>2, <3>3 DEF EntryFits
  <2>3. CASE e = active[h] /\ pc # "polling"
    <3>1. active'[h] = active[h] /\ pc' # "polling"
      BY <1>2, <1>6, <2>3
    <3> QED
      BY <1>2, <1>8, <1>9, <3>1 DEF EntryFits, CreatedIn
  <2> QED
    BY <1>4, <2>1, <2>2, <2>3
<1>12. CacheFits'
  <2>1. \A o \in Id : EntryFits(o)'
    BY <1>10, <1>11
  <2> QED
    BY <1>2, <2>1 DEF IInv, CacheFits
<1> QED
  BY <1>7, <1>12 DEF IInv

LEMMA RefreshIInv ==
    ASSUME IInv, NEW ok \in BOOLEAN, RefreshOne(ok) \/ PollCreated(ok)
    PROVE  IInv'
<1>1. PICK h : h = Head(pending)
  OBVIOUS
<1>2. /\ pending # << >> /\ pending' = Tail(pending)
      /\ pc \in {"hydrating", "polling"}
      /\ RefreshOne(ok) => pc = "hydrating"
      /\ UNCHANGED <<chain, pool, lastScannedBlock, pc, from, latest, unseen>>
  BY DEF RefreshOne, PollCreated
<1> DEFINE Good(e) == \/ e = Unhydrated
                      \/ e = Untracked /\ beats[h].status # "live"
                      \/ /\ beats[h].status = "live"
                         /\ e = [tracked |-> TRUE, interval |-> beats[h].interval,
                                 lastCheckIn |-> beats[h].lastCheckIn]
                      \/ e = active[h] /\ pc # "polling"
<1>3. ASSUME NEW e, active' = [active EXCEPT ![h] = e], Good(e)
      PROVE  IInv'
  BY <1>3, <1>1, <1>2, HeadIInv
<1>4. /\ h \in Id /\ active \in [Id -> Entry]
  BY <1>1, <1>2, TailOfQueue DEF IInv, Types
<1> DEFINE fresh == [tracked |-> TRUE, interval |-> beats[h].interval,
                     lastCheckIn |-> beats[h].lastCheckIn]
<1>5. /\ Good(Unhydrated)
      /\ beats[h].status # "live" => Good(Untracked)
      /\ beats[h].status = "live" => Good(fresh)
      /\ pc # "polling" => Good(active[h])
  OBVIOUS
<1> HIDE DEF Good
<1>6. ASSUME ok
      PROVE  active' = [active EXCEPT ![h] = IF beats[h].status # "live" THEN Untracked ELSE fresh]
  <2>1. CASE RefreshOne(ok)
    BY <1>1, <1>6, <2>1 DEF RefreshOne, Hydrated
  <2>2. CASE PollCreated(ok)
    BY <1>1, <1>4, <1>6, <2>2 DEF PollCreated, Hydrated
  <2> QED
    BY <2>1, <2>2
<1>7. ASSUME ok
      PROVE  IInv'
  <2>1. CASE beats[h].status = "live"
    <3>1. active' = [active EXCEPT ![h] = fresh]
      BY <1>6, <1>7, <2>1
    <3> QED
      BY <1>3, <1>5, <2>1, <3>1
  <2>2. CASE beats[h].status # "live"
    <3>1. active' = [active EXCEPT ![h] = Untracked]
      BY <1>6, <1>7, <2>2
    <3> QED
      BY <1>3, <1>5, <2>2, <3>1
  <2> QED
    BY <2>1, <2>2
<1>8. CASE ~ok /\ RefreshOne(ok)
  <2>1. active' = [active EXCEPT ![h] = active[h]] /\ pc # "polling"
    BY <1>2, <1>4, <1>8 DEF RefreshOne, Hydrated
  <2> QED
    BY <1>3, <1>5, <2>1
<1>9. CASE ~ok /\ PollCreated(ok)
  <2>1. active' = [active EXCEPT ![h] = Unhydrated]
    BY <1>1, <1>9 DEF PollCreated, Hydrated
  <2> QED
    BY <1>3, <1>5, <2>1
<1> QED
  BY <1>7, <1>8, <1>9

LEMMA BootstrapEndsIInv ==
    ASSUME IInv, BootstrapEnds
    PROVE  IInv'
<1>1. /\ pc = "hydrating" /\ pc' = "idle" /\ lastScannedBlock' = latest
      /\ UNCHANGED <<now, beats, log, mempool, active, from, latest, pending, unseen>>
  BY DEF BootstrapEnds, Goto, chain, pool
<1>2. Types' /\ LogFits'
  BY <1>1 DEF IInv, Types, LogFits
<1>3. Scanned' = Scanned
  BY <1>1 DEF Scanned, Running
<1>4. CacheFits'
  BY <1>1, <1>3 DEF IInv, CacheFits, EntryFits, CreatedIn
<1> QED
  BY <1>2, <1>4 DEF IInv

\* The process is started again: an empty cache fits any chain.
LEMMA RestartIInv ==
    ASSUME IInv, Restart
    PROVE  IInv'
<1>1. /\ pc' = "down" /\ lastScannedBlock' = 0 /\ latest' = 0 /\ from' = 0 /\ pending' = << >>
      /\ active' = [id \in Id |-> Untracked]
      /\ UNCHANGED <<now, beats, log, mempool>>
  BY DEF Restart, Goto, chain
<1>2. Types' /\ LogFits'
  BY <1>1 DEF IInv, Types, LogFits, Untracked, Entry
<1>3. Scanned' = 0 /\ Len(log) \in Nat
  BY <1>1 DEF Scanned, Running, IInv, Types
<1>4. CacheFits'
  BY <1>1, <1>3 DEF CacheFits, EntryFits, CreatedIn, Untracked
<1> QED
  BY <1>2, <1>4 DEF IInv

\* The range is queried: its created events are all in the queue.
LEMMA PollIInv ==
    ASSUME IInv, Poll
    PROVE  IInv'
<1> DEFINE created == {b \in lastScannedBlock + 1..Len(log) : log[b].type = "HeartbeatCreated"}
<1>1. /\ pc = "idle" /\ latest' = Len(log) /\ pc' \in {"polling", "selecting"}
      /\ UNCHANGED <<now, beats, log, mempool, active, from, lastScannedBlock, unseen>>
  BY DEF Poll, Goto, chain, pool, cache
<1>2. PICK blocks \in Ascending(created) : pending' = [k \in DOMAIN blocks |-> log[blocks[k]].id]
  BY DEF Poll
<1>3. Len(log) \in Nat /\ lastScannedBlock \in Nat /\ DOMAIN log = 1..Len(log)
  BY DEF IInv, Types
<1>4. created \in SUBSET Nat /\ created \subseteq 1..Len(log) /\ IsFiniteSet(created)
  <2>1. created \in SUBSET (1..Len(log))
    BY <1>3
  <2>2. IsFiniteSet(1..Len(log))
    <3>1. 1 \in Int /\ Len(log) \in Int
      BY <1>3
    <3> QED
      BY <3>1, FS_Interval
  <2> QED
    BY <1>3, <2>1, <2>2, FS_Subset
<1> DEFINE n == Cardinality(created)
<1>5. /\ n \in Nat /\ blocks \in [1..n -> created]
      /\ \A b \in created : \E k \in 1..n : blocks[k] = b
  <2> HIDE DEF created
  <2> QED
    BY <1>2, <1>4, AscendingOnto
<1>6. pending' = [k \in 1..n |-> log[blocks[k]].id]
  BY <1>2, <1>5
<1>7. \A b \in created : log[b].id \in Id
  <2>1. \A b \in created : log[b] \in Event
    BY <1>3, <1>4 DEF IInv, Types
  <2> QED
    BY <2>1 DEF Event
<1> HIDE DEF created, n
<1>8. pending' \in Seq(Id) /\ \A b \in created : log[b].id \in Range(pending')
  <2>1. \A k \in 1..n : log[blocks[k]].id \in Id
    BY <1>5, <1>7
  <2>2. pending' \in Seq(Id)
    BY <1>5, <1>6, <2>1
  <2>3. ASSUME NEW b \in created
        PROVE  log[b].id \in Range(pending')
    <3>1. PICK k \in 1..n : blocks[k] = b
      BY <1>5
    <3>2. k \in DOMAIN pending' /\ pending'[k] = log[b].id
      BY <1>6, <3>1
    <3> QED
      BY <3>2 DEF Range
  <2> QED
    BY <2>2, <2>3
<1>9. Types' /\ LogFits'
  BY <1>1, <1>3, <1>8 DEF IInv, Types, LogFits
<1>10. Scanned' = Scanned /\ Scanned = lastScannedBlock
  BY <1>1 DEF Scanned, Running
<1>11. ASSUME NEW id \in Id
       PROVE  EntryFits(id)'
  <2>1. id \in CreatedIn(lastScannedBlock + 1, latest)' => id \in Range(pending')
    BY <1>1, <1>8 DEF CreatedIn, created
  <2>2. CreatedIn(from, Scanned)' = CreatedIn(from, Scanned)
    BY <1>1, <1>10 DEF CreatedIn
  <2>3. EntryFits(id)
    BY DEF IInv, CacheFits
  <2> QED
    BY <1>1, <1>10, <2>1, <2>2, <2>3 DEF EntryFits
<1>12. CacheFits'
  BY <1>1, <1>3, <1>11 DEF IInv, CacheFits
<1> QED
  BY <1>9, <1>12 DEF IInv

\* The check-ins of the range, for one heartbeat: the entry takes the time of the
\* last of them, which is not before any check-in up to the end of the range.
LEMMA CheckedInEntry ==
    ASSUME IInv, NEW id \in Id, NEW seen, seen = Events("HeartbeatCheckedIn", id), seen # {}
    PROVE  /\ log[Max(seen)].timestamp \in Nat \ {0}
           /\ log[Max(seen)].timestamp <= beats[id].lastCheckIn
           /\ \A b \in 1..latest : log[b].id = id /\ log[b].type = "HeartbeatCheckedIn"
                 => log[b].timestamp <= log[Max(seen)].timestamp
<1>1. /\ latest \in Nat /\ lastScannedBlock \in Nat /\ Len(log) \in Nat
      /\ latest <= Len(log) /\ DOMAIN log = 1..Len(log)
  BY DEF IInv, Types, CacheFits
<1>2. seen \in SUBSET (0..latest)
  BY <1>1 DEF Events
<1>3. PICK last : last = Max(seen)
  OBVIOUS
<1>4. last \in seen /\ \A b \in seen : b <= last
  BY <1>1, <1>2, <1>3, MaxIsLast
<1>5. /\ last \in lastScannedBlock + 1..latest /\ last \in DOMAIN log
      /\ log[last].type = "HeartbeatCheckedIn" /\ log[last].id = id
  BY <1>1, <1>4 DEF Events
<1>6. log[last].timestamp \in Nat \ {0}
  <2>1. log[last] \in Event
    BY <1>5 DEF IInv, Types
  <2> QED
    BY <2>1 DEF Event
<1>7. log[last].timestamp <= beats[id].lastCheckIn
  BY <1>5 DEF IInv, LogFits
<1>8. ASSUME NEW b \in 1..latest, log[b].id = id, log[b].type = "HeartbeatCheckedIn"
      PROVE  log[b].timestamp <= log[last].timestamp
  <2>1. b \in DOMAIN log
    BY <1>1
  <2>2. b <= last
    <3>1. CASE b \in lastScannedBlock + 1..latest
      BY <1>4, <1>8, <3>1 DEF Events
    <3>2. CASE b \notin lastScannedBlock + 1..latest
      BY <1>1, <1>5, <3>2
    <3> QED
      BY <3>1, <3>2
  <2> QED
    BY <1>5, <2>1, <2>2 DEF IInv, LogFits
<1> QED
  BY <1>3, <1>6, <1>7, <1>8

\* The rest of a poll: the range is scanned.
LEMMA PollEndsIInv ==
    ASSUME IInv, PollEnds
    PROVE  IInv'
<1>1. /\ pc = "polling" /\ pc' = "selecting" /\ pending = << >>
      /\ active' = [id \in Id |-> AfterEvents(id)] /\ lastScannedBlock' = latest
      /\ UNCHANGED <<now, beats, log, mempool, from, latest, pending, unseen>>
  BY DEF PollEnds, Goto, chain, pool
<1>2. /\ active \in [Id -> Entry] /\ beats \in [Id -> Timer]
      /\ latest \in Nat /\ lastScannedBlock \in Nat /\ Len(log) \in Nat
      /\ latest <= Len(log) /\ DOMAIN log = 1..Len(log)
  BY DEF IInv, Types, CacheFits
<1>3. /\ Untracked \in Entry /\ Untracked.interval = 0
  BY DEF Untracked, Entry
<1>4. Scanned = lastScannedBlock /\ Scanned' = latest
  BY <1>1 DEF Scanned, Running
<1>5. ASSUME NEW id \in Id
      PROVE  AfterEvents(id) \in Entry /\ EntryFits(id)'
  <2> DEFINE seen == Events("HeartbeatCheckedIn", id)
  <2>1. PICK e : e = AfterEvents(id)
    OBVIOUS
  <2>2. active'[id] = e
    BY <1>1, <2>1
  <2>3. EntryFits(id) /\ active[id] \in Entry /\ beats[id] \in Timer
    BY <1>2 DEF IInv, CacheFits
  <2>4. /\ active[id].interval \in Nat /\ active[id].lastCheckIn \in Nat
        /\ beats[id].lastCheckIn \in Nat
    BY <2>3 DEF Entry, Timer
  <2>5. CASE Ended(id)
    <3>1. e = Untracked
      BY <2>1, <2>5 DEF AfterEvents
    <3>2. \E b \in DOMAIN log : log[b].id = id /\ log[b].type \in EndTypes
      BY <1>2, <2>5 DEF Ended, Events, EndTypes
    <3>3. beats[id].status # "live"
      BY <3>2 DEF IInv, LogFits
    <3>4. EntryFits(id)'
      BY <1>1, <1>3, <2>2, <3>1, <3>3 DEF EntryFits
    <3> QED
      BY <1>3, <2>1, <3>1, <3>4
  <2>6. CASE ~Ended(id)
    <3>1. /\ e \in Entry /\ e.tracked = active[id].tracked
          /\ e.interval = active[id].interval
          /\ ~(active[id].tracked /\ seen # {}) => e.lastCheckIn = active[id].lastCheckIn
          /\ active[id].tracked /\ seen # {} => e.lastCheckIn = log[Max(seen)].timestamp
      <4>1. CASE active[id].tracked /\ seen # {}
        <5>1. e = [active[id] EXCEPT !.lastCheckIn = log[Max(seen)].timestamp]
          BY <2>1, <2>6, <4>1 DEF AfterEvents
        <5>2. log[Max(seen)].timestamp \in Nat
          BY <4>1, CheckedInEntry
        <5> HIDE DEF seen
        <5> QED
          BY <2>3, <4>1, <5>1, <5>2 DEF Entry
      <4>2. CASE ~(active[id].tracked /\ seen # {})
        <5>1. e = active[id]
          BY <2>1, <2>6, <4>2 DEF AfterEvents
        <5> HIDE DEF seen
        <5> QED
          BY <2>3, <4>2, <5>1
      <4> QED
        BY <4>1, <4>2
    <3>2. \A b \in lastScannedBlock + 1..latest : log[b].id = id => log[b].type \notin EndTypes
      BY <2>6 DEF Ended, Events, EndTypes
    <3>3. ASSUME e.interval # 0
          PROVE  /\ e.tracked /\ e.lastCheckIn # 0
                 /\ beats[id].status # "none"
                 /\ e.lastCheckIn <= beats[id].lastCheckIn
                 /\ (\A b \in DOMAIN log : log[b].id = id => log[b].type # "IntervalUpdated")
                       => e.interval = beats[id].interval
      <4>1. CASE active[id].tracked /\ seen # {}
        <5>1. /\ log[Max(seen)].timestamp # 0
              /\ log[Max(seen)].timestamp <= beats[id].lastCheckIn
          BY <4>1, CheckedInEntry
        <5> HIDE DEF seen
        <5> QED
          BY <2>3, <3>1, <3>3, <4>1, <5>1 DEF EntryFits
      <4>2. CASE ~(active[id].tracked /\ seen # {})
        <5> HIDE DEF seen
        <5> QED
          BY <2>3, <3>1, <3>3, <4>2 DEF EntryFits
      <4> QED
        BY <4>1, <4>2
    <3>4. ASSUME e.interval # 0, NEW b \in 1..latest, log[b].id = id
          PROVE  log[b].type \notin EndTypes
      <4>1. b \in lastScannedBlock + 1..latest \/ b \in 1..Scanned
        BY <1>2, <1>4
      <4> HIDE DEF seen
      <4> QED
        BY <2>3, <3>1, <3>2, <3>4, <4>1 DEF EntryFits
    <3>5. ASSUME e.interval # 0, NEW b \in 1..latest, log[b].id = id,
                 log[b].type = "HeartbeatCheckedIn"
          PROVE  e.lastCheckIn >= log[b].timestamp
      <4>1. active[id].tracked
        BY <2>3, <3>1, <3>5 DEF EntryFits
      <4>2. CASE seen # {}
        <5>1. log[b].timestamp <= log[Max(seen)].timestamp
          BY <3>5, <4>2, CheckedInEntry
        <5>2. log[b] \in Event
          BY <1>2 DEF IInv, Types
        <5>3. log[b].timestamp \in Nat /\ log[Max(seen)].timestamp \in Nat
          BY <4>2, <5>2, CheckedInEntry DEF Event
        <5> HIDE DEF seen
        <5> QED
          BY <3>1, <4>1, <4>2, <5>1, <5>3
      <4>3. CASE seen = {}
        <5>1. b \in 1..Scanned
          BY <1>2, <1>4, <3>5, <4>3 DEF Events
        <5> HIDE DEF seen
        <5> QED
          BY <2>3, <3>1, <3>5, <4>3, <5>1 DEF EntryFits
      <4> QED
        BY <4>2, <4>3
    <3>6. id \in CreatedIn(from, latest) \ unseen /\ beats[id].status = "live" => e.tracked
      <4>1. /\ 1 \in Int /\ Scanned \in Int /\ latest \in Int /\ lastScannedBlock + 1 \in Int
            /\ id \notin Range(pending)
        BY <1>1, <1>2, <1>4 DEF Range
      <4>2. id \in CreatedIn(from, latest)
            => id \in CreatedIn(from, Scanned) \/ id \in CreatedIn(lastScannedBlock + 1, latest)
        BY <1>2, <1>4 DEF CreatedIn
      <4> HIDE DEF seen
      <4> QED
        BY <1>1, <2>3, <3>1, <4>1, <4>2 DEF EntryFits
    <3>7. CreatedIn(from, Scanned)' = CreatedIn(from, latest)
      BY <1>1, <1>4 DEF CreatedIn
    <3> HIDE DEF seen
    <3>8. EntryFits(id)'
      BY <1>1, <1>4, <2>2, <3>3, <3>4, <3>5, <3>6, <3>7 DEF EntryFits
    <3> QED
      BY <2>1, <3>1, <3>8
  <2> QED
    BY <2>5, <2>6
<1>6. Types' /\ LogFits'
  BY <1>1, <1>5 DEF IInv, Types, LogFits
<1>7. CacheFits'
  BY <1>1, <1>5 DEF IInv, CacheFits
<1> QED
  BY <1>6, <1>7 DEF IInv

\* The rest of a tick neither reads nor writes the cache but to select from it.
LEMMA TickStepIInv ==
    ASSUME IInv,
           \/ PollFails \/ Select \/ TickThrows \/ BatchEnds
           \/ Recheck \/ RecheckFails \/ Submit \/ SubmitFails \/ WaitReturns \/ WaitThrows
    PROVE  IInv'
<1>1. /\ pending \in Seq(Id) /\ mempool \in Seq(Id) /\ latest \in Nat /\ latest <= Len(log)
      /\ pc \in {"submitting", "waiting"} => pending # << >>
  BY DEF IInv, Types, CacheFits
<1>2. pending # << >> => Head(pending) \in Id /\ Tail(pending) \in Seq(Id)
  BY <1>1
<1>3. SUFFICES /\ UNCHANGED <<chain, cache, unseen, from, latest>>
               /\ Running /\ Running' /\ pc' # "polling"
               /\ pending' \in Seq(Id) /\ mempool' \in Seq(Id)
               /\ pc' \in {"submitting", "waiting"} => pending' # << >>
  BY <1>1, QuietIInv
<1>4. CASE PollFails \/ TickThrows \/ BatchEnds
  BY <1>1, <1>4 DEF PollFails, TickThrows, BatchEnds, Goto, Running, pool
<1>5. CASE Select
  <2>1. {id \in Id : SeenExpired(id)} \in SUBSET Id
    OBVIOUS
  <2>2. pending' \in Seq(Id)
    BY <1>5, <2>1, SetToSeqType DEF Select
  <2> QED
    BY <1>1, <1>5, <2>2 DEF Select, Goto, Running, pool
<1>6. CASE Recheck \/ RecheckFails
  BY <1>1, <1>2, <1>6 DEF Recheck, RecheckFails, GiveUp, Goto, Running, pool
<1>7. CASE Submit
  <2>1. Append(mempool, Head(pending)) \in Seq(Id)
    BY <1>1, <1>2, <1>7 DEF Submit
  <2> QED
    BY <1>1, <1>7, <2>1 DEF Submit, Goto, Running
<1>8. CASE SubmitFails
  <2>1. pending # << >> /\ Append(mempool, Head(pending)) \in Seq(Id)
    BY <1>1, <1>2, <1>8 DEF SubmitFails
  <2> QED
    BY <1>1, <1>2, <1>8, <2>1 DEF SubmitFails, GiveUp, Goto, Running
<1>9. CASE WaitReturns \/ WaitThrows
  BY <1>1, <1>2, <1>9 DEF WaitReturns, WaitThrows, GiveUp, Goto, Running
<1> QED
  BY <1>4, <1>5, <1>6, <1>7, <1>8, <1>9

LEMMA StutterIInv ==
    ASSUME IInv, UNCHANGED vars
    PROVE  IInv'
BY DEF IInv, Types, LogFits, CacheFits, EntryFits, CreatedIn, Scanned, Running, vars, chain,
       pool, cache, process

LEMMA NextIInv ==
    ASSUME IInv, [Next]_vars
    PROVE  IInv'
<1>1. CASE NodeStep
  BY <1>1, ConnectIInv, BootstrapIInv, BootstrapEndsIInv, PollIInv, PollEndsIInv, RefreshIInv,
     TickStepIInv DEF NodeStep
<1>2. CASE UNCHANGED vars
  BY <1>2, StutterIInv
<1> QED
  BY <1>1, <1>2, ChainStepIInv, TickDropIInv, MineIInv, RestartIInv DEF Next

\* The invariant holds of every behaviour of the node on its chain.
THEOREM Invariance == Spec => []IInv
BY InitIInv, NextIInv, PTL DEF Spec

------------------------------------------------------------------------------
\* The watchlist has every live heartbeat created from the first block of the scan
\* to the last scanned one, but for the queries that failed at the start, and no
\* hydrated one that ended (monitor.js bootstrap and pollEvents).  Which block is
\* the first is left open: START_BLOCK, or the window before the head.
THEOREM WatchlistIsExact == Spec => []WatchlistExact
<1>1. IInv => WatchlistExact
  BY DEF IInv, Types, CacheFits, EntryFits, WatchlistExact, HasTimer, Scanned, EndTypes
<1> QED
  BY <1>1, Invariance, PTL

\* A hydration never hides a check-in of the blocks that were scanned, although
\* it reads the chain of a later block (monitor.js _hydrateOne and pollEvents).
THEOREM CheckInsAreSeen == Spec => []CheckInsSeen
<1>1. IInv => CheckInsSeen
  BY DEF IInv, Types, CacheFits, EntryFits, CheckInsSeen, HasTimer, Scanned
<1> QED
  BY <1>1, Invariance, PTL

\* The cache lags behind the chain on one side only: the node asks too early, and
\* never too late, unless an owner changes an interval (monitor.js expired).
THEOREM StaleIsEarly == Spec => []StaleCacheIsEarly
<1>1. ASSUME IInv, NEW id \in Id, HasTimer(id), Overdue(id),
             \A b \in DOMAIN log : log[b].id = id => log[b].type # "IntervalUpdated"
      PROVE  SeenExpired(id)
  <2>1. /\ active[id].lastCheckIn <= beats[id].lastCheckIn
        /\ active[id].interval = beats[id].interval
    BY <1>1 DEF IInv, CacheFits, EntryFits, HasTimer
  <2>2. active[id] \in Entry /\ beats[id] \in Timer /\ now \in Nat
    BY <1>1 DEF IInv, Types
  <2>3. /\ active[id].lastCheckIn \in Nat /\ beats[id].lastCheckIn \in Nat
        /\ beats[id].interval \in Nat
    BY <2>2 DEF Entry, Timer
  <2> QED
    BY <1>1, <2>1, <2>2, <2>3 DEF SeenExpired, Overdue, IsExpired
<1>2. IInv => StaleCacheIsEarly
  BY <1>1 DEF StaleCacheIsEarly
<1> QED
  BY <1>2, Invariance, PTL

------------------------------------------------------------------------------
\* What the node counts: an execution is counted once it was mined, and an
\* identifier is delivered only once, so that a transaction of the node that
\* succeeds is for one it had not delivered before.
CountFits ==
    /\ beats \in [Id -> Timer]
    /\ byNode \in SUBSET Id /\ \A id \in byNode : beats[id].status = "executed"
    /\ executedCount \in Nat
    /\ executedCount + (IF receipt = "success" THEN 1 ELSE 0) <= Cardinality(byNode)

LEMMA NextCountFits ==
    ASSUME IInv, CountFits, [Next]_vars
    PROVE  CountFits'
<1>1. Cardinality(byNode) \in Nat /\ IsFiniteSet(byNode) /\ executedCount \in Nat
  BY FS_Subset, FS_CardinalityType, NodeAssumption DEF CountFits, NodeAssumption
<1>2. IInv'
  BY NextIInv
<1>3. beats' \in [Id -> Timer]
  BY <1>2 DEF IInv, Types
<1>4. CASE ChainStep
  <2>1. UNCHANGED <<byNode, receipt, executedCount>>
    BY <1>4 DEF ChainStep, pool
  <2>2. PICK id \in Id : \/ \E interval \in Interval : Create(id, interval) \/ UpdateInterval(id, interval)
                         \/ CheckIn(id) \/ UpdateRecipients(id) \/ Deactivate(id)
                         \/ PeerExecutes(id)
    BY <1>4 DEF ChainStep
  <2>3. beats[id].status # "executed" /\ \A o \in Id : o # id => beats'[o] = beats[o]
    BY <2>2 DEF CountFits, Create, UpdateInterval, CheckIn, UpdateRecipients, Deactivate,
                PeerExecutes, Overdue
  <2> QED
    BY <1>3, <2>1, <2>3 DEF CountFits
<1>5. CASE Mine
  <2> DEFINE id == Head(mempool)
  <2>1. id \in Id /\ executedCount' = executedCount
    BY <1>5 DEF IInv, Types, Mine
  <2>2. CASE Overdue(id)
    <3>1. /\ byNode' = byNode \cup {id} /\ beats[id].status = "live"
          /\ beats' = [beats EXCEPT ![id].status = "executed"]
          /\ receipt' = "success" => receipt \in {"success", "awaited"}
      BY <1>5, <2>2 DEF Mine, Overdue
    <3>2. id \notin byNode
      BY <3>1 DEF CountFits
    <3>3. Cardinality(byNode') = Cardinality(byNode) + 1
      <4> HIDE DEF id
      <4> QED
        BY <1>1, <3>1, <3>2, FS_AddElement
    <3>4. beats'[id].status = "executed" /\ \A o \in Id : o # id => beats'[o] = beats[o]
      BY <2>1, <3>1 DEF CountFits
    <3>5. byNode' \in SUBSET Id /\ \A o \in byNode' : beats'[o].status = "executed"
      BY <2>1, <3>1, <3>4 DEF CountFits
    <3>6. executedCount + (IF receipt' = "success" THEN 1 ELSE 0) <= Cardinality(byNode) + 1
      BY <1>1 DEF CountFits
    <3> QED
      BY <1>3, <2>1, <1>1, <3>3, <3>5, <3>6 DEF CountFits
  <2>3. CASE ~Overdue(id)
    <3>1. UNCHANGED <<beats, byNode>> /\ receipt' \in {receipt, "reverted"}
      BY <1>5, <2>3 DEF Mine
    <3> QED
      BY <1>1, <1>3, <2>1, <3>1 DEF CountFits
  <2> QED
    BY <2>2, <2>3
<1>6. CASE Restart
  <2>1. byNode' = {} /\ executedCount' = 0 /\ receipt' = "none"
    BY <1>6 DEF Restart, NoReceipt
  <2>2. Cardinality({}) = 0
    BY FS_EmptySet
  <2> QED
    BY <1>3, <2>1, <2>2 DEF CountFits
<1>7. CASE WaitReturns
  <2>1. /\ UNCHANGED <<beats, byNode>> /\ receipt' = "none"
        /\ executedCount' = executedCount + (IF receipt = "success" THEN 1 ELSE 0)
    BY <1>1, <1>7 DEF WaitReturns, NoReceipt, chain
  <2> QED
    BY <1>1, <1>3, <2>1 DEF CountFits
<1>8. ASSUME UNCHANGED <<beats, byNode, executedCount>>, receipt' = receipt \/ receipt' \in {"awaited", "none"}
      PROVE  CountFits'
  BY <1>1, <1>8 DEF CountFits
<1>9. CASE Tick \/ Drop
  BY <1>8, <1>9 DEF Tick, Drop, pool, chain
<1>10. CASE NodeStep /\ ~WaitReturns
  <2>1. CASE Connect \/ Bootstrap \/ BootstrapEnds \/ Poll \/ PollFails \/ PollEnds
             \/ Select \/ TickThrows \/ BatchEnds \/ Recheck \/ RecheckFails
    BY <1>8, <2>1 DEF Connect, Bootstrap, BootstrapEnds, Poll, PollFails, PollEnds, Select,
       TickThrows, BatchEnds, Recheck, RecheckFails, chain, pool
  <2>2. ASSUME NEW ok \in BOOLEAN, RefreshOne(ok) \/ PollCreated(ok)
        PROVE  CountFits'
    BY <1>8, <2>2 DEF RefreshOne, PollCreated, chain, pool
  <2>3. CASE Submit \/ SubmitFails \/ WaitThrows
    BY <1>8, <2>3 DEF Submit, SubmitFails, WaitThrows, NoReceipt, chain
  <2> QED
    BY <1>10, <2>1, <2>2, <2>3 DEF NodeStep
<1>11. CASE UNCHANGED vars
  BY <1>8, <1>11 DEF vars, chain, pool
<1> QED
  BY <1>4, <1>5, <1>6, <1>7, <1>9, <1>10, <1>11 DEF Next

\* The node counts no execution twice and none that did not happen, whatever it
\* sent twice, lost or was misinformed about (executor.js executeOne).
THEOREM CountIsDelivered == Spec => []CountedAreDelivered
<1>1. Init => CountFits
  <2>1. Cardinality({}) = 0
    BY FS_EmptySet
  <2> QED
    BY <2>1 DEF Init, CountFits, Timer, NoReceipt
<1>2. IInv /\ CountFits /\ [Next]_vars => CountFits'
  BY NextCountFits
<1>3. CountFits => CountedAreDelivered
  <2> SUFFICES ASSUME CountFits PROVE CountedAreDelivered
    OBVIOUS
  <2>1. Cardinality(byNode) \in Nat /\ executedCount \in Nat
    BY FS_Subset, FS_CardinalityType, NodeAssumption DEF CountFits, NodeAssumption
  <2> QED
    BY <2>1 DEF CountFits, CountedAreDelivered
<1> QED
  BY <1>1, <1>2, <1>3, Invariance, PTL DEF Spec
==============================================================================
