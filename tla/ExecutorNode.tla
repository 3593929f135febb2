----------------------------- MODULE ExecutorNode -----------------------------
(***************************************************************************)
(* executor/src: the node that watches MaktubCore and delivers what is     *)
(* overdue.  Its process runs one tick at a time, but between two awaits   *)
(* of a tick the chain moves on: each step below is the code from one      *)
(* await to the next.  The node keeps a cache of the heartbeats, built by  *)
(* a scan of past events and kept up by polling ranges of blocks, and asks *)
(* the chain again just before it submits.                                 *)
(*                                                                         *)
(* The chain is what the node can see of MaktubCore: the timer of each     *)
(* heartbeat, and a log with one event in each block.  Any RPC call may    *)
(* fail.  A transaction that was sent may be mined, dropped, or reported   *)
(* as failed although it was sent.                                         *)
(***************************************************************************)
EXTENDS Integers, Sequences, FiniteSets, SequencesExt

CONSTANTS
    Id,                 \* the heartbeats
    Interval,           \* the intervals owners choose
    StartBlocks,        \* what START_BLOCK may be set to, 0 as it is shipped
    ScanWindow,         \* how far back a scan starts by itself: 500,000 blocks
    MaxBlocks,          \* bound on the events that others than the node cause
    MaxTime,            \* bound on the clock
    OwnersActUntil,     \* the time after which owners and peers are silent
    MaxPending,         \* bound on the node's transactions in the mempool
    MaxDrops,           \* bound on how often the mempool loses them
    MaxRestarts         \* bound on the restarts of the node

ASSUME NodeAssumption ==
    /\ IsFiniteSet(Id)
    /\ Interval \subseteq Nat \ {0}
    /\ StartBlocks \subseteq Nat /\ ScanWindow \in Nat
    /\ MaxBlocks \in Nat /\ MaxTime \in Nat /\ OwnersActUntil \in Nat
    /\ MaxPending \in Nat /\ MaxDrops \in Nat /\ MaxRestarts \in Nat

VARIABLES
    now,                \* block.timestamp, which Date.now() agrees with
    beats,              \* status, interval and lastCheckIn of each heartbeat
    log,                \* the events, the position of an event being its block
    mempool,            \* the node's transactions, in the order of their nonces
    byNode,             \* the heartbeats that a transaction of the node delivered
    drops,
    active,             \* Monitor.active
    lastScannedBlock,   \* Monitor.lastScannedBlock
    executedCount,      \* ExecutorBot.executedCount
    pc,                 \* the await the process is at
    from,               \* cfg.deployBlock, then the block the first scan starts at
    latest,             \* the block number read at the start of a scan
    pending,            \* the heartbeats left to hydrate, or to execute
    receipt,            \* what tx.wait() has to return
    unseen,             \* the heartbeats of the scan's failed queries (history)
    restarts

chain == <<now, beats, log>>
pool == <<mempool, byNode, drops, receipt>>
cache == <<active, lastScannedBlock>>
process == <<pc, from, latest, pending>>
vars == <<chain, pool, cache, process, executedCount, unseen, restarts>>

Untracked == [tracked |-> FALSE, interval |-> 0, lastCheckIn |-> 0]
\* An entry set from an event has no timer yet: both fields are undefined.
Unhydrated == [Untracked EXCEPT !.tracked = TRUE]
NoReceipt == "none"

Init ==
    /\ now = 1
    /\ beats = [id \in Id |-> [status |-> "none", interval |-> 0, lastCheckIn |-> 0]]
    /\ log = << >>
    /\ mempool = << >>
    /\ byNode = {}
    /\ drops = 0
    /\ active = [id \in Id |-> Untracked]
    /\ lastScannedBlock = 0
    /\ executedCount = 0
    /\ pc = "down"
    /\ from = 0
    /\ latest = 0
    /\ pending = << >>
    /\ receipt = NoReceipt
    /\ unseen = {}
    /\ restarts = 0

------------------------------------------------------------------------------
(* The chain *)

IsExpired(id, t) == t > beats[id].lastCheckIn + beats[id].interval
Overdue(id) == beats[id].status = "live" /\ IsExpired(id, now)

Emit(type, id) == log' = Append(log, [type |-> type, id |-> id, timestamp |-> now])

Create(id, interval) ==
    /\ beats[id].status = "none"
    /\ beats' = [beats EXCEPT ![id] =
          [status |-> "live", interval |-> interval, lastCheckIn |-> now]]
    /\ Emit("HeartbeatCreated", id)

CheckIn(id) ==
    /\ beats[id].status = "live"
    /\ beats' = [beats EXCEPT ![id].lastCheckIn = now]
    /\ Emit("HeartbeatCheckedIn", id)

\* updateRecipients restarts the timer, with an event of another type.
UpdateRecipients(id) ==
    /\ beats[id].status = "live"
    /\ beats' = [beats EXCEPT ![id].lastCheckIn = now]
    /\ Emit("RecipientsUpdated", id)

UpdateInterval(id, interval) ==
    /\ beats[id].status = "live"
    /\ beats' = [beats EXCEPT ![id].interval = interval]
    /\ Emit("IntervalUpdated", id)

Deactivate(id) ==
    /\ beats[id].status = "live"
    /\ beats' = [beats EXCEPT ![id].status = "deactivated"]
    /\ Emit("HeartbeatDeactivated", id)

\* Another executor, or a recipient after the grace, delivers the heartbeat.
PeerExecutes(id) ==
    /\ Overdue(id)
    /\ beats' = [beats EXCEPT ![id].status = "executed"]
    /\ Emit("HeartbeatExecuted", id)

ChainStep ==
    /\ now <= OwnersActUntil
    /\ Len(log) < MaxBlocks
    /\ \E id \in Id :
          \/ \E interval \in Interval : Create(id, interval) \/ UpdateInterval(id, interval)
          \/ CheckIn(id) \/ UpdateRecipients(id) \/ Deactivate(id)
          \/ PeerExecutes(id)
    /\ UNCHANGED <<now, pool, cache, process, executedCount, unseen, restarts>>

Tick ==
    /\ now < MaxTime
    /\ now' = now + 1
    /\ UNCHANGED <<beats, log, pool, cache, process, executedCount, unseen, restarts>>

\* The node's next transaction is mined: it delivers the heartbeat or reverts.
\* The transaction waited for is the last one sent.
Mine ==
    LET id == Head(mempool)
    IN  /\ mempool # << >>
        /\ mempool' = Tail(mempool)
        /\ IF Overdue(id)
           THEN /\ beats' = [beats EXCEPT ![id].status = "executed"]
                /\ Emit("HeartbeatExecuted", id)
                /\ byNode' = byNode \cup {id}
           ELSE UNCHANGED <<beats, log, byNode>>
        /\ receipt' = IF receipt = "awaited" /\ Len(mempool) = 1
                      THEN IF Overdue(id) THEN "success" ELSE "reverted"
                      ELSE receipt
        /\ UNCHANGED <<now, drops, cache, process, executedCount, unseen, restarts>>

\* The mempool forgets the node's transactions.
Drop ==
    /\ mempool # << >>
    /\ drops < MaxDrops
    /\ mempool' = << >>
    /\ drops' = drops + 1
    /\ UNCHANGED <<chain, byNode, receipt, cache, process, executedCount, unseen, restarts>>

------------------------------------------------------------------------------
(* Start *)

Goto(label) == pc' = label

\* The heartbeats created from the block a to the block b, as a query finds them.
CreatedIn(a, b) ==
    {log[k].id : k \in {k \in DOMAIN log : k \in a..b /\ log[k].type = "HeartbeatCreated"}}

\* The block a scan up to head starts at: the one asked for, which 0 is not, or
\* one so far back that head minus the window is taken for the beginning.
FirstBlock(asked, head) ==
    IF asked # 0 THEN asked ELSE IF head > ScanWindow THEN head - ScanWindow ELSE 0

\* The process starts and connects; staking comes next, and takes its time.
Connect ==
    /\ pc = "down"
    /\ Goto("connected")
    /\ \E startBlock \in StartBlocks : from' = FirstBlock(startBlock, Len(log))
    /\ UNCHANGED <<chain, pool, cache, latest, pending, executedCount, unseen, restarts>>

\* bootstrap up to _refreshAll: the block number is read, the created events
\* are queried, and a query that fails twice is only logged.
Bootstrap ==
    LET created == CreatedIn(FirstBlock(from, Len(log)), Len(log))
    IN  /\ pc = "connected"
        /\ Goto("hydrating")
        /\ \E missed \in SUBSET created :
              /\ unseen' = missed
              /\ active' = [id \in Id |->
                    IF id \in created \ missed THEN Unhydrated ELSE Untracked]
              /\ pending' = SetToSeq(created \ missed)
        /\ from' = FirstBlock(from, Len(log))
        /\ latest' = Len(log)
        /\ UNCHANGED <<chain, pool, lastScannedBlock, executedCount, restarts>>

\* _hydrateOne(id) on the cache c: what the chain says, or nothing if it fails.
Hydrated(c, id, ok) ==
    IF ~ok THEN c
    ELSE [c EXCEPT ![id] =
            IF beats[id].status # "live" THEN Untracked
            ELSE [tracked |-> TRUE, interval |-> beats[id].interval,
                  lastCheckIn |-> beats[id].lastCheckIn]]

\* One turn of _refreshAll.
RefreshOne(ok) ==
    /\ pc = "hydrating"
    /\ pending # << >>
    /\ active' = Hydrated(active, Head(pending), ok)
    /\ pending' = Tail(pending)
    /\ UNCHANGED <<chain, pool, lastScannedBlock, pc, from, latest, executedCount,
                   unseen, restarts>>

\* Mutant of BootstrapEnds: the events that came in meanwhile count as scanned.
BootstrapEndsAtHead ==
    /\ pc = "hydrating"
    /\ pending = << >>
    /\ lastScannedBlock' = Len(log)
    /\ Goto("idle")
    /\ UNCHANGED <<chain, pool, active, from, latest, pending, executedCount, unseen, restarts>>

BootstrapEnds ==
    /\ pc = "hydrating"
    /\ pending = << >>
    /\ lastScannedBlock' = latest
    /\ Goto("idle")
    /\ UNCHANGED <<chain, pool, active, from, latest, pending, executedCount, unseen, restarts>>

\* The process dies and is started again: only the chain remembers.
Restart ==
    /\ pc # "down"
    /\ restarts < MaxRestarts
    /\ restarts' = restarts + 1
    /\ Goto("down")
    /\ active' = [id \in Id |-> Untracked]
    /\ lastScannedBlock' = 0
    /\ executedCount' = 0
    /\ from' = 0
    /\ latest' = 0
    /\ pending' = << >>
    /\ receipt' = NoReceipt
    /\ unseen' = {}
    /\ byNode' = {}
    /\ UNCHANGED <<chain, mempool, drops>>

------------------------------------------------------------------------------
(* One tick *)

Events(type, id) ==
    {b \in lastScannedBlock + 1..latest : log[b].type = type /\ log[b].id = id}

Ended(id) == Events("HeartbeatExecuted", id) \cup Events("HeartbeatDeactivated", id) # {}

\* The blocks of S in the order of the chain, which is that of a query's answer.
Ascending(S) ==
    {s \in [1..Cardinality(S) -> S] : \A i, j \in DOMAIN s : i < j => s[i] < s[j]}

\* pollEvents up to the first hydration: nothing new, or the range is queried.
Poll ==
    /\ pc = "idle"
    /\ latest' = Len(log)
    /\ \E blocks \in Ascending({b \in lastScannedBlock + 1..Len(log) :
                                   log[b].type = "HeartbeatCreated"}) :
          pending' = [k \in DOMAIN blocks |-> log[blocks[k]].id]
    /\ Goto(IF Len(log) > lastScannedBlock THEN "polling" ELSE "selecting")
    /\ UNCHANGED <<chain, pool, cache, from, executedCount, unseen, restarts>>

\* The query fails: the range is left for the next tick, this one goes on.
PollFails ==
    /\ pc = "idle"
    /\ Goto("selecting")
    /\ UNCHANGED <<chain, pool, cache, from, latest, pending, executedCount, unseen, restarts>>

\* One created event: the entry is set, then hydrated if the call succeeds.
PollCreated(ok) ==
    /\ pc = "polling"
    /\ pending # << >>
    /\ active' = Hydrated([active EXCEPT ![Head(pending)] = Unhydrated], Head(pending), ok)
    /\ pending' = Tail(pending)
    /\ UNCHANGED <<chain, pool, lastScannedBlock, pc, from, latest, executedCount,
                   unseen, restarts>>

\* Mutant of AfterEvents: a check-in is taken to happen when it is read.
AfterEventsNow(id) ==
    IF Ended(id) THEN Untracked
    ELSE IF active[id].tracked /\ Events("HeartbeatCheckedIn", id) # {}
    THEN [active[id] EXCEPT !.lastCheckIn = now]
    ELSE active[id]

\* The entry of id after the check-ins and the ends in the range, in this order.
AfterEvents(id) ==
    IF Ended(id) THEN Untracked
    ELSE IF active[id].tracked /\ Events("HeartbeatCheckedIn", id) # {}
    THEN [active[id] EXCEPT !.lastCheckIn = log[Max(Events("HeartbeatCheckedIn", id))].timestamp]
    ELSE active[id]

\* Mutant of PollEnds: the range is taken to reach the head of the chain.
PollEndsAtHead ==
    /\ pc = "polling"
    /\ pending = << >>
    /\ active' = [id \in Id |-> AfterEvents(id)]
    /\ lastScannedBlock' = Len(log)
    /\ Goto("selecting")
    /\ UNCHANGED <<chain, pool, from, latest, pending, executedCount, unseen, restarts>>

\* The rest of pollEvents.
PollEnds ==
    /\ pc = "polling"
    /\ pending = << >>
    /\ active' = [id \in Id |-> AfterEvents(id)]
    /\ lastScannedBlock' = latest
    /\ Goto("selecting")
    /\ UNCHANGED <<chain, pool, from, latest, pending, executedCount, unseen, restarts>>

\* expired(now): from the cache alone, and only of entries with a timer.
HasTimer(id) == active[id].interval # 0 /\ active[id].lastCheckIn # 0
SeenExpired(id) == HasTimer(id) /\ now > active[id].lastCheckIn + active[id].interval

\* The expired heartbeats are collected and the gas price is read.
Select ==
    /\ pc = "selecting"
    /\ pending' = SetToSeq({id \in Id : SeenExpired(id)})
    /\ Goto("batch")
    /\ UNCHANGED <<chain, pool, cache, from, latest, executedCount, unseen, restarts>>

\* Reading the gas price throws: the rest of the tick is lost.
TickThrows ==
    /\ pc = "selecting"
    /\ Goto("idle")
    /\ UNCHANGED <<chain, pool, cache, from, latest, pending, executedCount, unseen, restarts>>

\* executeOne gives up on its heartbeat, and the batch goes on.
GiveUp == pending' = Tail(pending) /\ Goto("batch")

\* executeOne after its jitter: the chain is asked again.
Recheck ==
    /\ pc = "batch"
    /\ pending # << >>
    /\ IF Overdue(Head(pending)) THEN Goto("submitting") /\ UNCHANGED pending
                                 ELSE GiveUp
    /\ UNCHANGED <<chain, pool, cache, from, latest, executedCount, unseen, restarts>>

RecheckFails ==
    /\ pc = "batch"
    /\ pending # << >>
    /\ GiveUp
    /\ UNCHANGED <<chain, pool, cache, from, latest, executedCount, unseen, restarts>>

\* The transaction is simulated against the chain as it is now, and sent.
Submit ==
    /\ pc = "submitting"
    /\ Overdue(Head(pending))
    /\ Len(mempool) < MaxPending
    /\ mempool' = Append(mempool, Head(pending))
    /\ receipt' = "awaited"
    /\ Goto("waiting")
    /\ UNCHANGED <<chain, byNode, drops, cache, from, latest, pending, executedCount,
                   unseen, restarts>>

\* Mutant of SubmitFails: the heartbeat is taken off the watchlist.
SubmitFailsForgetting ==
    /\ pc = "submitting"
    /\ GiveUp
    /\ active' = [active EXCEPT ![Head(pending)] = Untracked]
    /\ UNCHANGED <<chain, pool, lastScannedBlock, from, latest, executedCount, unseen, restarts>>

\* The simulation reverts, or the call fails before or after it was sent.
SubmitFails ==
    /\ pc = "submitting"
    /\ GiveUp
    /\ \/ UNCHANGED mempool
       \/ /\ Overdue(Head(pending))
          /\ Len(mempool) < MaxPending
          /\ mempool' = Append(mempool, Head(pending))
    /\ UNCHANGED <<chain, byNode, drops, receipt, cache, from, latest, executedCount,
                   unseen, restarts>>

\* Mutant of WaitReturns: a reverted receipt is counted as an execution.
WaitReturnsCounting ==
    /\ pc = "waiting"
    /\ receipt \in {"success", "reverted"}
    /\ executedCount' = executedCount + 1
    /\ receipt' = NoReceipt
    /\ GiveUp
    /\ UNCHANGED <<chain, mempool, byNode, drops, cache, from, latest, unseen, restarts>>

\* tx.wait() returns a receipt, or throws for one that reverted.
WaitReturns ==
    /\ pc = "waiting"
    /\ receipt \in {"success", "reverted"}
    /\ executedCount' = IF receipt = "success" THEN executedCount + 1 ELSE executedCount
    /\ receipt' = NoReceipt
    /\ GiveUp
    /\ UNCHANGED <<chain, mempool, byNode, drops, cache, from, latest, unseen, restarts>>

\* tx.wait() throws for another reason, the transaction still pending or not.
WaitThrows ==
    /\ pc = "waiting"
    /\ receipt' = NoReceipt
    /\ GiveUp
    /\ UNCHANGED <<chain, mempool, byNode, drops, cache, from, latest, executedCount,
                   unseen, restarts>>

BatchEnds ==
    /\ pc = "batch"
    /\ pending = << >>
    /\ Goto("idle")
    /\ UNCHANGED <<chain, pool, cache, from, latest, pending, executedCount, unseen, restarts>>

NodeStep ==
    \/ Connect \/ Bootstrap \/ BootstrapEnds \/ Poll \/ PollFails \/ PollEnds
    \/ \E ok \in BOOLEAN : RefreshOne(ok) \/ PollCreated(ok)
    \/ Select \/ TickThrows \/ BatchEnds
    \/ Recheck \/ RecheckFails \/ Submit \/ SubmitFails \/ WaitReturns \/ WaitThrows

Next == ChainStep \/ Tick \/ Mine \/ Drop \/ NodeStep \/ Restart

Spec == Init /\ [][Next]_vars

\* The process goes on, except that nothing makes tx.wait() return before its
\* transaction is mined; an RPC call that is made again and again succeeds
\* again and again; and what stays in the mempool is mined.
FairSpec ==
    /\ Spec
    /\ SF_vars(Tick)
    /\ WF_vars(NodeStep /\ receipt # "awaited") /\ WF_vars(Mine)
    /\ SF_vars(Select) /\ SF_vars(Submit)
    /\ \A id \in Id : SF_vars(Recheck /\ Head(pending) = id)

------------------------------------------------------------------------------
(***************************************************************************)
(* Properties                                                              *)
(***************************************************************************)
Running == pc \notin {"down", "connected", "hydrating"}

\* The watchlist is complete from the block the scan at the start began at up to
\* lastScannedBlock: a live heartbeat created between them is on it, unless that
\* scan logged a failed query for it, and one that is hydrated and has ended by
\* then is off it (monitor.js:46-142).  What was created before the first block
\* of the scan may be missed for good, which without a START_BLOCK is what is older
\* than the window: executor/.env.example:23-25 says otherwise.
WatchlistExact ==
    Running => \A id \in Id :
        /\ id \in CreatedIn(from, lastScannedBlock) \ unseen /\ beats[id].status = "live"
              => active[id].tracked
        /\ HasTimer(id) => \A b \in 1..lastScannedBlock :
              log[b].id = id => log[b].type \notin {"HeartbeatExecuted", "HeartbeatDeactivated"}

\* A cached timer reflects every check-in up to lastScannedBlock, although a
\* hydration during a poll reads the chain of a later block.
CheckInsSeen ==
    Running => \A id \in Id : HasTimer(id) =>
        \A b \in 1..lastScannedBlock :
            log[b].id = id /\ log[b].type = "HeartbeatCheckedIn"
                => active[id].lastCheckIn >= log[b].timestamp

\* A stale cache errs towards asking the chain again: a watched heartbeat that
\* is overdue is among the expired ones, as long as nobody changed its interval.
StaleCacheIsEarly ==
    \A id \in Id :
        /\ HasTimer(id) /\ Overdue(id)
        /\ \A b \in DOMAIN log : log[b].id = id => log[b].type # "IntervalUpdated"
        => SeenExpired(id)

\* The node counts only what it delivered, whatever it sent twice, lost a race
\* for or was misinformed about.
CountedAreDelivered == executedCount <= Cardinality(byNode)

\* With owners silent, no restart, a mempool that loses nothing and a wallet that
\* stays funded and an active executor (index.js:58-61, 105-111), a heartbeat with
\* a timer in the cache ends up delivered, however often calls fail and whatever
\* the cache says about it.
WatchedIsDelivered ==
    \A id \in Id : HasTimer(id) ~> beats[id].status \in {"executed", "deactivated"}

\* executor/README.md:22-25: the node always knows which heartbeats are active,
\* and submits execute(id) for each whose timer has expired: a live heartbeat
\* it has hydrated and that is overdue, all events scanned, is expired to it.
OverdueIsSeen ==
    \A id \in Id :
        /\ pc = "selecting" /\ lastScannedBlock = Len(log)
        /\ HasTimer(id) /\ Overdue(id)
        => SeenExpired(id)
==============================================================================
