----------------------------- MODULE RequestGate -----------------------------
(***************************************************************************)
(* What a POST or PATCH passes before and after its handler: the           *)
(* idempotency middleware and the rate limit.                              *)
(*                                                                         *)
(* The records of the middleware are in a cache of two tiers, the memory   *)
(* of each process and Redis; the counters of the rate limit in Redis      *)
(* alone.  The middleware runs before the guards, so a request that the    *)
(* rate limit refuses is answered, and recorded, like any other.  An       *)
(* action is what a process does up to the next await.                     *)
(*                                                                         *)
(* External, modelled from its use: the cache asks memory, then Redis, and  *)
(* writes both; whether it copies what it found in Redis into memory, and   *)
(* whether a failed command throws or reads as a miss, is left open.       *)
(***************************************************************************)
EXTENDS Integers, FiniteSets

CONSTANTS
    Workers,    \* requests in flight at the same time
    Processes,  \* instances of the service
    Keys,       \* values of the header Idempotency-Key
    Payloads,   \* what a request hash tells apart: method, path and body
    Limit,      \* hits the counter admits
    MaxHits,    \* the bound on the counter: hits above it are alike
    Calls,      \* the failures of this instance
    NONE

AllCalls == {"fault", "crash"}

ASSUME CallsAssumption == Calls \subseteq AllCalls
ASSUME HitsAssumption == Limit \in Nat /\ MaxHits \in Nat /\ MaxHits > Limit /\ MaxHits > 1

VARIABLES
    memory,    \* memory[p][k]: the record in the memory of process p
    redis,     \* redis[k]: the record in Redis
    hits,      \* the counter of one client and one route
    expiring,  \* whether it has an expiry
    req,       \* the locals of each request in flight
    answered,  \* history: the keys with an answer sent since they were claimed
    lost       \* history: the keys for which a command or a process failed

counter == <<hits, expiring>>
cache == <<memory, redis>>
history == <<answered, lost>>
vars == <<memory, redis, hits, expiring, req, answered, lost>>

-----------------------------------------------------------------------------
(* IdempotencyRecord.  An answer is named by the payload it was given to;   *)
(* without one the record is "processing".                                 *)
Record == [payload : Payloads, answer : {NONE} \cup Payloads]

ASSUME NoneAssumption ==
    NONE \notin Processes \cup Keys \cup Payloads /\ NONE \notin Record

PC == {"idle", "lookup", "lookupRedis", "claim", "claimRedis", "throttle", "pexpire",
       "handle", "refused", "persist", "replay"}

(* wrapped: res.json completes the record; claimed: the record has reached  *)
(* Redis.  History: late, the key had been answered when the request came;  *)
(* blind, its lookup did not reach Redis.                                  *)
Request == [pc : PC,
            process : {NONE} \cup Processes,
            key : {NONE} \cup Keys,
            payload : {NONE} \cup Payloads,
            hit : 0..MaxHits,
            answer : {NONE} \cup Payloads,
            wrapped : BOOLEAN, claimed : BOOLEAN,
            late : BOOLEAN, blind : BOOLEAN]

Idle == [pc |-> "idle", process |-> NONE, key |-> NONE, payload |-> NONE, hit |-> 0,
         answer |-> NONE, wrapped |-> FALSE, claimed |-> FALSE, late |-> FALSE, blind |-> FALSE]

At(w, pc) == req[w].pc = pc
Goto(w, pc) == req' = [req EXCEPT ![w].pc = pc]
Finish(w) == req' = [req EXCEPT ![w] = Idle]
InFlight(k) == {w \in Workers : req[w].key = k}
Processing(w) == [payload |-> req[w].payload, answer |-> NONE]

Init ==
    /\ memory = [p \in Processes |-> [k \in Keys |-> NONE]]
    /\ redis = [k \in Keys |-> NONE]
    /\ hits = 0 /\ expiring = FALSE
    /\ req = [w \in Workers |-> Idle]
    /\ answered = {} /\ lost = {}

-----------------------------------------------------------------------------
(* A request reaches a process.  Without a key nothing is enforced. *)
ArrivePlain(w, p) ==
    /\ At(w, "idle")
    /\ req' = [req EXCEPT ![w] = [Idle EXCEPT !.pc = "throttle", !.process = p]]
    /\ UNCHANGED <<cache, counter, history>>

Arrive(w, p, k, d) ==
    /\ At(w, "idle")
    /\ req' = [req EXCEPT ![w] = [Idle EXCEPT !.pc = "lookup", !.process = p, !.key = k,
                                             !.payload = d, !.late = k \in answered]]
    /\ UNCHANGED <<cache, counter, history>>

(* An existing record: another payload or one in progress is refused, an    *)
(* answer is replayed.                                                     *)
Found(w, r) ==
    IF r.payload # req[w].payload \/ r.answer = NONE THEN Finish(w)
    ELSE req' = [req EXCEPT ![w].pc = "replay", ![w].answer = r.answer]

Lookup(w) ==
    LET r == memory[req[w].process][req[w].key] IN
    /\ At(w, "lookup")
    /\ IF r = NONE THEN Goto(w, "lookupRedis") ELSE Found(w, r)
    /\ UNCHANGED <<cache, counter, history>>

LookupRedis(w) ==
    LET p == req[w].process
        k == req[w].key
    IN
    /\ At(w, "lookupRedis")
    /\ IF redis[k] = NONE THEN Goto(w, "claim") ELSE Found(w, redis[k])
    /\ memory' \in {memory, [memory EXCEPT ![p][k] = redis[k]]}
    /\ UNCHANGED <<redis, counter, history>>

(* cache.set of the processing record: memory at once, Redis when it        *)
(* answers; next() after both.                                             *)
Claim(w) ==
    /\ At(w, "claim")
    /\ memory' = [memory EXCEPT ![req[w].process][req[w].key] = Processing(w)]
    /\ Goto(w, "claimRedis")
    /\ UNCHANGED <<redis, counter, history>>

(* Mutant: the claim stays in the process. *)
ClaimInMemory(w) ==
    /\ At(w, "claimRedis")
    /\ req' = [req EXCEPT ![w].pc = "throttle", ![w].wrapped = TRUE, ![w].claimed = TRUE]
    /\ UNCHANGED <<cache, counter, history>>

ClaimRedis(w) ==
    /\ At(w, "claimRedis")
    /\ redis' = [redis EXCEPT ![req[w].key] = Processing(w)]
    /\ req' = [req EXCEPT ![w].pc = "throttle", ![w].wrapped = TRUE, ![w].claimed = TRUE]
    /\ UNCHANGED <<memory, counter, history>>

Replay(w) ==
    /\ At(w, "replay")
    /\ Finish(w)
    /\ UNCHANGED <<cache, counter, history>>

-----------------------------------------------------------------------------
Verdict(hit) == IF hit > Limit THEN "refused" ELSE "handle"

(* Mutant: only the first hit gives the counter its expiry. *)
IncrFirstExpires(w) ==
    LET hit == IF hits < MaxHits THEN hits + 1 ELSE MaxHits IN
    /\ At(w, "throttle")
    /\ hits' = hit
    /\ IF hit = 1 THEN req' = [req EXCEPT ![w].pc = "pexpire", ![w].hit = hit]
                  ELSE Goto(w, Verdict(hit))
    /\ UNCHANGED <<expiring, cache, history>>

(* increment: INCR and PTTL in one MULTI, then PEXPIRE when the counter is  *)
(* new or has no expiry.                                                   *)
Incr(w) ==
    LET hit == IF hits < MaxHits THEN hits + 1 ELSE MaxHits IN
    /\ At(w, "throttle")
    /\ hits' = hit
    /\ IF hit = 1 \/ ~expiring THEN req' = [req EXCEPT ![w].pc = "pexpire", ![w].hit = hit]
                               ELSE Goto(w, Verdict(hit))
    /\ UNCHANGED <<expiring, cache, history>>

Pexpire(w) ==
    /\ At(w, "pexpire")
    /\ expiring' = (hits > 0)
    /\ req' = [req EXCEPT ![w].pc = Verdict(req[w].hit), ![w].hit = 0]
    /\ UNCHANGED <<hits, cache, history>>

-----------------------------------------------------------------------------
Completed(w) == [payload |-> req[w].payload, answer |-> req[w].payload]

(* Mutant: the answer is written into the record found there. *)
RespondMerges(w) ==
    LET p == req[w].process
        k == req[w].key
    IN
    /\ answered' = IF req[w].claimed THEN answered \cup {k} ELSE answered
    /\ IF req[w].wrapped
       THEN /\ memory' = [memory EXCEPT ![p][k] =
                             IF @ = NONE THEN Completed(w) ELSE [@ EXCEPT !.answer = req[w].payload]]
            /\ req' = [req EXCEPT ![w] = [Idle EXCEPT !.pc = "persist", !.process = p,
                                             !.key = k, !.payload = req[w].payload]]
       ELSE memory' = memory /\ Finish(w)
    /\ UNCHANGED <<redis, counter, lost>>

(* res.json: the answer is sent while the completed record is on its way,   *)
(* whatever the answer is.                                                 *)
Respond(w) ==
    LET p == req[w].process
        k == req[w].key
    IN
    /\ answered' = IF req[w].claimed THEN answered \cup {k} ELSE answered
    /\ IF req[w].wrapped
       THEN /\ memory' = [memory EXCEPT ![p][k] = Completed(w)]
            /\ req' = [req EXCEPT ![w] = [Idle EXCEPT !.pc = "persist", !.process = p,
                                             !.key = k, !.payload = req[w].payload]]
       ELSE memory' = memory /\ Finish(w)
    /\ UNCHANGED <<redis, counter, lost>>

(* The other guards and the handler: what it answers, an error, or the 408  *)
(* of the timeout interceptor, after which it goes on unheard.             *)
Handle(w) == At(w, "handle") /\ Respond(w)

(* Mutant: a refusal does not complete the record. *)
RefusedUnrecorded(w) ==
    /\ At(w, "refused")
    /\ Finish(w)
    /\ UNCHANGED <<cache, counter, history>>

(* 429: the middleware has claimed the key before the guard refuses. *)
Refused(w) == At(w, "refused") /\ Respond(w)

Persist(w) ==
    /\ At(w, "persist")
    /\ redis' = [redis EXCEPT ![req[w].key] = Completed(w)]
    /\ Finish(w)
    /\ UNCHANGED <<memory, counter, history>>

-----------------------------------------------------------------------------
(* Redis fails: the middleware goes on without, the rate limit lets pass.  *)
Loses(w) == lost' = IF req[w].key = NONE THEN lost ELSE lost \cup {req[w].key}

LookupFails(w) ==
    /\ At(w, "lookupRedis")
    /\ \E pc \in {"claim", "throttle"} :
          req' = [req EXCEPT ![w].pc = pc, ![w].blind = TRUE]
    /\ UNCHANGED cache

ClaimFails(w) ==
    /\ At(w, "claimRedis")
    /\ \E wrapped \in BOOLEAN :
          req' = [req EXCEPT ![w].pc = "throttle", ![w].wrapped = wrapped]
    /\ UNCHANGED cache

ThrottleFails(w) ==
    /\ req[w].pc \in {"throttle", "pexpire"}
    /\ req' = [req EXCEPT ![w].pc = "handle", ![w].hit = 0]
    /\ UNCHANGED cache

PersistFails(w) ==
    /\ At(w, "persist")
    /\ Finish(w)
    /\ UNCHANGED cache

Fault(w) ==
    /\ "fault" \in Calls
    /\ LookupFails(w) \/ ClaimFails(w) \/ ThrottleFails(w) \/ PersistFails(w)
    /\ Loses(w)
    /\ UNCHANGED <<counter, answered>>

(* A process dies with its memory and its requests. *)
Crash(p) ==
    /\ "crash" \in Calls
    /\ memory' = [memory EXCEPT ![p] = [k \in Keys |-> NONE]]
    /\ req' = [w \in Workers |-> IF req[w].process = p THEN Idle ELSE req[w]]
    /\ lost' = lost \cup {k \in Keys : \E w \in InFlight(k) : req[w].process = p}
    /\ UNCHANGED <<redis, counter, answered>>

(* Memory is small; a record lives a day, a request half a minute; the      *)
(* counter a minute.                                                       *)
Evict(p, k) ==
    /\ memory[p][k] # NONE
    /\ memory' = [memory EXCEPT ![p][k] = NONE]
    /\ UNCHANGED <<redis, counter, req, history>>

ExpireRecord(k) ==
    /\ redis[k] # NONE /\ InFlight(k) = {}
    /\ redis' = [redis EXCEPT ![k] = NONE]
    /\ answered' = answered \ {k}
    /\ UNCHANGED <<memory, counter, req, lost>>

ExpireCounter ==
    /\ expiring
    /\ hits' = 0 /\ expiring' = FALSE
    /\ UNCHANGED <<cache, req, history>>

-----------------------------------------------------------------------------
Continue(w) ==
    \/ Lookup(w) \/ LookupRedis(w) \/ Claim(w) \/ ClaimRedis(w) \/ Replay(w)
    \/ Incr(w) \/ Pexpire(w)
    \/ Handle(w) \/ Refused(w) \/ Persist(w)

Next ==
    \/ \E w \in Workers :
          \/ \E p \in Processes :
                ArrivePlain(w, p) \/ \E k \in Keys, d \in Payloads : Arrive(w, p, k, d)
          \/ Continue(w) \/ Fault(w)
    \/ \E p \in Processes : Crash(p) \/ \E k \in Keys : Evict(p, k)
    \/ \E k \in Keys : ExpireRecord(k)
    \/ ExpireCounter

Spec == Init /\ [][Next]_vars

-----------------------------------------------------------------------------
(* Properties.                                                             *)

TypeOK ==
    /\ memory \in [Processes -> [Keys -> {NONE} \cup Record]]
    /\ redis \in [Keys -> {NONE} \cup Record]
    /\ hits \in 0..MaxHits /\ expiring \in BOOLEAN
    /\ req \in [Workers -> Request]
    /\ answered \subseteq Keys /\ lost \subseteq Keys

(* A replay repeats an answer that was given to the same payload, however   *)
(* requests with the key raced, in whatever tier the record was found.     *)
ReplayIsOwnAnswer ==
    \A w \in Workers : At(w, "replay") => req[w].answer = req[w].payload

(* Once a claimed key has been answered, be it with a timeout, no request   *)
(* that comes later is executed, at any process, unless it cannot reach     *)
(* Redis; until the record expires.                                        *)
AnsweredNotRepeated ==
    \A w \in Workers : req[w].pc \in {"claim", "claimRedis", "handle"} /\ req[w].late
        => req[w].blind

(* A key stays in progress only if a command or a process failed: without,  *)
(* when nobody works on it its record in Redis has its answer.             *)
StuckByFaultOnly ==
    \A k \in Keys : redis[k] # NONE /\ InFlight(k) = {} /\ k \notin lost
        => redis[k].answer # NONE

(* A client is refused only by a counter that will expire (or just has),    *)
(* even if the process that was to set the expiry died.                    *)
RefusedHasExpiry ==
    [][\A w \in Workers : req'[w].pc = "refused" /\ ~At(w, "refused")
           => expiring' \/ hits' = 0]_vars
=============================================================================
