-------------------------- MODULE RequestGateProofs --------------------------
(***************************************************************************)
(* Theorems about RequestGate for every number of requests, processes,     *)
(* keys and payloads, every limit, and every choice of failures.           *)
(***************************************************************************)
EXTENDS RequestGate, TLAPS

-----------------------------------------------------------------------------
(* The inductive invariant.                                                *)

(* The statements of the middleware, which need a key.                     *)
Keyed == {"lookup", "lookupRedis", "claim", "claimRedis", "persist", "replay"}

Assigned(r) ==
    /\ r.pc = "idle" => r.key = NONE
    /\ r.pc # "idle" => r.process \in Processes
    /\ r.pc \in Keyed \/ r.wrapped \/ r.claimed \/ r.late => r.key \in Keys
    /\ r.key \in Keys => r.payload \in Payloads
    /\ r.pc = "replay" => r.answer = r.payload

(* A record has the answer of its own payload or none.                     *)
Own(c) == c # NONE => c.answer \in {NONE, c.payload}

(* A claim in Redis, and the record of a key answered before the request,  *)
(* outlive the request; only one that did not reach Redis goes on.         *)
Executing == {"claim", "claimRedis", "throttle", "pexpire", "handle"}

Known(r, records) ==
    /\ r.claimed \/ r.late => records[r.key] # NONE
    /\ r.pc \in Executing /\ r.late => r.blind

(* The request that will complete the record of its key.                   *)
Attends(r) ==
    \/ r.pc = "persist"
    \/ r.pc \in {"throttle", "pexpire", "handle", "refused"} /\ r.wrapped

Open(c) == c # NONE /\ c.answer = NONE

Attended ==
    \A k \in Keys : Open(redis[k]) /\ k \notin lost
        => \E w \in Workers : req[w].key = k /\ Attends(req[w])

GInv ==
    /\ TypeOK
    /\ \A w \in Workers : Assigned(req[w]) /\ Known(req[w], redis)
    /\ \A p \in Processes, k \in Keys : Own(memory[p][k])
    /\ \A k \in Keys : Own(redis[k])
    /\ \A k \in answered : redis[k] # NONE
    /\ Attended

LEMMA IdleOK ==
  /\ Idle \in Request
  /\ Assigned(Idle)
  /\ \A records : Known(Idle, records)
  /\ ~Attends(Idle)
<1>1. Idle \in Request
  BY HitsAssumption DEF Idle, Request, PC
<1>2. QED
  BY <1>1, NoneAssumption DEF Idle, Assigned, Keyed, Known, Executing, Attends

LEMMA InitGInv == Init => GInv
<1> SUFFICES ASSUME Init
             PROVE  GInv
  OBVIOUS
<1>1. TypeOK
  <2>1. 0 \in 0..MaxHits
    BY HitsAssumption
  <2>2. [k \in Keys |-> NONE] \in [Keys -> {NONE} \cup Record]
    OBVIOUS
  <2>3. QED
    BY <2>1, <2>2, IdleOK DEF Init, TypeOK
<1>2. QED
  BY <1>1, IdleOK DEF Init, GInv, Own, Open, Attended

-----------------------------------------------------------------------------
(* A step of one request that leaves it with the locals r: the records it  *)
(* found stay, and what it attended to is complete, lost, or attended to   *)
(* still.                                                                  *)
LEMMA RequestStep ==
  ASSUME GInv, NEW w \in Workers, NEW r \in Request, Assigned(r), Known(r, redis'),
         req' = [req EXCEPT ![w] = r],
         memory' \in [Processes -> [Keys -> {NONE} \cup Record]],
         \A p \in Processes, k \in Keys : Own(memory'[p][k]),
         redis' \in [Keys -> {NONE} \cup Record],
         \A k \in Keys : Own(redis'[k]),
         \A k \in Keys : redis[k] # NONE => redis'[k] # NONE,
         hits' \in 0..MaxHits, expiring' \in BOOLEAN,
         answered' \subseteq Keys,
         \A k \in answered' : redis'[k] # NONE,
         lost' \subseteq Keys, lost \subseteq lost',
         \A k \in Keys : Open(redis'[k]) /\ k \notin lost'
             => Open(redis[k]) \/ (k = r.key /\ Attends(r)),
         Attends(req[w]) /\ req[w].key \in Keys
             => \/ req[w].key \in lost'
                \/ ~Open(redis'[req[w].key])
                \/ req[w].key = r.key /\ Attends(r)
  PROVE  GInv'
<1>1. TypeOK'
  BY DEF GInv, TypeOK
<1>2. ASSUME NEW u \in Workers
      PROVE  (Assigned(req[u]) /\ Known(req[u], redis))'
  <2>1. CASE u = w
    BY <2>1 DEF GInv, TypeOK
  <2>2. CASE u # w
    <3>1. req'[u] = req[u] /\ Assigned(req[u]) /\ Known(req[u], redis)
      BY <2>2 DEF GInv, TypeOK
    <3>2. Known(req[u], redis')
      BY <3>1 DEF Known, Assigned
    <3>3. QED
      BY <3>1, <3>2
  <2>3. QED
    BY <2>1, <2>2
<1>3. Attended'
  <2> SUFFICES ASSUME NEW k \in Keys, Open(redis'[k]), k \notin lost'
               PROVE  \E v \in Workers : req'[v].key = k /\ Attends(req'[v])
    BY DEF Attended
  <2>0. req'[w] = r /\ \A v \in Workers : v # w => req'[v] = req[v]
    BY DEF GInv, TypeOK
  <2>1. CASE k = r.key /\ Attends(r)
    BY <2>0, <2>1
  <2>2. CASE ~(k = r.key /\ Attends(r))
    <3>1. PICK v \in Workers : req[v].key = k /\ Attends(req[v])
      BY <2>2 DEF GInv, Attended
    <3>2. v # w
      BY <2>2, <3>1
    <3>3. QED
      BY <2>0, <3>1, <3>2
  <2>3. QED
    BY <2>1, <2>2
<1>4. QED
  BY <1>1, <1>2, <1>3 DEF GInv

(* A request that only goes on.                                            *)
LEMMA GoesOn ==
  ASSUME GInv, NEW w \in Workers, NEW r \in Request, Assigned(r), Known(r, redis),
         req' = [req EXCEPT ![w] = r],
         memory' = memory, redis' = redis, answered' = answered,
         lost' \subseteq Keys, lost \subseteq lost',
         hits' \in 0..MaxHits, expiring' \in BOOLEAN,
         Attends(req[w]) /\ req[w].key \in Keys
             => req[w].key \in lost' \/ (req[w].key = r.key /\ Attends(r))
  PROVE  GInv'
<1>1. /\ memory' \in [Processes -> [Keys -> {NONE} \cup Record]]
      /\ \A p \in Processes, k \in Keys : Own(memory'[p][k])
      /\ redis' \in [Keys -> {NONE} \cup Record]
      /\ \A k \in Keys : Own(redis'[k])
      /\ answered' \subseteq Keys
      /\ \A k \in answered' : redis'[k] # NONE
  BY DEF GInv, TypeOK
<1>2. QED
  BY <1>1, RequestStep

LEMMA Locals ==
  ASSUME GInv, NEW w \in Workers
  PROVE  req[w] \in Request /\ Assigned(req[w]) /\ Known(req[w], redis)
  BY DEF GInv, TypeOK

(* A claim or an answer written into a tier leaves it consistent.          *)
LEMMA RecordOK ==
  ASSUME GInv, NEW w \in Workers, req[w].key \in Keys
  PROVE  /\ Processing(w) \in Record /\ Own(Processing(w)) /\ Processing(w) # NONE
         /\ Completed(w) \in Record /\ Own(Completed(w)) /\ Completed(w) # NONE
         /\ ~Open(Completed(w))
<1>1. req[w].payload \in Payloads
  BY Locals DEF Assigned
<1>2. req[w].payload # NONE
  BY <1>1, NoneAssumption
<1>3. Processing(w) \in Record /\ Completed(w) \in Record
  BY <1>1 DEF Processing, Completed, Record
<1>4. QED
  BY <1>1, <1>2, <1>3, NoneAssumption DEF Processing, Completed, Own, Open

-----------------------------------------------------------------------------
(* The middleware before the handler.                                      *)

LEMMA ArrivePlainGInv ==
  ASSUME GInv, NEW w \in Workers, NEW p \in Processes, ArrivePlain(w, p)
  PROVE  GInv'
<1> DEFINE r == [Idle EXCEPT !.pc = "throttle", !.process = p]
<1>1. r \in Request
  BY IdleOK DEF Idle, Request, PC
<1>2. Assigned(r) /\ Known(r, redis)
  BY NoneAssumption DEF Assigned, Keyed, Known, Idle
<1>3. ~Attends(req[w])
  BY DEF ArrivePlain, At, Attends
<1>4. /\ req' = [req EXCEPT ![w] = r]
      /\ memory' = memory /\ redis' = redis /\ answered' = answered /\ lost' = lost
      /\ hits' = hits /\ expiring' = expiring
  BY DEF ArrivePlain, cache, counter, history
<1>5. QED
  BY <1>1, <1>2, <1>3, <1>4, GoesOn DEF GInv, TypeOK

LEMMA ArriveGInv ==
  ASSUME GInv, NEW w \in Workers, NEW p \in Processes, NEW k \in Keys, NEW d \in Payloads,
         Arrive(w, p, k, d)
  PROVE  GInv'
<1> DEFINE r == [Idle EXCEPT !.pc = "lookup", !.process = p, !.key = k, !.payload = d,
                             !.late = k \in answered]
<1>1. r \in Request
  <2>1. (k \in answered) \in BOOLEAN
    OBVIOUS
  <2>2. ASSUME NEW b \in BOOLEAN
        PROVE  [Idle EXCEPT !.pc = "lookup", !.process = p, !.key = k, !.payload = d,
                            !.late = b] \in Request
    BY IdleOK DEF Idle, Request, PC
  <2>3. QED
    BY <2>1, <2>2
<1>2. Assigned(r)
  BY DEF Assigned, Keyed, Idle
<1>3. Known(r, redis)
  BY DEF Known, Executing, Idle, GInv
<1>4. ~Attends(req[w])
  BY DEF Arrive, At, Attends
<1>5. /\ req' = [req EXCEPT ![w] = r]
      /\ memory' = memory /\ redis' = redis /\ answered' = answered /\ lost' = lost
      /\ hits' = hits /\ expiring' = expiring
  BY DEF Arrive, cache, counter, history
<1>6. QED
  BY <1>1, <1>2, <1>3, <1>4, <1>5, GoesOn DEF GInv, TypeOK

(* What a lookup does with the record c it found.                          *)
LEMMA FoundOK ==
  ASSUME GInv, NEW w \in Workers, NEW c \in Record, Own(c), c # NONE,
         req[w].pc \in {"lookup", "lookupRedis"}, Found(w, c)
  PROVE  \E r \in Request : /\ Assigned(r) /\ Known(r, redis)
                            /\ req' = [req EXCEPT ![w] = r]
<1>1. CASE c.payload # req[w].payload \/ c.answer = NONE
  BY <1>1, IdleOK DEF Found, Finish
<1>2. CASE ~(c.payload # req[w].payload \/ c.answer = NONE)
  <2> DEFINE r == [req[w] EXCEPT !.pc = "replay", !.answer = c.answer]
  <2>1. r \in Request
    BY Locals DEF Request, PC, Record
  <2>2. c.answer = req[w].payload
    BY <1>2 DEF Own
  <2>3. Assigned(r) /\ Known(r, redis)
    BY <2>1, <2>2, Locals DEF Assigned, Keyed, Known, Executing, Request
  <2>4. req' = [req EXCEPT ![w] = r]
    BY <1>2 DEF Found, GInv, TypeOK
  <2>5. QED
    BY <2>1, <2>3, <2>4
<1>3. QED
  BY <1>1, <1>2

LEMMA LookupGInv ==
  ASSUME GInv, NEW w \in Workers, Lookup(w)
  PROVE  GInv'
<1> DEFINE c == memory[req[w].process][req[w].key]
           s == [req[w] EXCEPT !.pc = "lookupRedis"]
<1>1. req[w].pc = "lookup" /\ req[w].process \in Processes /\ req[w].key \in Keys
  BY Locals DEF Lookup, At, Assigned, Keyed
<1>2. ~Attends(req[w])
  BY <1>1 DEF Attends
<1>3. \E r \in Request : Assigned(r) /\ Known(r, redis) /\ req' = [req EXCEPT ![w] = r]
  <2>1. CASE c = NONE
    <3>1. s \in Request /\ Assigned(s) /\ Known(s, redis)
      BY <1>1, Locals DEF Request, PC, Assigned, Keyed, Known, Executing
    <3>2. req' = [req EXCEPT ![w] = s]
      BY <2>1 DEF Lookup, Goto, GInv, TypeOK
    <3>3. QED
      BY <3>1, <3>2
  <2>2. CASE c # NONE
    <3>1. c \in Record /\ Own(c) /\ Found(w, c)
      BY <1>1, <2>2 DEF GInv, TypeOK, Lookup
    <3>2. QED
      BY <1>1, <2>2, <3>1, FoundOK
  <2>3. QED
    BY <2>1, <2>2
<1>4. QED
  BY <1>2, <1>3, GoesOn DEF Lookup, cache, counter, history, GInv, TypeOK

LEMMA LookupRedisGInv ==
  ASSUME GInv, NEW w \in Workers, LookupRedis(w)
  PROVE  GInv'
<1> DEFINE k == req[w].key
           p == req[w].process
           s == [req[w] EXCEPT !.pc = "claim"]
<1>1. req[w].pc = "lookupRedis" /\ p \in Processes /\ k \in Keys
  BY Locals DEF LookupRedis, At, Assigned, Keyed
<1>2. ~Attends(req[w])
  BY <1>1 DEF Attends
<1>3. redis[k] \in {NONE} \cup Record /\ Own(redis[k])
  BY <1>1 DEF GInv, TypeOK
<1>4. \E r \in Request : Assigned(r) /\ Known(r, redis) /\ req' = [req EXCEPT ![w] = r]
  <2>1. CASE redis[k] = NONE
    <3>1. s \in Request /\ Assigned(s)
      BY <1>1, Locals DEF Request, PC, Assigned, Keyed
    <3>2. ~req[w].late /\ ~req[w].claimed
      BY <2>1, Locals DEF Known
    <3>3. Known(s, redis)
      BY <3>2, Locals DEF Known, Request
    <3>4. req' = [req EXCEPT ![w] = s]
      BY <2>1 DEF LookupRedis, Goto, GInv, TypeOK
    <3>5. QED
      BY <3>1, <3>3, <3>4
  <2>2. CASE redis[k] # NONE
    BY <1>1, <1>3, <2>2, FoundOK DEF LookupRedis
  <2>3. QED
    BY <2>1, <2>2
<1>5. /\ memory' \in [Processes -> [Keys -> {NONE} \cup Record]]
      /\ \A q \in Processes, j \in Keys : Own(memory'[q][j])
  <2>1. memory' = memory \/ memory' = [memory EXCEPT ![p][k] = redis[k]]
    BY DEF LookupRedis
  <2>2. QED
    BY <1>1, <1>3, <2>1 DEF GInv, TypeOK
<1>6. /\ redis' = redis /\ answered' = answered /\ lost' = lost
      /\ hits' = hits /\ expiring' = expiring
  BY DEF LookupRedis, counter, history
<1>7. QED
  BY <1>2, <1>4, <1>5, <1>6, RequestStep DEF GInv, TypeOK

LEMMA ClaimGInv ==
  ASSUME GInv, NEW w \in Workers, Claim(w)
  PROVE  GInv'
<1> DEFINE k == req[w].key
           p == req[w].process
           r == [req[w] EXCEPT !.pc = "claimRedis"]
<1>1. req[w].pc = "claim" /\ p \in Processes /\ k \in Keys
  BY Locals DEF Claim, At, Assigned, Keyed
<1>2. ~Attends(req[w])
  BY <1>1 DEF Attends
<1>3. r \in Request /\ Assigned(r)
  BY <1>1, Locals DEF Request, PC, Assigned, Keyed
<1>4. Known(r, redis)
  BY <1>1, Locals DEF Known, Executing, Request
<1>5. req' = [req EXCEPT ![w] = r]
  BY DEF Claim, Goto, GInv, TypeOK
<1>6. /\ memory' \in [Processes -> [Keys -> {NONE} \cup Record]]
      /\ \A q \in Processes, j \in Keys : Own(memory'[q][j])
  BY <1>1, RecordOK DEF Claim, GInv, TypeOK
<1>7. /\ redis' = redis /\ answered' = answered /\ lost' = lost
      /\ hits' = hits /\ expiring' = expiring
  BY DEF Claim, counter, history
<1>8. QED
  BY <1>2, <1>3, <1>4, <1>5, <1>6, <1>7, RequestStep DEF GInv, TypeOK

LEMMA ClaimRedisGInv ==
  ASSUME GInv, NEW w \in Workers, ClaimRedis(w)
  PROVE  GInv'
<1> DEFINE k == req[w].key
           r == [req[w] EXCEPT !.pc = "throttle", !.wrapped = TRUE, !.claimed = TRUE]
<1>1. req[w].pc = "claimRedis" /\ k \in Keys
  BY Locals DEF ClaimRedis, At, Assigned, Keyed
<1>2. ~Attends(req[w]) /\ Attends(r) /\ r.key = k
  BY <1>1, Locals DEF Attends, Request
<1>3. r \in Request /\ Assigned(r)
  BY <1>1, Locals DEF Request, PC, Assigned, Keyed
<1>4. req' = [req EXCEPT ![w] = r]
  BY DEF ClaimRedis, GInv, TypeOK
<1>5. redis' = [redis EXCEPT ![k] = Processing(w)]
  BY DEF ClaimRedis
<1>6. /\ redis' \in [Keys -> {NONE} \cup Record] /\ redis'[k] # NONE
      /\ \A j \in Keys : Own(redis'[j])
      /\ \A j \in Keys : redis[j] # NONE => redis'[j] # NONE
      /\ \A j \in Keys : j # k => redis'[j] = redis[j]
  BY <1>1, <1>5, RecordOK DEF GInv, TypeOK
<1>7. Known(r, redis')
  BY <1>1, <1>6, Locals DEF Known, Executing, Request
<1>8. /\ memory' = memory /\ answered' = answered /\ lost' = lost
      /\ hits' = hits /\ expiring' = expiring
  BY DEF ClaimRedis, counter, history
<1>9. \A j \in answered : redis'[j] # NONE
  BY <1>6 DEF GInv, TypeOK
<1>10. QED
  BY <1>2, <1>3, <1>4, <1>6, <1>7, <1>8, <1>9, RequestStep DEF GInv, TypeOK

LEMMA ReplayGInv ==
  ASSUME GInv, NEW w \in Workers, Replay(w)
  PROVE  GInv'
<1>1. ~Attends(req[w])
  BY DEF Replay, At, Attends
<1>2. QED
  BY <1>1, IdleOK, GoesOn DEF Replay, Finish, cache, counter, history, GInv, TypeOK

-----------------------------------------------------------------------------
(* The rate limit.                                                         *)

LEMMA VerdictOK ==
  ASSUME NEW n \in 0..MaxHits
  PROVE  Verdict(n) \in {"handle", "refused"}
  BY DEF Verdict

(* From the throttler to the guards after it.                              *)
LEMMA PastThrottle ==
  ASSUME GInv, NEW w \in Workers, req[w].pc \in {"throttle", "pexpire"},
         NEW n \in 0..MaxHits, NEW q \in {"pexpire", "handle", "refused"},
         req' = [req EXCEPT ![w] = [req[w] EXCEPT !.pc = q, !.hit = n]],
         memory' = memory, redis' = redis, answered' = answered,
         lost' \subseteq Keys, lost \subseteq lost',
         hits' \in 0..MaxHits, expiring' \in BOOLEAN
  PROVE  GInv'
<1> DEFINE r == [req[w] EXCEPT !.pc = q, !.hit = n]
<1>1. r \in Request
  BY Locals DEF Request, PC
<1>2. Assigned(r) /\ Known(r, redis)
  BY <1>1, Locals DEF Assigned, Keyed, Known, Executing, Request
<1>3. Attends(req[w]) => r.key = req[w].key /\ Attends(r)
  BY Locals DEF Attends, Request
<1>4. QED
  BY <1>1, <1>2, <1>3, GoesOn

LEMMA IncrGInv ==
  ASSUME GInv, NEW w \in Workers, Incr(w)
  PROVE  GInv'
<1> DEFINE n == IF hits < MaxHits THEN hits + 1 ELSE MaxHits
<1>1. n \in 0..MaxHits
  BY HitsAssumption DEF GInv, TypeOK
<1>2. req[w] \in Request /\ req[w].pc = "throttle" /\ req[w].hit \in 0..MaxHits
  BY Locals DEF Incr, At, Request
<1>3. /\ memory' = memory /\ redis' = redis /\ answered' = answered /\ lost' = lost
      /\ hits' = n /\ expiring' = expiring
  BY DEF Incr, cache, history
<1>4. CASE n = 1 \/ ~expiring
  <2>1. req' = [req EXCEPT ![w] = [req[w] EXCEPT !.pc = "pexpire", !.hit = n]]
    BY <1>4 DEF Incr, GInv, TypeOK
  <2>2. QED
    BY <1>1, <1>2, <1>3, <2>1, PastThrottle DEF GInv, TypeOK
<1>5. CASE ~(n = 1 \/ ~expiring)
  <2>1. req' = [req EXCEPT ![w] = [req[w] EXCEPT !.pc = Verdict(n), !.hit = req[w].hit]]
    BY <1>2, <1>5 DEF Incr, Goto, GInv, TypeOK, Request
  <2>2. QED
    BY <1>1, <1>2, <1>3, <2>1, VerdictOK, PastThrottle DEF GInv, TypeOK
<1>6. QED
  BY <1>4, <1>5

LEMMA PexpireGInv ==
  ASSUME GInv, NEW w \in Workers, Pexpire(w)
  PROVE  GInv'
<1>1. req[w] \in Request /\ req[w].pc = "pexpire" /\ req[w].hit \in 0..MaxHits
  BY Locals DEF Pexpire, At, Request
<1>2. /\ memory' = memory /\ redis' = redis /\ answered' = answered /\ lost' = lost
      /\ hits' = hits
  BY DEF Pexpire, cache, history
<1>3. expiring' \in BOOLEAN
  <2>1. (hits > 0) \in BOOLEAN
    OBVIOUS
  <2>2. QED
    BY <2>1 DEF Pexpire
<1>4. req' = [req EXCEPT ![w] = [req[w] EXCEPT !.pc = Verdict(req[w].hit), !.hit = 0]]
  BY DEF Pexpire, GInv, TypeOK
<1>5. 0 \in 0..MaxHits
  BY HitsAssumption
<1>6. QED
  BY <1>1, <1>2, <1>3, <1>4, <1>5, VerdictOK, PastThrottle DEF GInv, TypeOK

-----------------------------------------------------------------------------
(* The answer.                                                             *)

LEMMA RespondGInv ==
  ASSUME GInv, NEW w \in Workers, req[w].pc \in {"handle", "refused"}, Respond(w)
  PROVE  GInv'
<1> DEFINE k == req[w].key
           p == req[w].process
           r == [Idle EXCEPT !.pc = "persist", !.process = p, !.key = k,
                             !.payload = req[w].payload]
<1>1. p \in Processes
  BY Locals DEF Assigned
<1>2. /\ redis' = redis /\ lost' = lost
      /\ hits' = hits /\ expiring' = expiring
  BY DEF Respond, counter
<1>3. answered' \subseteq Keys /\ \A j \in answered' : redis[j] # NONE
  <2>1. req[w].claimed => k \in Keys /\ redis[k] # NONE
    BY Locals DEF Assigned, Known
  <2>2. answered' = answered \/ (req[w].claimed /\ answered' = answered \cup {k})
    BY DEF Respond
  <2>3. QED
    BY <2>1, <2>2 DEF GInv, TypeOK
<1>4. CASE req[w].wrapped
  <2>1. k \in Keys /\ req[w].payload \in Payloads
    BY <1>4, Locals DEF Assigned
  <2>2. r \in Request
    BY <1>1, <2>1, IdleOK DEF Request, PC
  <2>3. Assigned(r) /\ Known(r, redis)
    BY <1>1, <2>1 DEF Assigned, Keyed, Known, Executing, Idle
  <2>4. Attends(r) /\ r.key = k
    BY DEF Attends, Idle
  <2>5. /\ memory' = [memory EXCEPT ![p][k] = Completed(w)]
        /\ req' = [req EXCEPT ![w] = r]
    BY <1>4 DEF Respond
  <2>6. /\ memory' \in [Processes -> [Keys -> {NONE} \cup Record]]
        /\ \A q \in Processes, j \in Keys : Own(memory'[q][j])
    BY <1>1, <2>1, <2>5, RecordOK DEF GInv, TypeOK
  <2>7. QED
    BY <1>2, <1>3, <2>2, <2>3, <2>4, <2>5, <2>6, RequestStep DEF GInv, TypeOK
<1>5. CASE ~req[w].wrapped
  <2>1. ~Attends(req[w])
    BY <1>5 DEF Attends
  <2>2. memory' = memory /\ req' = [req EXCEPT ![w] = Idle]
    BY <1>5 DEF Respond, Finish
  <2>3. Idle \in Request /\ Assigned(Idle) /\ Known(Idle, redis')
    BY IdleOK
  <2>4. QED
    BY <1>2, <1>3, <2>1, <2>2, <2>3, RequestStep DEF GInv, TypeOK
<1>6. QED
  BY <1>4, <1>5

LEMMA PersistGInv ==
  ASSUME GInv, NEW w \in Workers, Persist(w)
  PROVE  GInv'
<1> DEFINE k == req[w].key
<1>1. k \in Keys
  BY Locals DEF Persist, At, Assigned, Keyed
<1>2. redis' = [redis EXCEPT ![k] = Completed(w)] /\ req' = [req EXCEPT ![w] = Idle]
  BY DEF Persist, Finish
<1>3. /\ redis' \in [Keys -> {NONE} \cup Record]
      /\ redis'[k] # NONE /\ ~Open(redis'[k])
      /\ \A j \in Keys : Own(redis'[j])
      /\ \A j \in Keys : redis[j] # NONE => redis'[j] # NONE
      /\ \A j \in Keys : j # k => redis'[j] = redis[j]
  BY <1>1, <1>2, RecordOK DEF GInv, TypeOK
<1>4. /\ memory' = memory /\ answered' = answered /\ lost' = lost
      /\ hits' = hits /\ expiring' = expiring
  BY DEF Persist, counter, history
<1>5. \A j \in answered : redis'[j] # NONE
  BY <1>3 DEF GInv, TypeOK
<1>6. Idle \in Request /\ Assigned(Idle) /\ Known(Idle, redis')
  BY IdleOK
<1>7. QED
  BY <1>2, <1>3, <1>4, <1>5, <1>6, RequestStep DEF GInv, TypeOK

-----------------------------------------------------------------------------
(* Failures.                                                               *)

LEMMA FaultGInv ==
  ASSUME GInv, NEW w \in Workers, Fault(w)
  PROVE  GInv'
<1>1. /\ memory' = memory /\ redis' = redis /\ answered' = answered
      /\ hits' = hits /\ expiring' = expiring
  BY DEF Fault, LookupFails, ClaimFails, ThrottleFails, PersistFails, cache, counter
<1>2. lost' \subseteq Keys /\ lost \subseteq lost'
  <2>1. req[w].key \in {NONE} \cup Keys
    BY Locals DEF Request
  <2>2. QED
    BY <2>1 DEF Fault, Loses, GInv, TypeOK
<1>3. req[w].key \in Keys => req[w].key \in lost'
  BY NoneAssumption DEF Fault, Loses
<1>4. hits' \in 0..MaxHits /\ expiring' \in BOOLEAN
  BY <1>1 DEF GInv, TypeOK
<1>5. ASSUME NEW r \in Request, Assigned(r), Known(r, redis), req' = [req EXCEPT ![w] = r]
      PROVE  GInv'
  BY <1>1, <1>2, <1>3, <1>4, <1>5, GoesOn
<1>6. CASE LookupFails(w)
  <2>1. PICK q \in {"claim", "throttle"} :
           req' = [req EXCEPT ![w].pc = q, ![w].blind = TRUE]
    BY <1>6 DEF LookupFails
  <2> DEFINE r == [req[w] EXCEPT !.pc = q, !.blind = TRUE]
  <2>2. req' = [req EXCEPT ![w] = r]
    BY <2>1 DEF GInv, TypeOK
  <2>3. req[w].pc = "lookupRedis"
    BY <1>6 DEF LookupFails, At
  <2>4. r \in Request /\ Assigned(r) /\ Known(r, redis)
    BY <2>3, Locals DEF Request, PC, Assigned, Keyed, Known, Executing
  <2>5. QED
    BY <1>5, <2>2, <2>4
<1>7. CASE ClaimFails(w)
  <2>1. PICK b \in BOOLEAN :
           req' = [req EXCEPT ![w].pc = "throttle", ![w].wrapped = b]
    BY <1>7 DEF ClaimFails
  <2> DEFINE r == [req[w] EXCEPT !.pc = "throttle", !.wrapped = b]
  <2>2. req' = [req EXCEPT ![w] = r]
    BY <2>1 DEF GInv, TypeOK
  <2>3. req[w].pc = "claimRedis"
    BY <1>7 DEF ClaimFails, At
  <2>4. r \in Request /\ Assigned(r) /\ Known(r, redis)
    BY <2>3, Locals DEF Request, PC, Assigned, Keyed, Known, Executing
  <2>5. QED
    BY <1>5, <2>2, <2>4
<1>8. CASE ThrottleFails(w)
  <2> DEFINE r == [req[w] EXCEPT !.pc = "handle", !.hit = 0]
  <2>1. req[w].pc \in {"throttle", "pexpire"} /\ 0 \in 0..MaxHits
    BY <1>8, HitsAssumption DEF ThrottleFails
  <2>2. req' = [req EXCEPT ![w] = r]
    BY <1>8 DEF ThrottleFails, GInv, TypeOK
  <2>3. r \in Request /\ Assigned(r) /\ Known(r, redis)
    BY <2>1, Locals DEF Request, PC, Assigned, Keyed, Known, Executing
  <2>4. QED
    BY <1>5, <2>2, <2>3
<1>9. CASE PersistFails(w)
  BY <1>5, <1>9, IdleOK DEF PersistFails, Finish
<1>10. QED
  BY <1>6, <1>7, <1>8, <1>9 DEF Fault

LEMMA CrashGInv ==
  ASSUME GInv, NEW p \in Processes, Crash(p)
  PROVE  GInv'
<1>1. /\ memory' = [memory EXCEPT ![p] = [k \in Keys |-> NONE]]
      /\ req' = [w \in Workers |-> IF req[w].process = p THEN Idle ELSE req[w]]
      /\ lost' = lost \cup {k \in Keys : \E w \in InFlight(k) : req[w].process = p}
      /\ redis' = redis /\ answered' = answered
      /\ hits' = hits /\ expiring' = expiring
  BY DEF Crash, counter
<1>2. TypeOK'
  <2>1. [k \in Keys |-> NONE] \in [Keys -> {NONE} \cup Record]
    OBVIOUS
  <2>2. req' \in [Workers -> Request]
    BY <1>1, IdleOK DEF GInv, TypeOK
  <2>3. QED
    BY <1>1, <2>1, <2>2 DEF GInv, TypeOK
<1>3. \A w \in Workers : (Assigned(req[w]) /\ Known(req[w], redis))'
  <2> SUFFICES ASSUME NEW w \in Workers
               PROVE  Assigned(req'[w]) /\ Known(req'[w], redis')
    BY DEF Known, Assigned
  <2>1. req'[w] = Idle \/ req'[w] = req[w]
    BY <1>1
  <2>2. QED
    BY <1>1, <2>1, IdleOK, Locals
<1>4. \A q \in Processes, k \in Keys : Own(memory'[q][k])
  BY <1>1 DEF GInv, TypeOK, Own
<1>5. Attended'
  <2> SUFFICES ASSUME NEW k \in Keys, Open(redis[k]), k \notin lost'
               PROVE  \E w \in Workers : req'[w].key = k /\ Attends(req'[w])
    BY <1>1 DEF Attended
  <2>1. PICK w \in Workers : req[w].key = k /\ Attends(req[w])
    BY <1>1 DEF GInv, Attended
  <2>2. req[w].process # p
    BY <1>1, <2>1 DEF InFlight
  <2>3. req'[w] = req[w]
    BY <1>1, <2>2
  <2>4. QED
    BY <2>1, <2>3
<1>6. QED
  BY <1>1, <1>2, <1>3, <1>4, <1>5 DEF GInv

-----------------------------------------------------------------------------
(* Eviction and expiry.                                                    *)

LEMMA EvictGInv ==
  ASSUME GInv, NEW p \in Processes, NEW k \in Keys, Evict(p, k)
  PROVE  GInv'
<1>1. /\ memory' = [memory EXCEPT ![p][k] = NONE]
      /\ redis' = redis /\ answered' = answered /\ lost' = lost /\ req' = req
      /\ hits' = hits /\ expiring' = expiring
  BY DEF Evict, counter, history
<1>2. /\ memory' \in [Processes -> [Keys -> {NONE} \cup Record]]
      /\ \A q \in Processes, j \in Keys : Own(memory'[q][j])
  BY <1>1 DEF GInv, TypeOK, Own
<1>3. TypeOK'
  BY <1>1, <1>2 DEF GInv, TypeOK
<1>4. Attended'
  BY <1>1 DEF GInv, Attended
<1>5. QED
  BY <1>1, <1>2, <1>3, <1>4 DEF GInv, Known

LEMMA ExpireRecordGInv ==
  ASSUME GInv, NEW k \in Keys, ExpireRecord(k)
  PROVE  GInv'
<1>1. /\ redis' = [redis EXCEPT ![k] = NONE]
      /\ answered' = answered \ {k}
      /\ memory' = memory /\ lost' = lost /\ req' = req
      /\ hits' = hits /\ expiring' = expiring
      /\ \A w \in Workers : req[w].key # k
  BY DEF ExpireRecord, counter, InFlight
<1>2. TypeOK'
  BY <1>1 DEF GInv, TypeOK
<1>3. ASSUME NEW w \in Workers
      PROVE  Assigned(req[w]) /\ Known(req[w], redis')
  <2>1. Assigned(req[w]) /\ Known(req[w], redis) /\ req[w].key # k
    BY <1>1, Locals
  <2>2. redis'[req[w].key] = redis[req[w].key] \/ req[w].key \notin Keys
    BY <1>1, <2>1 DEF GInv, TypeOK
  <2>3. QED
    BY <2>1, <2>2 DEF Known, Assigned
<1>4. \A j \in Keys : redis'[j] = IF j = k THEN NONE ELSE redis[j]
  BY <1>1 DEF GInv, TypeOK
<1>5. (\A j \in Keys : Own(redis'[j])) /\ (\A j \in answered' : redis'[j] # NONE)
  BY <1>1, <1>4 DEF GInv, TypeOK, Own
<1>6. Attended'
  BY <1>1, <1>4 DEF GInv, Attended, Open
<1>7. QED
  BY <1>1, <1>2, <1>3, <1>5, <1>6 DEF GInv

LEMMA ExpireCounterGInv ==
  ASSUME GInv, ExpireCounter
  PROVE  GInv'
<1>1. /\ redis' = redis /\ answered' = answered /\ lost' = lost /\ req' = req
      /\ memory' = memory /\ hits' = 0 /\ expiring' = FALSE
  BY DEF ExpireCounter, cache, history
<1>2. TypeOK'
  <2>1. 0 \in 0..MaxHits
    BY HitsAssumption
  <2>2. hits' \in 0..MaxHits /\ expiring' \in BOOLEAN
    BY <1>1, <2>1
  <2>3. QED
    BY <1>1, <2>2 DEF GInv, TypeOK
<1>3. Attended'
  BY <1>1 DEF GInv, Attended
<1>4. QED
  BY <1>1, <1>2, <1>3 DEF GInv, Known

LEMMA StutterGInv ==
  ASSUME GInv, UNCHANGED vars
  PROVE  GInv'
<1>1. /\ redis' = redis /\ answered' = answered /\ lost' = lost /\ req' = req
      /\ memory' = memory /\ hits' = hits /\ expiring' = expiring
  BY DEF vars
<1>2. TypeOK' /\ Attended'
  BY <1>1 DEF GInv, TypeOK, Attended
<1>3. QED
  BY <1>1, <1>2 DEF GInv, Known

LEMMA NextGInv ==
  ASSUME GInv, [Next]_vars
  PROVE  GInv'
<1>1. ASSUME NEW w \in Workers, NEW p \in Processes, ArrivePlain(w, p)
      PROVE  GInv'
  BY <1>1, ArrivePlainGInv
<1>2. ASSUME NEW w \in Workers, NEW p \in Processes, NEW k \in Keys, NEW d \in Payloads,
             Arrive(w, p, k, d)
      PROVE  GInv'
  BY <1>2, ArriveGInv
<1>3. ASSUME NEW w \in Workers, Continue(w)
      PROVE  GInv'
  BY <1>3, LookupGInv, LookupRedisGInv, ClaimGInv, ClaimRedisGInv, ReplayGInv, IncrGInv,
     PexpireGInv, RespondGInv, PersistGInv DEF Continue, Handle, Refused, At
<1>4. ASSUME NEW w \in Workers, Fault(w)
      PROVE  GInv'
  BY <1>4, FaultGInv
<1>5. ASSUME NEW p \in Processes, Crash(p) \/ \E k \in Keys : Evict(p, k)
      PROVE  GInv'
  BY <1>5, CrashGInv, EvictGInv
<1>6. QED
  BY <1>1, <1>2, <1>3, <1>4, <1>5, ExpireRecordGInv, ExpireCounterGInv, StutterGInv
     DEF Next

LEMMA SpecGInv == Spec => []GInv
  BY InitGInv, NextGInv, PTL DEF Spec

-----------------------------------------------------------------------------
(* Every variable of the gate keeps its type, in every reachable state.    *)
THEOREM GateTypeCorrect == Spec => []TypeOK
<1>1. GInv => TypeOK
  BY DEF GInv
<1>2. QED
  BY <1>1, SpecGInv, PTL

(* Whatever the number of requests that race with one key, a replay        *)
(* repeats an answer given to its own payload: every record of either tier *)
(* has the answer of its payload or none.                                  *)
THEOREM ReplaysOwnAnswer == Spec => []ReplayIsOwnAnswer
<1>1. GInv => ReplayIsOwnAnswer
  BY DEF GInv, Assigned, ReplayIsOwnAnswer, At
<1>2. QED
  BY <1>1, SpecGInv, PTL

(* A request that comes after its claimed key was answered is executed     *)
(* only if its lookup could not reach Redis: the claim stays in Redis      *)
(* until it expires, whatever the processes forget.                        *)
THEOREM AnsweredOnce == Spec => []AnsweredNotRepeated
<1>1. GInv => AnsweredNotRepeated
  BY DEF GInv, Known, Executing, AnsweredNotRepeated
<1>2. QED
  BY <1>1, SpecGInv, PTL

(* Without a failure every claim has a request that will complete it, the  *)
(* refusals of the rate limit included.                                    *)
THEOREM OnlyFaultsStick == Spec => []StuckByFaultOnly
<1>1. GInv => StuckByFaultOnly
  BY DEF GInv, Attended, Open, StuckByFaultOnly, InFlight
<1>2. QED
  BY <1>1, SpecGInv, PTL

(* A request is refused only by a counter with an expiry: a client is      *)
(* never refused for ever, for every limit and number of instances.        *)
THEOREM RefusalsExpire == Spec => RefusedHasExpiry
<1> DEFINE Fresh == \A w \in Workers : req'[w].pc = "refused" /\ ~At(w, "refused")
                        => expiring' \/ hits' = 0
<1>1. ASSUME TypeOK, [Next]_vars
      PROVE  Fresh
  <2> SUFFICES ASSUME NEW w \in Workers, req'[w].pc = "refused", req[w].pc # "refused"
               PROVE  expiring' \/ hits' = 0
    BY DEF At
  <2>0. \A u \in Workers : req[u] \in Request
    BY <1>1 DEF TypeOK
  <2>1. ASSUME NEW u \in Workers, Incr(u)
        PROVE  expiring' \/ hits' = 0
    <3>1. u = w
      BY <1>1, <2>1 DEF Incr, Goto, TypeOK
    <3> DEFINE n == IF hits < MaxHits THEN hits + 1 ELSE MaxHits
    <3>2. ~(n = 1 \/ ~expiring)
      <4>1. SUFFICES ASSUME n = 1 \/ ~expiring
                     PROVE  FALSE
        OBVIOUS
      <4>2. req' = [req EXCEPT ![u].pc = "pexpire", ![u].hit = n]
        BY <2>1, <4>1 DEF Incr
      <4>3. req'[u].pc = "pexpire"
        BY <1>1, <2>0, <4>2 DEF TypeOK, Request
      <4>4. QED
        BY <3>1, <4>3
    <3>3. expiring' = expiring
      BY <2>1 DEF Incr
    <3>4. QED
      BY <3>2, <3>3
  <2>2. ASSUME NEW u \in Workers, Pexpire(u)
        PROVE  expiring' \/ hits' = 0
    <3>1. expiring' = (hits > 0) /\ hits' = hits
      BY <2>2 DEF Pexpire
    <3>2. hits > 0 \/ hits = 0
      BY <1>1, HitsAssumption DEF TypeOK
    <3>3. QED
      BY <3>1, <3>2
  <2>3. ASSUME NEW u \in Workers, NEW p \in Processes, ArrivePlain(u, p)
        PROVE  FALSE
    BY <1>1, <2>3 DEF ArrivePlain, TypeOK, Idle
  <2>4. ASSUME NEW u \in Workers, NEW p \in Processes, NEW k \in Keys, NEW d \in Payloads,
               Arrive(u, p, k, d)
        PROVE  FALSE
    BY <1>1, <2>4 DEF Arrive, TypeOK, Idle
  <2>5. ASSUME NEW u \in Workers,
               Lookup(u) \/ LookupRedis(u) \/ Claim(u) \/ ClaimRedis(u) \/ Replay(u)
        PROVE  FALSE
    <3>1. ASSUME NEW c, Found(u, c)
          PROVE  FALSE
      BY <1>1, <2>0, <3>1 DEF Found, Finish, Idle, TypeOK, Request
    <3>2. ASSUME NEW q \in {"lookupRedis", "claim", "claimRedis"}, Goto(u, q)
          PROVE  FALSE
      BY <1>1, <2>0, <3>2 DEF Goto, TypeOK, Request
    <3>3. CASE Lookup(u) \/ LookupRedis(u) \/ Claim(u)
      BY <3>1, <3>2, <3>3 DEF Lookup, LookupRedis, Claim
    <3>4. CASE ClaimRedis(u) \/ Replay(u)
      BY <1>1, <2>0, <3>4 DEF ClaimRedis, Replay, Finish, Idle, TypeOK, Request
    <3>5. QED
      BY <2>5, <3>3, <3>4
  <2>6. ASSUME NEW u \in Workers, Handle(u) \/ Refused(u) \/ Persist(u)
        PROVE  FALSE
    <3>1. CASE Respond(u)
      <4>1. PICK r : r.pc # "refused" /\ req' = [req EXCEPT ![u] = r]
        <5>1. CASE req[u].wrapped
          BY <3>1, <5>1 DEF Respond, Idle
        <5>2. CASE ~req[u].wrapped
          BY <3>1, <5>2 DEF Respond, Finish, Idle
        <5>3. QED
          BY <5>1, <5>2
      <4>2. QED
        BY <1>1, <4>1 DEF TypeOK
    <3>2. CASE Persist(u)
      BY <1>1, <3>2 DEF Persist, Finish, Idle, TypeOK
    <3>3. QED
      BY <2>6, <3>1, <3>2 DEF Handle, Refused
  <2>7. ASSUME NEW u \in Workers, Fault(u)
        PROVE  FALSE
    BY <1>1, <2>0, <2>7 DEF Fault, LookupFails, ClaimFails, ThrottleFails, PersistFails, Finish,
       Idle, TypeOK, Request
  <2>8. ASSUME NEW p \in Processes, Crash(p)
        PROVE  FALSE
    BY <2>8 DEF Crash, Idle
  <2>9. req' # req
    OBVIOUS
  <2>10. QED
    BY <1>1, <2>1, <2>2, <2>3, <2>4, <2>5, <2>6, <2>7, <2>8, <2>9
       DEF Next, Continue, Evict, ExpireRecord, ExpireCounter, vars
<1>2. QED
  BY <1>1, GateTypeCorrect, PTL DEF Spec, RefusedHasExpiry
=============================================================================
