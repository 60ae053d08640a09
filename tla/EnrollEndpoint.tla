--------------------------- MODULE EnrollEndpoint ---------------------------
(***************************************************************************)
(* POST /enroll: enroll_job behind a cache of requests in Redis.           *)
(* Translated from api/events/enroll.py (enroll).                          *)
(*                                                                         *)
(* The key of the cache is the hash of the request's body.  An entry says  *)
(* that an equal request is being processed, or holds the answer of one    *)
(* whose client had gone when it was ready.  Every Redis command is an     *)
(* await, so the entry that is read may be gone or replaced when the       *)
(* handler writes its own.                                                 *)
(***************************************************************************)
EXTENDS Enroll

CONSTANTS
  Keys,     \* hashes of request bodies
  KeyOf,    \* the key of each worker's requests
  MaxCrashes \* bound: crashes of the server process and losses of Postgres

ASSUME KeyAssumption ==
  /\ KeyOf \in [Workers -> Keys]
  /\ MaxCrashes \in Nat

Entry ==
  [status : {"processing"}, result : {NULL}]
    \cup [status : {"done"}, result : Response \cup {NULL}]

VARIABLES
  cache,     \* the "enroll" namespace of Redis
  handler,   \* where the handler of each worker's request is
  cached,    \* the result it has read from the cache
  crashes    \* crashes of the server and losses of Postgres so far

endpoint == <<cache, handler, cached, crashes>>
allVars == <<events, next_id, pc, rows, response, job,
             cache, handler, cached, crashes>>

\* An entry that is about to be removed by its ttl or by a handler.
Clear(key) == cache' = [cache EXCEPT ![key] = NULL]

\* A service without a job sends its request.  There is no entry: go on.  An
\* equal request that is being processed is refused with 503, which changes
\* nothing.
Miss(w) ==
  /\ handler[w] = "idle"
  /\ job[w] = NULL
  /\ cache[KeyOf[w]] = NULL
  /\ handler' = [handler EXCEPT ![w] = "miss"]
  /\ UNCHANGED <<cache, cached, crashes, vars>>

\* Mutant: the cache has one entry for all requests.
Hit_AnyKey(w) ==
  /\ handler[w] = "idle"
  /\ job[w] = NULL
  /\ \E key \in Keys : /\ cache[key] # NULL
                       /\ cache[key].status = "done"
                       /\ cached' = [cached EXCEPT ![w] = cache[key].result]
  /\ handler' = [handler EXCEPT ![w] = "hit"]
  /\ UNCHANGED <<cache, crashes, vars>>

\* The entry holds an answer.
Hit(w) ==
  /\ handler[w] = "idle"
  /\ job[w] = NULL
  /\ cache[KeyOf[w]] # NULL
  /\ cache[KeyOf[w]].status = "done"
  /\ handler' = [handler EXCEPT ![w] = "hit"]
  /\ cached' = [cached EXCEPT ![w] = cache[KeyOf[w]].result]
  /\ UNCHANGED <<cache, crashes, vars>>

\* The entry is deleted and its answer is returned.
ReturnCached(w) ==
  /\ handler[w] = "hit"
  /\ Clear(KeyOf[w])
  /\ handler' = [handler EXCEPT ![w] = "idle"]
  /\ cached' = [cached EXCEPT ![w] = NULL]
  /\ job' = [job EXCEPT ![w] = IF cached[w] = NULL THEN NULL ELSE cached[w].id]
  /\ UNCHANGED <<table, call, crashes>>

\* The cached answer does not reach the service either.
LoseCached(w) ==
  /\ MayLose
  /\ handler[w] = "hit"
  /\ Clear(KeyOf[w])
  /\ handler' = [handler EXCEPT ![w] = "idle"]
  /\ cached' = [cached EXCEPT ![w] = NULL]
  /\ UNCHANGED <<crashes, vars>>

\* Redis.set_json of the "processing" entry.
StartProcessing(w) ==
  /\ handler[w] = "miss"
  /\ cache' = [cache EXCEPT ![KeyOf[w]] = [status |-> "processing", result |-> NULL]]
  /\ handler' = [handler EXCEPT ![w] = "enroll"]
  /\ UNCHANGED <<cached, crashes, vars>>

\* A step of the call of enroll_job.
Run(w) ==
  /\ handler[w] = "enroll"
  /\ EnrollStep(w)
  /\ UNCHANGED endpoint

\* The connection to Postgres is lost: the transaction is rolled back, and
\* enroll_job raises.
LoseConnection(w) ==
  /\ handler[w] = "enroll"
  /\ pc[w] = "cursor"
  /\ crashes < MaxCrashes
  /\ crashes' = crashes + 1
  /\ pc' = [pc EXCEPT ![w] = "raised"]
  /\ rows' = [rows EXCEPT ![w] = {}]
  /\ UNCHANGED <<table, response, job, cache, handler, cached>>

\* The client is connected: the entry is deleted and the job returned.
Respond(w) ==
  /\ handler[w] = "enroll"
  /\ Deliver(w)
  /\ Clear(KeyOf[w])
  /\ handler' = [handler EXCEPT ![w] = "idle"]
  /\ UNCHANGED <<cached, crashes>>

\* An exception of enroll_job deletes the entry, and the answer is empty.
RespondError(w) ==
  /\ handler[w] = "enroll"
  /\ DeliverError(w)
  /\ Clear(KeyOf[w])
  /\ handler' = [handler EXCEPT ![w] = "idle"]
  /\ UNCHANGED <<cached, crashes>>

\* Mutant: the entry is still marked as being processed.
CacheResult_Processing(w) ==
  /\ handler[w] = "enroll"
  /\ LoseReply(w)
  /\ cache' = [cache EXCEPT ![KeyOf[w]] = [status |-> "processing", result |-> response[w]]]
  /\ handler' = [handler EXCEPT ![w] = "idle"]
  /\ UNCHANGED <<cached, crashes>>

\* The client has disconnected: the answer is kept for its next request.
CacheResult(w) ==
  /\ handler[w] = "enroll"
  /\ LoseReply(w)
  /\ cache' = [cache EXCEPT ![KeyOf[w]] = [status |-> "done", result |-> response[w]]]
  /\ handler' = [handler EXCEPT ![w] = "idle"]
  /\ UNCHANGED <<cached, crashes>>

\* The client disconnects after is_disconnected() said that it had not.
LoseAnswer(w) ==
  /\ handler[w] = "enroll"
  /\ LoseReply(w)
  /\ Clear(KeyOf[w])
  /\ handler' = [handler EXCEPT ![w] = "idle"]
  /\ UNCHANGED <<cached, crashes>>

\* The server process dies with its handlers: their transactions are rolled
\* back, Redis keeps what they had written.
ServerCrash ==
  /\ crashes < MaxCrashes
  /\ crashes' = crashes + 1
  /\ handler' = [w \in Workers |-> "idle"]
  /\ cached' = [w \in Workers |-> NULL]
  /\ pc' = [w \in Workers |-> "idle"]
  /\ rows' = [w \in Workers |-> {}]
  /\ response' = [w \in Workers |-> NULL]
  /\ UNCHANGED <<cache, table, job>>

\* Mutant: a "processing" entry has no ttl.
Expire_DoneOnly(key) ==
  /\ cache[key] # NULL
  /\ cache[key].status = "done"
  /\ Clear(key)
  /\ UNCHANGED <<handler, cached, crashes, vars>>

\* The ttl of an entry: 600 seconds when processing, 60 when done.
Expire(key) ==
  /\ cache[key] # NULL
  /\ Clear(key)
  /\ UNCHANGED <<handler, cached, crashes, vars>>

\* What happens outside of the handlers.
Outside ==
  /\ \/ OtherStep
     \/ \E w \in Workers : Crash(w)
     \/ \E w \in Workers, status \in WorkerStatuses, retries \in PatchRetries :
          Report(w, status, retries)
  /\ UNCHANGED endpoint

HandlerStep(w) ==
  \/ Miss(w)
  \/ Hit(w)
  \/ ReturnCached(w)
  \/ LoseCached(w)
  \/ StartProcessing(w)
  \/ Run(w)
  \/ LoseConnection(w)
  \/ Respond(w)
  \/ RespondError(w)
  \/ CacheResult(w)
  \/ LoseAnswer(w)

EndpointInit ==
  /\ Init
  /\ cache = [key \in Keys |-> NULL]
  /\ handler = [w \in Workers |-> "idle"]
  /\ cached = [w \in Workers |-> NULL]
  /\ crashes = 0

EndpointNext ==
  \/ \E w \in Workers : HandlerStep(w)
  \/ ServerCrash
  \/ \E key \in Keys : Expire(key)
  \/ Outside

EndpointSpec == EndpointInit /\ [][EndpointNext]_allVars

(***************************************************************************)
(* Fairness: that of Enroll for the steps of a handler, the ttl of Redis,  *)
(* and a service that is not cut off from the server for ever.             *)
(***************************************************************************)
EndpointFairness ==
  /\ \A w \in Workers :
       /\ WF_allVars(Miss(w) \/ Hit(w) \/ StartProcessing(w) \/ Run(w) \/ RespondError(w))
       /\ SF_allVars(Respond(w))
       /\ SF_allVars(ReturnCached(w))
       /\ SF_allVars(FinalReport(w) /\ UNCHANGED endpoint)
  /\ \A key \in Keys : WF_allVars(Expire(key))

FairEndpointSpec == EndpointSpec /\ EndpointFairness

-----------------------------------------------------------------------------
(* Properties *)

\* Type invariant.
EndpointTypeOK ==
  /\ TypeOK
  /\ cache \in [Keys -> Entry \cup {NULL}]
  /\ handler \in [Workers -> {"idle", "miss", "hit", "enroll"}]
  /\ cached \in [Workers -> Response \cup {NULL}]
  /\ crashes \in 0 .. MaxCrashes

=============================================================================
