--------------------------------- MODULE Server ---------------------------------
(***************************************************************************)
(* The process around the engine: the goroutines of main                   *)
(* (cmd/koala/main.go), the HTTP server and its middleware chain           *)
(* (internal/api/router.go, middleware.go), and the handlers, with the     *)
(* fork and join of Batch (internal/api/handler.go).                       *)
(*                                                                         *)
(* A request passes Recovery, Logging, CORS, Timeout and Metrics on its    *)
(* way in and, unless it panics, Metrics on its way out.  An engine call   *)
(* is one step that answers, fails or panics; its answer is the version of *)
(* the rules it was made under.  What net/http does is external: a request *)
(* has a goroutine of its own, Shutdown stops accepting and then waits for *)
(* the requests it has, at most until its deadline.                        *)
(***************************************************************************)
EXTENDS Integers, FiniteSets

CONSTANTS Requests,     \* goroutines of net/http that serve a request at a time
          Kinds,        \* what clients ask for
          MaxBatch,     \* 100 in handler.go
          MaxRequests,  \* bound: requests accepted
          MaxPanics,    \* bound: engine calls that panic
          MaxReloads    \* bound: rule sets installed by the watcher

EngineKinds == {"browse", "update"}
AllKinds == EngineKinds \cup {"batch", "health", "unmatched", "options"}

ASSUME ServerAssumption ==
  /\ IsFiniteSet(Requests) /\ Kinds \subseteq AllKinds
  /\ MaxBatch \in Nat \ {0}
  /\ MaxRequests \in Nat /\ MaxPanics \in Nat /\ MaxReloads \in Nat

Items == 1..MaxBatch
Ended == {"killed", "failed", "crashed", "exited"}

\* main and the goroutines it starts.
VARIABLES main,      \* where main is, or how the process ended
          listener,  \* of the goroutine that runs Server.Run
          watcher,   \* the watcher goroutine: "none" when it could not be started
          store,     \* the storage main closes
          expired,   \* Shutdown returned because its deadline passed
          rules      \* the version of the rules in the engine

\* One request per goroutine.
VARIABLES pc, kind,
          status,    \* the HTTP status
          size,      \* Batch: len(req.Requests)
          valid,     \* Batch: the items that have an id and an act
          next,      \* Batch: the item its loop is at
          wg,        \* Batch: the counter of its WaitGroup
          working,   \* Batch: the items whose goroutine runs
          results    \* Batch: the slice it answers

\* MetricsMiddleware, a counter per route.
VARIABLES totalRequests, failedRequests

\* History and bounds.
VARIABLES since,     \* the version of the rules when the request was bound
          answered,  \* per route: responses a client got
          refused,   \* per route: those of them that say 400 or more
          recovered, \* per route: responses made by RecoveryMiddleware
          accepted, panics

process == <<main, listener, watcher, store, expired, rules>>
batch == <<size, valid, next, wg, working, results>>
request == <<pc, kind, status, since, batch>>
metrics == <<totalRequests, failedRequests>>
history == <<answered, refused, recovered>>
bounds == <<accepted, panics>>
vars == <<process, request, metrics, history, bounds>>

ZeroResult == [item |-> 0, code |-> "zero", rules |-> 0]
Codes == {"zero", "invalid", "error", "answered"}
Statuses == {200, 204, 400, 404, 500}

TypeOK ==
  /\ main \in {"starting", "waiting", "signalled", "shutting", "stopping", "closing",
               "returning"} \cup Ended
  /\ listener \in {"unborn", "open", "closed"}
  /\ watcher \in {"none", "idle", "reloading", "stopped"}
  /\ store \in {"open", "closed"} /\ expired \in BOOLEAN
  /\ rules \in 0..MaxReloads
  /\ pc \in [Requests -> {"idle", "bind", "call", "loop", "join", "count", "reply"}]
  /\ kind \in [Requests -> AllKinds]
  /\ status \in [Requests -> Statuses]
  /\ size \in [Requests -> 0..MaxBatch] /\ valid \in [Requests -> SUBSET Items]
  /\ next \in [Requests -> 0..MaxBatch]
  /\ wg \in [Requests -> 0..MaxBatch] /\ working \in [Requests -> SUBSET Items]
  /\ results \in [Requests ->
                   [Items -> [item : 0..MaxBatch, code : Codes, rules : 0..MaxReloads]]]
  /\ totalRequests \in [Kinds -> Nat] /\ failedRequests \in [Kinds -> Nat]
  /\ answered \in [Kinds -> Nat] /\ refused \in [Kinds -> Nat]
  /\ recovered \in [Kinds -> Nat]
  /\ since \in [Requests -> 0..MaxReloads]
  /\ accepted \in 0..MaxRequests /\ panics \in 0..MaxPanics

NoneYet == [k \in Kinds |-> 0]

\* The storage is open, the rules are loaded, the watcher runs if it could be
\* started, and the goroutine that runs the server has just been created.
Init ==
  /\ main = "starting" /\ watcher \in {"none", "idle"}
  /\ listener = "unborn" /\ store = "open" /\ expired = FALSE /\ rules = 0
  /\ pc = [r \in Requests |-> "idle"] /\ kind = [r \in Requests |-> "health"]
  /\ status = [r \in Requests |-> 200] /\ since = [r \in Requests |-> 0]
  /\ size = [r \in Requests |-> 0] /\ valid = [r \in Requests |-> {}]
  /\ next = [r \in Requests |-> 0] /\ wg = [r \in Requests |-> 0]
  /\ working = [r \in Requests |-> {}]
  /\ results = [r \in Requests |-> [i \in Items |-> ZeroResult]]
  /\ totalRequests = NoneYet /\ failedRequests = NoneYet
  /\ answered = NoneYet /\ refused = NoneYet /\ recovered = NoneYet
  /\ accepted = 0 /\ panics = 0

\* The process ends, and everything it held is gone.
End(how) ==
  /\ main' = how /\ watcher' = "none"
  /\ listener' = "unborn" /\ store' = "open" /\ expired' = FALSE /\ rules' = 0
  /\ pc' = [r \in Requests |-> "idle"] /\ kind' = [r \in Requests |-> "health"]
  /\ status' = [r \in Requests |-> 200] /\ since' = [r \in Requests |-> 0]
  /\ size' = [r \in Requests |-> 0] /\ valid' = [r \in Requests |-> {}]
  /\ next' = [r \in Requests |-> 0] /\ wg' = [r \in Requests |-> 0]
  /\ working' = [r \in Requests |-> {}]
  /\ results' = [r \in Requests |-> [i \in Items |-> ZeroResult]]
  /\ totalRequests' = NoneYet /\ failedRequests' = NoneYet
  /\ answered' = NoneYet /\ refused' = NoneYet /\ recovered' = NoneYet
  /\ accepted' = 0 /\ panics' = 0

Running == main \notin Ended
InFlight == {r \in Requests : pc[r] # "idle"}

-------------------------------------------------------------------------------
(* A request: middleware and handlers.                                     *)

\* What a handler does after its last look at the request.
Respond(r, code) ==
  /\ status' = [status EXCEPT ![r] = code]
  /\ pc' = [pc EXCEPT ![r] = "count"]

\* net/http accepts a request and the middleware lets it in.  CORSMiddleware answers
\* OPTIONS itself, before MetricsMiddleware; an unknown path reaches no handler.
Accept(r, k) ==
  /\ Running /\ listener = "open" /\ pc[r] = "idle"
  /\ accepted < MaxRequests
  /\ accepted' = accepted + 1
  /\ kind' = [kind EXCEPT ![r] = k]
  /\ CASE k = "options" -> /\ status' = [status EXCEPT ![r] = 204]
                           /\ pc' = [pc EXCEPT ![r] = "reply"]
       [] k = "unmatched" -> Respond(r, 404)
       [] k = "health" -> Respond(r, 200)
       [] OTHER -> pc' = [pc EXCEPT ![r] = "bind"] /\ UNCHANGED status
  /\ UNCHANGED <<process, since, batch, metrics, history, panics>>

\* ShouldBindJSON has read the body, which the client sends when it likes.
BindFails(r) ==
  /\ Running /\ pc[r] = "bind"
  /\ Respond(r, 400)
  /\ UNCHANGED <<process, kind, since, batch, metrics, history, bounds>>

Bind(r) ==
  /\ Running /\ pc[r] = "bind" /\ kind[r] \in EngineKinds
  /\ pc' = [pc EXCEPT ![r] = "call"]
  /\ since' = [since EXCEPT ![r] = rules]
  /\ UNCHANGED <<process, kind, status, batch, metrics, history, bounds>>

\* Browse and Update of the engine, for the handlers of the same names.
Call(r) ==
  /\ Running /\ pc[r] = "call"
  /\ \E code \in {200, 500} : Respond(r, code)
  /\ UNCHANGED <<process, kind, since, batch, metrics, history, bounds>>

\* Mutant: RecoveryMiddleware is inside MetricsMiddleware.
CallPanicsInsideMetrics(r) ==
  /\ Running /\ pc[r] = "call" /\ panics < MaxPanics
  /\ panics' = panics + 1
  /\ Respond(r, 500)
  /\ recovered' = [recovered EXCEPT ![kind[r]] = @ + 1]
  /\ UNCHANGED <<process, kind, since, batch, metrics, answered, refused, accepted>>

\* A panic unwinds the goroutine of the request past MetricsMiddleware, to the
\* deferred function of RecoveryMiddleware.
CallPanics(r) ==
  /\ Running /\ pc[r] = "call" /\ panics < MaxPanics
  /\ panics' = panics + 1
  /\ status' = [status EXCEPT ![r] = 500]
  /\ pc' = [pc EXCEPT ![r] = "reply"]
  /\ recovered' = [recovered EXCEPT ![kind[r]] = @ + 1]
  /\ UNCHANGED <<process, kind, since, batch, metrics, answered, refused, accepted>>

\* MetricsMiddleware after c.Next, under its mutex.
Count(r) ==
  /\ Running /\ pc[r] = "count"
  /\ totalRequests' = [totalRequests EXCEPT ![kind[r]] = @ + 1]
  /\ failedRequests' = IF status[r] >= 400
                         THEN [failedRequests EXCEPT ![kind[r]] = @ + 1] ELSE failedRequests
  /\ pc' = [pc EXCEPT ![r] = "reply"]
  /\ UNCHANGED <<process, kind, status, since, batch, history, bounds>>

\* The response is out and the goroutine's locals are gone; goroutines of a batch
\* that still run are not.
Reply(r) ==
  /\ Running /\ pc[r] = "reply"
  /\ answered' = [answered EXCEPT ![kind[r]] = @ + 1]
  /\ refused' = IF status[r] >= 400 THEN [refused EXCEPT ![kind[r]] = @ + 1] ELSE refused
  /\ pc' = [pc EXCEPT ![r] = "idle"]
  /\ kind' = [kind EXCEPT ![r] = "health"]
  /\ status' = [status EXCEPT ![r] = 200]
  /\ since' = [since EXCEPT ![r] = 0]
  /\ size' = [size EXCEPT ![r] = 0] /\ valid' = [valid EXCEPT ![r] = {}]
  /\ next' = [next EXCEPT ![r] = 0]
  /\ results' = [results EXCEPT ![r] = [i \in Items |-> ZeroResult]]
  /\ UNCHANGED <<process, wg, working, metrics, recovered, bounds>>

-------------------------------------------------------------------------------
(* Batch.                                                                  *)

\* An empty list, and one that is too long, are refused.
BindBatch(r) ==
  /\ Running /\ pc[r] = "bind" /\ kind[r] = "batch"
  /\ \/ /\ Respond(r, 400)  \* of size 0 or MaxBatch + 1
        /\ UNCHANGED <<since, size, valid, next>>
     \/ /\ \E n \in Items : \E ok \in SUBSET (1..n) :
             /\ size' = [size EXCEPT ![r] = n]
             /\ valid' = [valid EXCEPT ![r] = ok]
        /\ next' = [next EXCEPT ![r] = 1]
        /\ since' = [since EXCEPT ![r] = rules]
        /\ pc' = [pc EXCEPT ![r] = "loop"]
        /\ UNCHANGED status
  /\ UNCHANGED <<process, kind, wg, working, results, metrics, history, bounds>>

SetResult(r, i, of, code, version) ==
  results' = [results EXCEPT ![r][i] = [item |-> of, code |-> code, rules |-> version]]

Advance(r) ==
  IF next[r] = size[r]
    THEN pc' = [pc EXCEPT ![r] = "join"] /\ UNCHANGED next
    ELSE next' = [next EXCEPT ![r] = @ + 1] /\ UNCHANGED pc

\* Mutant: wg.Add comes before the item is looked at.
AnswerInvalidAfterAdd(r) ==
  /\ Running /\ pc[r] = "loop" /\ next[r] \notin valid[r]
  /\ SetResult(r, next[r], next[r], "invalid", 0)
  /\ wg' = [wg EXCEPT ![r] = @ + 1]
  /\ Advance(r)
  /\ UNCHANGED <<process, kind, status, since, size, valid, working, metrics, history, bounds>>

\* The loop answers an item without id or act itself ...
AnswerInvalid(r) ==
  /\ Running /\ pc[r] = "loop" /\ next[r] \notin valid[r]
  /\ SetResult(r, next[r], next[r], "invalid", 0)
  /\ Advance(r)
  /\ UNCHANGED <<process, kind, status, since, size, valid, wg, working, metrics, history, bounds>>

\* ... and starts a goroutine for every other.
Fork(r) ==
  /\ Running /\ pc[r] = "loop" /\ next[r] \in valid[r]
  /\ wg' = [wg EXCEPT ![r] = @ + 1]
  /\ working' = [working EXCEPT ![r] = @ \cup {next[r]}]
  /\ Advance(r)
  /\ UNCHANGED <<process, kind, status, since, size, valid, results, metrics, history, bounds>>

Done(r, i) ==
  /\ working' = [working EXCEPT ![r] = @ \ {i}]
  /\ wg' = [wg EXCEPT ![r] = @ - 1]

\* Mutant: the goroutine uses the loop's variable instead of its parameter.
WorkOnLoopVariable(r, i) ==
  /\ Running /\ i \in working[r]
  /\ \E code \in {"answered", "error"} :
       SetResult(r, next[r], next[r], code, IF code = "answered" THEN rules ELSE 0)
  /\ Done(r, i)
  /\ UNCHANGED <<process, pc, kind, status, since, size, valid, next, metrics, history, bounds>>

\* Mutant: the handler answers under the rules the server started with.
WorkUnderFirstRules(r, i) ==
  /\ Running /\ i \in working[r]
  /\ \E code \in {"answered", "error"} : SetResult(r, i, i, code, 0)
  /\ Done(r, i)
  /\ UNCHANGED <<process, pc, kind, status, since, size, valid, next, metrics, history, bounds>>

\* A goroutine: Browse, under the rules of this moment, its result, wg.Done.
Work(r, i) ==
  /\ Running /\ i \in working[r]
  /\ \E code \in {"answered", "error"} :
       SetResult(r, i, i, code, IF code = "answered" THEN rules ELSE 0)
  /\ Done(r, i)
  /\ UNCHANGED <<process, pc, kind, status, since, size, valid, next, metrics, history, bounds>>

\* Nothing recovers a panic of a goroutine that Batch started: the process dies.
WorkPanics(r, i) ==
  /\ Running /\ i \in working[r] /\ panics < MaxPanics
  /\ End("crashed")

\* wg.Wait.
Join(r) ==
  /\ Running /\ pc[r] = "join" /\ wg[r] = 0
  /\ Respond(r, 200)
  /\ UNCHANGED <<process, kind, since, batch, metrics, history, bounds>>

-------------------------------------------------------------------------------
(* The goroutine that runs the server, and the watcher.                    *)

others == <<request, metrics, history, bounds>>

\* ListenAndServe, which returns ErrServerClosed if Shutdown was called before.
Listen ==
  /\ Running /\ listener = "unborn"
  /\ listener' = IF main \in {"starting", "waiting", "signalled"} THEN "open" ELSE "closed"
  /\ UNCHANGED <<main, watcher, store, expired, rules, others>>

\* Any other error of ListenAndServe is fatal at once: no deferred call runs.
ListenFails ==
  /\ main \in {"starting", "waiting", "signalled"}
  /\ listener \in {"unborn", "open"}
  /\ End("failed")

BeginReload ==
  /\ Running /\ watcher = "idle" /\ rules < MaxReloads
  /\ watcher' = "reloading"
  /\ UNCHANGED <<main, listener, store, expired, rules, others>>

\* A handler of the watcher loop ends; a rules file that does not load changes nothing.
EndReload ==
  /\ Running /\ watcher = "reloading"
  /\ rules' \in {rules, rules + 1}
  /\ watcher' = "idle"
  /\ UNCHANGED <<main, listener, store, expired, others>>

-------------------------------------------------------------------------------
(* main, from the start of the server to its return.                       *)

Notify ==
  /\ main = "starting"
  /\ main' = "waiting"
  /\ UNCHANGED <<listener, watcher, store, expired, rules, others>>

\* SIGINT or SIGTERM: before signal.Notify it ends the process; after the first one
\* the channel is not read again.
Signal ==
  /\ \/ main = "starting" /\ End("killed")
     \/ /\ main = "waiting" /\ main' = "signalled"
        /\ UNCHANGED <<listener, watcher, store, expired, rules, others>>

\* Server.Shutdown: accept no more, then wait.
BeginShutdown ==
  /\ main = "signalled"
  /\ main' = "shutting"
  /\ listener' = IF listener = "open" THEN "closed" ELSE listener
  /\ UNCHANGED <<watcher, store, expired, rules, others>>

\* Mutant: the listener is closed and the requests it accepted are not waited for.
ShutdownWithoutWaiting ==
  /\ main = "shutting"
  /\ main' = "stopping"
  /\ UNCHANGED <<listener, watcher, store, expired, rules, others>>

ShutdownDone ==
  /\ main = "shutting"
  /\ InFlight = {}
  /\ main' = "stopping"
  /\ UNCHANGED <<listener, watcher, store, expired, rules, others>>

\* Mutant: Shutdown is given a context without deadline.
ShutdownHasNoDeadline == FALSE /\ UNCHANGED vars

\* The deadline of ShutdownTimeout; its error is only logged.
ShutdownExpires ==
  /\ main = "shutting"
  /\ main' = "stopping"
  /\ expired' = TRUE
  /\ UNCHANGED <<listener, watcher, store, rules, others>>

\* The deferred calls, last one first: watcher.Stop, which waits for its loop, ...
StopWatcher ==
  /\ main = "stopping" /\ watcher # "reloading"
  /\ main' = "closing"
  /\ watcher' = IF watcher = "none" THEN "none" ELSE "stopped"
  /\ UNCHANGED <<listener, store, expired, rules, others>>

\* ... then store.Close.
CloseStore ==
  /\ main = "closing"
  /\ main' = "returning"
  /\ store' = "closed"
  /\ UNCHANGED <<listener, watcher, expired, rules, others>>

\* main returns, and the process ends with whatever still runs.
Return ==
  /\ main = "returning"
  /\ End("exited")

-------------------------------------------------------------------------------
RequestStep(r) ==
  \/ Call(r) \/ CallPanics(r) \/ Count(r) \/ Reply(r)
  \/ AnswerInvalid(r) \/ Fork(r) \/ Join(r)
  \/ \E i \in Items : Work(r, i)

ClientStep(r) ==
  \/ \E k \in Kinds : Accept(r, k)
  \/ BindFails(r) \/ Bind(r) \/ BindBatch(r)

MainStep ==
  \/ BeginShutdown \/ ShutdownDone \/ ShutdownExpires
  \/ StopWatcher \/ CloseStore \/ Return

Next ==
  \/ \E r \in Requests : ClientStep(r) \/ RequestStep(r)
  \/ \E r \in Requests, i \in Items : WorkPanics(r, i)
  \/ Listen \/ ListenFails \/ BeginReload \/ EndReload
  \/ Notify \/ Signal \/ MainStep

Spec == Init /\ [][Next]_vars

\* Goroutines are scheduled, engine calls return (Redis has its own timeouts) and
\* timers fire; the watcher's select picks at random among its ready cases, so it
\* takes its stop signal however many files change.  Nothing is assumed of clients,
\* who may never send the body of a request they began: http.Server is given no
\* ReadTimeout.
Fairness ==
  /\ \A r \in Requests : WF_vars(RequestStep(r))
  /\ WF_vars(EndReload)
  /\ WF_vars(MainStep)
  /\ SF_vars(StopWatcher)

FairSpec == Spec /\ Fairness

-------------------------------------------------------------------------------
(* Properties.                                                             *)

\* The goroutines of a batch write one slice and read the context of its request
\* without a lock.  They end before Batch answers, so none outlives its request
\* (gin reuses the context for the next one), and by then every item has been
\* answered once, by its own goroutine or as invalid.
BatchJoined ==
  /\ TypeOK
  /\ \A r \in Requests :
       /\ pc[r] \in {"idle", "count", "reply"} => working[r] = {}
       /\ pc[r] \in {"count", "reply"} =>
            \A i \in 1..size[r] : /\ results[r][i].item = i
                                  /\ (results[r][i].code = "invalid") <=> (i \notin valid[r])

\* The items of a batch may be judged by different versions of the rules, but never
\* by one that had been replaced when the batch was received.
NoStaleVerdict ==
  \A r \in Requests, i \in Items :
    results[r][i].code = "answered" => results[r][i].rules >= since[r]

Leaving(k, codes) == Cardinality({r \in Requests : pc[r] = "reply" /\ kind[r] = k
                                                   /\ status[r] \in codes})

\* The metrics against what clients got, per route: they miss exactly the requests
\* that panicked, in the total and among the failed (and OPTIONS requests, which never
\* reach them).
MetricsAccount ==
  \A k \in Kinds \ {"options"} :
    /\ totalRequests[k] + recovered[k] = answered[k] + Leaving(k, Statuses)
    /\ failedRequests[k] + recovered[k] = refused[k] + Leaving(k, {400, 404, 500})

\* A request that was accepted neither meets a closed storage nor is lost when main
\* returns, unless the shutdown's deadline passed; and no reload is under way then.
GracefulShutdown ==
  main \in {"stopping", "closing", "returning"} =>
    /\ InFlight # {} => expired
    /\ store = "closed" => watcher \in {"none", "stopped"}

\* A request whose body has arrived is answered, or the process ends: no batch waits
\* for an item for ever.
RequestsEnd ==
  \A r \in Requests : (pc[r] \notin {"idle", "bind"}) ~> (pc[r] = "idle" \/ ~Running)

\* A signal ends the process, even if a client never sends its body and whatever the
\* watcher is doing.
SignalEnds == main = "signalled" ~> ~Running
==============================================================================
