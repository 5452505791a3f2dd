----------------------------- MODULE ServerProofs -----------------------------
(***************************************************************************)
(* Proofs about the process: its batches are joined, no verdict is stale,  *)
(* the metrics account for every response, and its shutdown is graceful,   *)
(* for any number of requests, any size of a batch, and any bounds; and    *)
(* the start-up checker judges by the answers of its round.                *)
(***************************************************************************)
EXTENDS Server, Startup, FiniteSetTheorems, TLAPS

\* The typing of Server, by the part of the state it is about; of a WaitGroup's
\* counter it says less than TypeOK, for its bounds follow from what it counts.
ProcessTypes ==
  /\ main \in {"starting", "waiting", "signalled", "shutting", "stopping", "closing",
               "returning"} \cup Ended
  /\ listener \in {"unborn", "open", "closed"}
  /\ watcher \in {"none", "idle", "reloading", "stopped"}
  /\ store \in {"open", "closed"} /\ expired \in BOOLEAN
  /\ rules \in 0..MaxReloads /\ (watcher = "reloading" => rules < MaxReloads)

Places == {"idle", "bind", "call", "loop", "join", "count", "reply"}

RequestTypes ==
  /\ pc \in [Requests -> Places]
  /\ kind \in [Requests -> AllKinds]
  /\ status \in [Requests -> Statuses]
  /\ since \in [Requests -> 0..MaxReloads]

Result == [item : 0..MaxBatch, code : Codes, rules : 0..MaxReloads]

BatchTypes ==
  /\ size \in [Requests -> 0..MaxBatch] /\ valid \in [Requests -> SUBSET Items]
  /\ next \in [Requests -> 0..MaxBatch]
  /\ \A r \in Requests : pc[r] = "loop" => next[r] \in 1..size[r]
  /\ wg \in [Requests -> Int] /\ working \in [Requests -> SUBSET Items]
  /\ results \in [Requests -> [Items -> Result]]

CountTypes ==
  /\ totalRequests \in [Kinds -> Nat] /\ failedRequests \in [Kinds -> Nat]
  /\ answered \in [Kinds -> Nat] /\ refused \in [Kinds -> Nat]
  /\ recovered \in [Kinds -> Nat]
  /\ accepted \in 0..MaxRequests /\ panics \in 0..MaxPanics

Types == ProcessTypes /\ RequestTypes /\ BatchTypes /\ CountTypes

LEMMA ZeroResultType == ZeroResult \in Result
BY ServerAssumption DEF ZeroResult, Result, Codes

LEMMA InitTypes == Init => Types
<1> SUFFICES ASSUME Init  PROVE Types
  OBVIOUS
<1>1. ProcessTypes
  <2>1. (rules \in 0..MaxReloads /\ (watcher = "reloading" => rules < MaxReloads))
    BY ServerAssumption DEF Init
  <2>2. (expired \in BOOLEAN)
    BY DEF Init
  <2> QED  BY <2>1, <2>2 DEF Init, ProcessTypes, Ended
<1>2. RequestTypes
  BY ServerAssumption DEF Init, RequestTypes, Places, AllKinds, Statuses
<1>3. BatchTypes
  BY ZeroResultType, ServerAssumption DEF Init, BatchTypes, Items
<1>4. CountTypes
  BY ServerAssumption DEF Init, CountTypes, NoneYet
<1> QED  BY <1>1, <1>2, <1>3, <1>4 DEF Types

\* A process that ended is typed like one that begins.
LEMMA EndTypes ==
  ASSUME NEW how \in Ended, End(how)
  PROVE  Types'
<1>1. ProcessTypes'
  <2>1. (rules \in 0..MaxReloads /\ (watcher = "reloading" => rules < MaxReloads))'
    BY ServerAssumption DEF End
  <2>2. (expired \in BOOLEAN)'
    BY DEF End
  <2> QED  BY <2>1, <2>2 DEF End, ProcessTypes, Ended
<1>2. RequestTypes'
  BY ServerAssumption DEF End, RequestTypes, Places, AllKinds, Statuses
<1>3. BatchTypes'
  BY ZeroResultType, ServerAssumption DEF End, BatchTypes, Items
<1>4. CountTypes'
  BY ServerAssumption DEF End, CountTypes, NoneYet
<1> QED  BY <1>1, <1>2, <1>3, <1>4 DEF Types

-------------------------------------------------------------------------------
(* The three kinds of steps.                                               *)

\* One request takes a step, the process takes a step, or the process ends.
RequestActions(r) == Running /\ (ClientStep(r) \/ RequestStep(r))

ProcessActions ==
  \/ Listen \/ BeginReload \/ EndReload \/ Notify \/ (main = "waiting" /\ Signal)
  \/ BeginShutdown \/ ShutdownDone \/ ShutdownExpires \/ StopWatcher \/ CloseStore

LEMMA KindsOfSteps ==
  ASSUME [Next]_vars
  PROVE  \/ \E r \in Requests : RequestActions(r)
         \/ ProcessActions
         \/ \E how \in Ended : End(how)
         \/ UNCHANGED vars
<1>1. ASSUME NEW r \in Requests, ClientStep(r) \/ RequestStep(r)
      PROVE  RequestActions(r)
  <2>1. Running
    BY <1>1 DEF ClientStep, RequestStep, Accept, BindFails, Bind, BindBatch, Call,
                CallPanics, Count, Reply, AnswerInvalid, Fork, Join, Work
  <2> QED  BY <1>1, <2>1 DEF RequestActions
<1>2. ASSUME \/ \E r \in Requests, i \in Items : WorkPanics(r, i)
             \/ ListenFails \/ Return \/ (main = "starting" /\ Signal)
      PROVE  \E how \in Ended : End(how)
  BY <1>2 DEF WorkPanics, ListenFails, Return, Signal, Ended
<1>3. Signal => main \in {"starting", "waiting"}
  BY DEF Signal
<1> QED  BY <1>1, <1>2, <1>3 DEF Next, ProcessActions, MainStep

LEMMA RequestActionsFrame ==
  ASSUME NEW r \in Requests, RequestActions(r)
  PROVE  UNCHANGED process
BY DEF RequestActions, ClientStep, RequestStep, Accept, BindFails, Bind, BindBatch, Call,
       CallPanics, Count, Reply, AnswerInvalid, Fork, Join, Work

LEMMA ProcessActionsFrame ==
  ASSUME ProcessActions
  PROVE  UNCHANGED others
BY DEF ProcessActions, Listen, BeginReload, EndReload, Notify, Signal, BeginShutdown,
       ShutdownDone, ShutdownExpires, StopWatcher, CloseStore, End

-------------------------------------------------------------------------------
(* Type correctness.                                                       *)

LEMMA ProcessTypesStep ==
  ASSUME Types, ProcessActions
  PROVE  ProcessTypes'
<1>1. rules' \in 0..MaxReloads /\ (watcher' = "reloading" => rules' < MaxReloads)
  BY ServerAssumption
     DEF Types, ProcessTypes, ProcessActions, Listen, BeginReload, EndReload, Notify, Signal,
         BeginShutdown, ShutdownDone, ShutdownExpires, StopWatcher, CloseStore
<1>2. expired' \in BOOLEAN
  BY DEF Types, ProcessTypes, ProcessActions, Listen, BeginReload, EndReload, Notify, Signal,
         BeginShutdown, ShutdownDone, ShutdownExpires, StopWatcher, CloseStore
<1> QED
  BY <1>1, <1>2
     DEF Types, ProcessTypes, ProcessActions, Listen, BeginReload, EndReload, Notify, Signal,
         BeginShutdown, ShutdownDone, ShutdownExpires, StopWatcher, CloseStore

LEMMA RequestTypesStep ==
  ASSUME Types, NEW r \in Requests, RequestActions(r)
  PROVE  RequestTypes'
<1>1. UNCHANGED rules /\ rules \in 0..MaxReloads /\ RequestTypes
  BY RequestActionsFrame DEF process, Types, ProcessTypes
<1>2. pc' \in [Requests -> Places]
  <2>1. \E place \in Places : pc' = [pc EXCEPT ![r] = place] \/ UNCHANGED pc
    <3>1. CASE ClientStep(r)
      <4>1. CASE \E k \in Kinds : Accept(r, k)
        BY <4>1 DEF Accept, Respond, Places
      <4>2. CASE BindFails(r) \/ Bind(r) \/ BindBatch(r)
        BY <4>2 DEF BindFails, Bind, BindBatch, Respond, Places
      <4> QED  BY <3>1, <4>1, <4>2 DEF ClientStep
    <3>2. CASE RequestStep(r)
      BY <3>2 DEF RequestStep, Call, CallPanics, Count, Reply, AnswerInvalid, Fork, Join, Work,
                  Respond, Advance, Places
    <3> QED  BY <3>1, <3>2 DEF RequestActions
  <2> QED  BY <1>1, <2>1 DEF RequestTypes
<1>3. kind' \in [Requests -> AllKinds]
  BY <1>1, ServerAssumption
     DEF RequestTypes, Respond, RequestActions, ClientStep, RequestStep, Accept, BindFails, Bind,
         BindBatch, Call, CallPanics, Count, Reply, AnswerInvalid, Fork, Join, Work, Advance,
         AllKinds
<1>4. status' \in [Requests -> Statuses]
  BY <1>1
     DEF RequestTypes, Respond, RequestActions, ClientStep, RequestStep, Accept, BindFails, Bind,
         BindBatch, Call, CallPanics, Count, Reply, AnswerInvalid, Fork, Join, Work, Advance,
         Statuses
<1>5. since' \in [Requests -> 0..MaxReloads]
  BY <1>1, ServerAssumption
     DEF RequestTypes, Respond, RequestActions, ClientStep, RequestStep, Accept, BindFails, Bind,
         BindBatch, Call, CallPanics, Count, Reply, AnswerInvalid, Fork, Join, Work, Advance
<1> QED  BY <1>2, <1>3, <1>4, <1>5 DEF RequestTypes

\* What the steps before a batch, its join and the steps after it have in common.
AroundBatch(r) ==
  /\ UNCHANGED batch
  /\ pc[r] # "loop" /\ (pc[r] = "join" => wg[r] = 0)
  /\ \E place \in {"bind", "call", "count", "reply"} :
       /\ pc' = [pc EXCEPT ![r] = place]
       /\ place = "bind" => pc[r] = "idle"
       /\ place = "call" => pc[r] = "bind"

LEMMA BatchActions ==
  ASSUME NEW r \in Requests, RequestActions(r)
  PROVE  \/ AroundBatch(r)
         \/ BindBatch(r) \/ AnswerInvalid(r) \/ Fork(r) \/ Reply(r)
         \/ \E i \in Items : Work(r, i)
<1>1. ASSUME Bind(r) \/ BindFails(r) \/ Call(r) \/ CallPanics(r) \/ Count(r) \/ Join(r)
      PROVE  AroundBatch(r)
  BY <1>1 DEF AroundBatch, BindFails, Bind, Call, CallPanics, Count, Join, Respond
<1>2. ASSUME NEW k \in Kinds, Accept(r, k)
      PROVE  AroundBatch(r)
  BY <1>2 DEF AroundBatch, Accept, Respond
<1> QED  BY <1>1, <1>2 DEF RequestActions, ClientStep, RequestStep

LEMMA SetResultType ==
  ASSUME results \in [Requests -> [Items -> Result]], NEW r \in Requests, NEW i \in Items,
         NEW of \in 0..MaxBatch, NEW code \in Codes, NEW version \in 0..MaxReloads,
         SetResult(r, i, of, code, version)
  PROVE  results' \in [Requests -> [Items -> Result]]
<1> DEFINE result == [item |-> of, code |-> code, rules |-> version]
<1>1. result \in Result
  BY DEF Result
<1>2. results' = [results EXCEPT ![r] = [results[r] EXCEPT ![i] = result]]
  BY DEF SetResult
<1> HIDE DEF result
<1>3. [results[r] EXCEPT ![i] = result] \in [Items -> Result]
  BY <1>1
<1> QED  BY <1>2, <1>3

LEMMA AdvanceTypes ==
  ASSUME BatchTypes, NEW r \in Requests, pc \in [Requests -> Places],
         pc[r] = "loop", Advance(r), UNCHANGED size
  PROVE  /\ next' \in [Requests -> 0..MaxBatch]
         /\ \A q \in Requests : pc'[q] = "loop" => next'[q] \in 1..size'[q]
<1>1. next[r] \in 1..size[r] /\ size[r] \in 0..MaxBatch
  BY DEF BatchTypes
<1>2. CASE next[r] = size[r]
  BY <1>2 DEF Advance, BatchTypes
<1>3. CASE next[r] # size[r]
  <2>1. next[r] + 1 \in 1..size[r] /\ next[r] + 1 \in 0..MaxBatch
    BY <1>1, <1>3, ServerAssumption
  <2> QED  BY <1>3, <2>1 DEF Advance, BatchTypes
<1> QED  BY <1>2, <1>3

LEMMA BatchTypesStep ==
  ASSUME Types, NEW r \in Requests, RequestActions(r)
  PROVE  BatchTypes'
<1>1. UNCHANGED rules /\ rules \in 0..MaxReloads /\ BatchTypes
  BY RequestActionsFrame DEF process, Types, ProcessTypes
<1>2. pc \in [Requests -> Places] /\ pc' \in [Requests -> Places]
  BY RequestTypesStep DEF Types, RequestTypes
<1>3. CASE AroundBatch(r)
  <2>1. ASSUME NEW q \in Requests, pc'[q] = "loop"
        PROVE  next'[q] \in 1..size'[q]
    <3>1. pc[q] = "loop"
      BY <1>2, <1>3, <2>1 DEF AroundBatch
    <3> QED  BY <1>1, <1>3, <3>1 DEF BatchTypes, batch, AroundBatch
  <2> QED  BY <1>1, <1>3, <2>1 DEF BatchTypes, batch, AroundBatch
<1>4. CASE BindBatch(r)
  <2>1. size' \in [Requests -> 0..MaxBatch] /\ valid' \in [Requests -> SUBSET Items]
    <3>1. CASE UNCHANGED <<size, valid>>
      BY <1>1, <3>1 DEF BatchTypes
    <3>2. ASSUME NEW n \in Items, NEW ok \in SUBSET (1..n),
                 size' = [size EXCEPT ![r] = n], valid' = [valid EXCEPT ![r] = ok]
          PROVE  size' \in [Requests -> 0..MaxBatch] /\ valid' \in [Requests -> SUBSET Items]
      <4>1. n \in 0..MaxBatch /\ 1..n \subseteq Items
        BY ServerAssumption DEF Items
      <4> QED  BY <1>1, <3>2, <4>1 DEF BatchTypes
    <3> QED  BY <1>4, <3>1, <3>2 DEF BindBatch
  <2>2. next' \in [Requests -> 0..MaxBatch]
    <3>1. 1 \in 0..MaxBatch
      BY ServerAssumption
    <3> QED  BY <1>1, <1>4, <3>1 DEF BatchTypes, BindBatch
  <2>3. ASSUME NEW q \in Requests, pc'[q] = "loop"
        PROVE  next'[q] \in 1..size'[q]
    BY <1>1, <1>2, <1>4, <2>3, ServerAssumption DEF BatchTypes, BindBatch, Respond, Items
  <2> QED  BY <1>1, <1>4, <2>1, <2>2, <2>3 DEF BatchTypes, BindBatch
<1>5. CASE AnswerInvalid(r)
  <2>1. results' \in [Requests -> [Items -> Result]]
    <3>1. next[r] \in Items /\ next[r] \in 0..MaxBatch
      BY <1>1, <1>5, ServerAssumption DEF BatchTypes, AnswerInvalid, Items
    <3> QED
      BY <1>1, <1>5, <3>1, SetResultType, ServerAssumption DEF BatchTypes, AnswerInvalid, Codes
  <2> QED  BY <1>1, <1>2, <1>5, <2>1, AdvanceTypes DEF BatchTypes, AnswerInvalid
<1>6. CASE Fork(r)
  <2>1. wg' \in [Requests -> Int] /\ working' \in [Requests -> SUBSET Items]
    BY <1>1, <1>6 DEF BatchTypes, Fork, Items
  <2> QED  BY <1>1, <1>2, <1>6, <2>1, AdvanceTypes DEF BatchTypes, Fork
<1>7. CASE Reply(r)
  <2>1. results' \in [Requests -> [Items -> Result]]
    BY <1>1, <1>7, ZeroResultType DEF BatchTypes, Reply
  <2>2. size' \in [Requests -> 0..MaxBatch] /\ next' \in [Requests -> 0..MaxBatch]
    BY <1>1, <1>7, ServerAssumption DEF BatchTypes, Reply
  <2>3. ASSUME NEW q \in Requests, pc'[q] = "loop"
        PROVE  next'[q] \in 1..size'[q]
    BY <1>1, <1>2, <1>7, <2>3 DEF BatchTypes, Reply
  <2> QED  BY <1>1, <1>7, <2>1, <2>2, <2>3 DEF BatchTypes, Reply
<1>8. CASE \E i \in Items : Work(r, i)
  <2>1. results' \in [Requests -> [Items -> Result]]
    <3>1. PICK i \in Items, code \in {"answered", "error"} :
            SetResult(r, i, i, code, IF code = "answered" THEN rules ELSE 0)
      BY <1>8 DEF Work
    <3>2. i \in 0..MaxBatch
      BY ServerAssumption DEF Items
    <3> QED
      BY <1>1, <3>1, <3>2, SetResultType, ServerAssumption DEF BatchTypes, Codes
  <2>2. wg' \in [Requests -> Int] /\ working' \in [Requests -> SUBSET Items]
    BY <1>1, <1>8 DEF BatchTypes, Work, Done
  <2> QED  BY <1>1, <1>8, <2>1, <2>2 DEF BatchTypes, Work
<1> QED  BY <1>3, <1>4, <1>5, <1>6, <1>7, <1>8, BatchActions

\* A metric of a route that has none, OPTIONS say, is not there to be counted.
LEMMA CountedType ==
  ASSUME NEW f \in [Kinds -> Nat], NEW k
  PROVE  [f EXCEPT ![k] = @ + 1] \in [Kinds -> Nat]
<1>1. \A x \in Kinds : f[x] \in Nat /\ f[x] + 1 \in Nat
  OBVIOUS
<1>2. [f EXCEPT ![k] = @ + 1] = [x \in Kinds |-> IF x = k THEN f[x] + 1 ELSE f[x]]
  OBVIOUS
<1> QED  BY <1>1, <1>2

LEMMA CountTypesStep ==
  ASSUME Types, NEW r \in Requests, RequestActions(r)
  PROVE  CountTypes'
<1>1. CountTypes /\ kind[r] \in AllKinds
  BY DEF Types, RequestTypes
<1>2. CASE Count(r)
  <2>1. totalRequests' \in [Kinds -> Nat]
    BY <1>1, <1>2, CountedType DEF CountTypes, Count
  <2>2. failedRequests' \in [Kinds -> Nat]
    BY <1>1, <1>2, CountedType DEF CountTypes, Count
  <2> QED  BY <1>1, <1>2, <2>1, <2>2 DEF CountTypes, Count, history, bounds
<1>3. CASE Reply(r)
  <2>1. answered' \in [Kinds -> Nat]
    BY <1>1, <1>3, CountedType DEF CountTypes, Reply
  <2>2. refused' \in [Kinds -> Nat]
    BY <1>1, <1>3, CountedType DEF CountTypes, Reply
  <2> QED  BY <1>1, <1>3, <2>1, <2>2 DEF CountTypes, Reply, metrics, bounds
<1>4. CASE CallPanics(r)
  <2>1. recovered' \in [Kinds -> Nat]
    BY <1>1, <1>4, CountedType DEF CountTypes, CallPanics
  <2>2. panics' \in 0..MaxPanics
    BY <1>1, <1>4, ServerAssumption DEF CountTypes, CallPanics
  <2> QED  BY <1>1, <1>4, <2>1, <2>2 DEF CountTypes, CallPanics, metrics
<1>5. CASE \E k \in Kinds : Accept(r, k)
  BY <1>1, <1>5, ServerAssumption DEF CountTypes, Accept, metrics, history
<1>6. UNCHANGED <<metrics, history, bounds>>
      \/ Count(r) \/ Reply(r) \/ CallPanics(r) \/ \E k \in Kinds : Accept(r, k)
  BY DEF RequestActions, ClientStep, RequestStep, BindFails, Bind, BindBatch, Call,
         AnswerInvalid, Fork, Join, Work
<1> QED
  BY <1>1, <1>2, <1>3, <1>4, <1>5, <1>6 DEF CountTypes, metrics, history, bounds

LEMMA TypesStep ==
  ASSUME Types, [Next]_vars
  PROVE  Types'
<1>1. ASSUME NEW r \in Requests, RequestActions(r)
      PROVE  Types'
  <2>1. ProcessTypes'
    BY <1>1, RequestActionsFrame DEF Types, ProcessTypes, process
  <2> QED
    BY <1>1, <2>1, RequestTypesStep, BatchTypesStep, CountTypesStep DEF Types
<1>2. CASE ProcessActions
  <2>1. UNCHANGED <<request, metrics, history, bounds>>
    BY <1>2, ProcessActionsFrame DEF others
  <2>2. RequestTypes' /\ BatchTypes' /\ CountTypes'
    BY <2>1 DEF Types, RequestTypes, BatchTypes, CountTypes, request, batch, metrics,
                history, bounds
  <2> QED  BY <1>2, <2>2, ProcessTypesStep DEF Types
<1>3. CASE \E how \in Ended : End(how)
  BY <1>3, EndTypes
<1>4. CASE UNCHANGED vars
  BY <1>4 DEF vars, process, request, batch, metrics, history, bounds, Types, ProcessTypes,
              RequestTypes, BatchTypes, CountTypes
<1> QED  BY <1>1, <1>2, <1>3, <1>4, KindsOfSteps

-------------------------------------------------------------------------------
(* The shutdown.                                                           *)

\* From the moment main shuts the server down it accepts nothing, so that the requests
\* it has waited for stay ended; and a watcher that is stopped does not reload again.
ShutdownInv ==
  /\ main \in {"shutting", "stopping", "closing", "returning"} => listener # "open"
  /\ main \in {"stopping", "closing", "returning"} => InFlight = {} \/ expired
  /\ main \in {"closing", "returning"} => watcher \in {"none", "stopped"}
  /\ store = "open" \/ main = "returning"

LEMMA ShutdownInvInit == Init => ShutdownInv
BY DEF Init, ShutdownInv

LEMMA ShutdownInvStep ==
  ASSUME Types, ShutdownInv, [Next]_vars
  PROVE  ShutdownInv'
<1>1. ASSUME NEW r \in Requests, RequestActions(r)
      PROVE  ShutdownInv'
  <2>1. CASE \E k \in Kinds : Accept(r, k)
    <3>1. listener = "open"
      BY <2>1 DEF Accept
    <3>2. main \notin {"shutting", "stopping", "closing", "returning"}
      BY <3>1 DEF ShutdownInv
    <3> QED  BY <1>1, <3>2, RequestActionsFrame DEF ShutdownInv, process
  <2>2. CASE ~ \E k \in Kinds : Accept(r, k)
    <3>1. InFlight' \subseteq InFlight
      BY <1>1, <2>2
         DEF InFlight, Types, RequestTypes, RequestActions, ClientStep, RequestStep, BindFails,
             Bind, BindBatch, Call, CallPanics, Count, Reply, AnswerInvalid, Fork, Join, Work,
             Respond, Advance
    <3> QED  BY <1>1, <3>1, RequestActionsFrame DEF ShutdownInv, process
  <2> QED  BY <2>1, <2>2
<1>2. CASE ProcessActions
  <2>1. InFlight' = InFlight
    BY <1>2, ProcessActionsFrame DEF others, request, InFlight
  <2>2. expired => expired'
    BY <1>2 DEF ProcessActions, Listen, BeginReload, EndReload, Notify, Signal, BeginShutdown,
                ShutdownDone, ShutdownExpires, StopWatcher, CloseStore, End
  <2>3. main = "shutting" /\ main' = "stopping" => InFlight = {} \/ expired'
    BY <1>2 DEF ProcessActions, Listen, BeginReload, EndReload, Notify, Signal, BeginShutdown,
                ShutdownDone, ShutdownExpires, StopWatcher, CloseStore, End
  <2> QED
    BY <1>2, <2>1, <2>2, <2>3
       DEF ShutdownInv, Types, ProcessTypes, ProcessActions, Listen, BeginReload, EndReload,
           Notify, Signal, BeginShutdown, ShutdownDone, ShutdownExpires, StopWatcher, CloseStore
<1>3. CASE \E how \in Ended : End(how)
  BY <1>3 DEF End, Ended, ShutdownInv
<1>4. CASE UNCHANGED vars
  BY <1>4 DEF vars, process, request, ShutdownInv, InFlight
<1> QED  BY <1>1, <1>2, <1>3, <1>4, KindsOfSteps

\* Whatever clients, the watcher, the signal and the deadline do, a shutdown that
\* keeps its deadline closes the storage under nobody.
THEOREM ShutdownIsGraceful == Spec => []GracefulShutdown
<1>1. Init => Types /\ ShutdownInv
  BY InitTypes, ShutdownInvInit
<1>2. Types /\ ShutdownInv /\ [Next]_vars => (Types /\ ShutdownInv)'
  BY TypesStep, ShutdownInvStep
<1>3. ShutdownInv => GracefulShutdown
  BY DEF ShutdownInv, GracefulShutdown
<1> QED  BY <1>1, <1>2, <1>3, PTL DEF Spec

-------------------------------------------------------------------------------
(* The fork and join of a batch.                                           *)

\* The items its loop has left behind.
Handled(r) == IF pc[r] = "loop" THEN 1..(next[r] - 1) ELSE 1..size[r]

Settled(r, i) ==
  /\ results[r][i].item = i
  /\ results[r][i].code = "invalid" <=> i \notin valid[r]

\* A handled item has a goroutine or its result, never neither, the goroutines are as
\* many as the WaitGroup counts, and they are gone when wg.Wait has returned.
Joined(r) ==
  /\ wg[r] = Cardinality(working[r])
  /\ working[r] \subseteq Handled(r) \cap valid[r]
  /\ pc[r] \in {"count", "reply"} => working[r] = {}
  /\ \A i \in Handled(r) : i \in working[r] \/ Settled(r, i)

\* Nothing is there of a batch before BindBatch.
Unbound(r) ==
  /\ pc[r] \in {"idle", "bind", "call"} => size[r] = 0
  /\ pc[r] \in {"idle", "bind"} => results[r] = [i \in Items |-> ZeroResult]

BatchInv == \A r \in Requests : Joined(r) /\ Unbound(r)

LEMMA FiniteItems == IsFiniteSet(Items)
BY ServerAssumption, FS_Interval DEF Items

LEMMA NoBatchInv ==
  ASSUME NEW r \in Requests, pc[r] = "idle", size[r] = 0, wg[r] = 0, working[r] = {},
         results[r] = [i \in Items |-> ZeroResult]
  PROVE  Joined(r) /\ Unbound(r)
<1>1. Handled(r) = {}
  BY DEF Handled
<1> QED  BY <1>1, FS_EmptySet DEF Joined, Unbound

LEMMA BatchInvInit == Init => BatchInv
BY NoBatchInv DEF Init, BatchInv

\* Only the batch of the request that takes the step changes.
LEMMA OtherBatches ==
  ASSUME Types, BatchInv, NEW r \in Requests, RequestActions(r), NEW q \in Requests, q # r
  PROVE  (Joined(q) /\ Unbound(q))'
<1>1. /\ UNCHANGED <<pc[q], size[q], valid[q], next[q], wg[q], working[q]>>
      /\ UNCHANGED results[q]
  <2>1. AroundBatch(r) => UNCHANGED <<pc[q], batch>>
    BY DEF AroundBatch, Types, RequestTypes
  <2> QED
    BY <2>1, BatchActions
       DEF Types, RequestTypes, BatchTypes, batch, BindBatch, AnswerInvalid, Fork, Reply, Work,
           Done, SetResult, Advance, Respond
<1>2. Handled(q)' = Handled(q) /\ \A i \in Handled(q) : Settled(q, i)' <=> Settled(q, i)
  BY <1>1 DEF Handled, Settled
<1> QED  BY <1>1, <1>2 DEF BatchInv, Joined, Unbound

LEMMA AroundTheBatch ==
  ASSUME Types, BatchInv, NEW r \in Requests, AroundBatch(r)
  PROVE  (Joined(r) /\ Unbound(r))'
<1>1. Joined(r) /\ Unbound(r) /\ working[r] \in SUBSET Items /\ size[r] \in 0..MaxBatch
      /\ UNCHANGED <<size[r], valid[r], wg[r], working[r], results[r]>>
  BY DEF BatchInv, Types, BatchTypes, AroundBatch, batch
<1>2. /\ pc'[r] \in {"bind", "call", "count", "reply"}
      /\ pc'[r] = "bind" => pc[r] = "idle"
      /\ pc'[r] = "call" => pc[r] = "bind"
      /\ pc[r] # "loop" /\ pc[r] \in Places
  BY DEF AroundBatch, Types, RequestTypes
<1>3. Handled(r)' = Handled(r)
  BY <1>1, <1>2 DEF Handled
<1>4. working[r] = {}
  <2>1. CASE pc[r] = "join"
    <3>1. Cardinality(working[r]) = 0
      BY <1>1, <2>1 DEF AroundBatch, Joined
    <3>2. IsFiniteSet(working[r])
      BY <1>1, FiniteItems, FS_Subset
    <3> QED  BY <3>1, <3>2, FS_EmptySet
  <2>2. CASE pc[r] \in {"idle", "bind", "call"}
    BY <1>1, <2>2 DEF Joined, Unbound, Handled
  <2>3. CASE pc[r] \in {"count", "reply"}
    BY <1>1, <2>3 DEF Joined
  <2> QED  BY <1>2, <2>1, <2>2, <2>3 DEF Places
<1>5. \A i \in Handled(r) : Settled(r, i)' <=> Settled(r, i)
  BY <1>1 DEF Settled
<1>6. Joined(r)'
  BY <1>1, <1>2, <1>3, <1>4, <1>5 DEF Joined
<1>7. Unbound(r)'
  BY <1>1, <1>2 DEF Unbound
<1> QED  BY <1>6, <1>7

LEMMA BatchBegins ==
  ASSUME Types, BatchInv, NEW r \in Requests, BindBatch(r)
  PROVE  (Joined(r) /\ Unbound(r))'
<1>1. /\ Joined(r) /\ Unbound(r) /\ working[r] = {} /\ size[r] = 0
      /\ UNCHANGED <<wg[r], working[r], results[r]>>
  BY DEF BatchInv, Joined, Unbound, Handled, BindBatch
<1>2. CASE Respond(r, 400) /\ UNCHANGED <<since, size, valid, next>>
  <2>1. pc'[r] = "count" /\ size'[r] = 0
    BY <1>1, <1>2 DEF Respond, Types, RequestTypes
  <2>2. Handled(r)' = {}
    BY <2>1 DEF Handled
  <2> QED  BY <1>1, <2>1, <2>2 DEF Joined, Unbound
<1>3. CASE pc' = [pc EXCEPT ![r] = "loop"] /\ next' = [next EXCEPT ![r] = 1]
  <2>1. pc'[r] = "loop" /\ next'[r] = 1
    BY <1>3 DEF Types, RequestTypes, BatchTypes
  <2>2. Handled(r)' = {}
    BY <2>1 DEF Handled
  <2> QED  BY <1>1, <2>1, <2>2 DEF Joined, Unbound
<1> QED  BY <1>2, <1>3 DEF BindBatch

\* The loop leaves exactly the item it was at behind.
LEMMA AdvanceHandles ==
  ASSUME Types, NEW r \in Requests, pc[r] = "loop", Advance(r), UNCHANGED size
  PROVE  /\ Handled(r)' = Handled(r) \cup {next[r]}
         /\ next[r] \in Items /\ next[r] \notin Handled(r)
         /\ pc'[r] \in {"loop", "join"}
<1>1. next[r] \in 1..size[r] /\ size[r] \in 0..MaxBatch
  BY DEF Types, BatchTypes
<1>2. next[r] \in Items
  BY <1>1, ServerAssumption DEF Items
<1>3. CASE next[r] = size[r]
  <2>1. pc'[r] = "join" /\ size'[r] = size[r]
    BY <1>3 DEF Advance, Types, RequestTypes
  <2> QED  BY <1>1, <1>2, <1>3, <2>1 DEF Handled
<1>4. CASE next[r] # size[r]
  <2>1. pc'[r] = "loop" /\ next'[r] = next[r] + 1
    BY <1>4 DEF Advance, Types, BatchTypes
  <2> QED  BY <1>1, <1>2, <2>1 DEF Handled
<1> QED  BY <1>3, <1>4

LEMMA ItemIsInvalid ==
  ASSUME Types, BatchInv, NEW r \in Requests, AnswerInvalid(r)
  PROVE  (Joined(r) /\ Unbound(r))'
<1>0. PICK i \in Items : i = next[r]
  BY AdvanceHandles DEF AnswerInvalid
<1>1. /\ Handled(r)' = Handled(r) \cup {i} /\ i \notin Handled(r)
      /\ pc'[r] \in {"loop", "join"} /\ Joined(r)
      /\ UNCHANGED <<valid[r], wg[r], working[r]>>
  BY <1>0, AdvanceHandles DEF AnswerInvalid, BatchInv
<1>2. results'[r] = [results[r] EXCEPT ![i] = [item |-> i, code |-> "invalid", rules |-> 0]]
      /\ results[r] \in [Items -> Result]
  BY <1>0 DEF AnswerInvalid, SetResult, Types, BatchTypes
<1>3. i \notin valid[r]
  BY <1>0 DEF AnswerInvalid
<1>4. Settled(r, i)'
  BY <1>1, <1>2, <1>3 DEF Settled
<1>5. \A j \in Handled(r) : Settled(r, j)' <=> Settled(r, j)
  BY <1>1, <1>2 DEF Settled
<1>6. Joined(r)'
  BY <1>1, <1>4, <1>5 DEF Joined
<1> QED  BY <1>1, <1>6 DEF Unbound

LEMMA ItemIsForked ==
  ASSUME Types, BatchInv, NEW r \in Requests, Fork(r)
  PROVE  (Joined(r) /\ Unbound(r))'
<1>0. PICK i \in Items : i = next[r]
  BY AdvanceHandles DEF Fork
<1>1. /\ Handled(r)' = Handled(r) \cup {i} /\ i \notin Handled(r)
      /\ pc'[r] \in {"loop", "join"} /\ Joined(r)
      /\ UNCHANGED <<valid[r], results[r]>>
  BY <1>0, AdvanceHandles DEF Fork, BatchInv
<1>2. /\ working'[r] = working[r] \cup {i} /\ wg'[r] = wg[r] + 1 /\ i \in valid[r]
      /\ working[r] \in SUBSET Items
  BY <1>0 DEF Fork, Types, BatchTypes
<1>3. i \notin working[r]
  BY <1>1 DEF Joined
<1>4. wg'[r] = Cardinality(working'[r])
  <2>1. IsFiniteSet(working[r])
    BY <1>2, FiniteItems, FS_Subset
  <2>2. Cardinality(working[r] \cup {i}) = Cardinality(working[r]) + 1
    BY <1>3, <2>1, FS_AddElement
  <2> QED  BY <1>1, <1>2, <2>2 DEF Joined
<1>5. \A j \in Handled(r) : Settled(r, j)' <=> Settled(r, j)
  BY <1>1 DEF Settled
<1>6. Joined(r)'
  BY <1>1, <1>2, <1>4, <1>5 DEF Joined
<1> QED  BY <1>1, <1>6 DEF Unbound

LEMMA ItemIsDone ==
  ASSUME Types, BatchInv, NEW r \in Requests, NEW i \in Items, Work(r, i)
  PROVE  (Joined(r) /\ Unbound(r))'
<1>1. PICK code \in {"answered", "error"} :
        SetResult(r, i, i, code, IF code = "answered" THEN rules ELSE 0)
  BY DEF Work
<1> DEFINE result == [item |-> i, code |-> code,
                      rules |-> IF code = "answered" THEN rules ELSE 0]
<1>2. results'[r] = [results[r] EXCEPT ![i] = result] /\ results[r] \in [Items -> Result]
  BY <1>1 DEF SetResult, Types, BatchTypes
<1>3. result.item = i /\ result.code # "invalid"
  OBVIOUS
<1> HIDE DEF result
<1>4. /\ Joined(r) /\ Unbound(r) /\ i \in working[r]
      /\ UNCHANGED <<pc, size[r], valid[r], next[r]>>
      /\ working'[r] = working[r] \ {i} /\ wg'[r] = wg[r] - 1
      /\ working[r] \in SUBSET Items
  BY DEF Work, Done, BatchInv, Types, BatchTypes
<1>5. Handled(r)' = Handled(r)
  BY <1>4 DEF Handled
<1>6. wg'[r] = Cardinality(working'[r])
  <2>1. IsFiniteSet(working[r])
    BY <1>4, FiniteItems, FS_Subset
  <2>2. Cardinality(working[r] \ {i}) = Cardinality(working[r]) - 1
    BY <1>4, <2>1, FS_RemoveElement
  <2> QED  BY <1>4, <2>2 DEF Joined
<1>7. Settled(r, i)'
  BY <1>2, <1>3, <1>4 DEF Settled, Joined
<1>8. \A j \in Handled(r) \ {i} : Settled(r, j)' <=> Settled(r, j)
  BY <1>2, <1>4 DEF Settled
<1>9. Joined(r)'
  BY <1>4, <1>5, <1>6, <1>7, <1>8 DEF Joined
<1>10. pc[r] \in {"loop", "join"}
  <2>1. i \in Handled(r) /\ pc[r] \notin {"count", "reply"} /\ pc[r] \in Places
    BY <1>4 DEF Joined, Types, RequestTypes
  <2> QED  BY <1>4, <2>1 DEF Handled, Unbound, Places
<1> QED  BY <1>4, <1>9, <1>10 DEF Unbound

LEMMA BatchIsForgotten ==
  ASSUME Types, BatchInv, NEW r \in Requests, Reply(r)
  PROVE  (Joined(r) /\ Unbound(r))'
<1>1. /\ pc'[r] = "idle" /\ size'[r] = 0 /\ UNCHANGED <<wg[r], working[r]>>
      /\ results'[r] = [i \in Items |-> ZeroResult]
  BY DEF Reply, Types, RequestTypes, BatchTypes
<1>2. working[r] = {} /\ wg[r] = Cardinality(working[r])
  BY DEF Reply, BatchInv, Joined
<1>3. Handled(r)' = {}
  BY <1>1 DEF Handled
<1> QED  BY <1>1, <1>2, <1>3 DEF Joined, Unbound

LEMMA BatchInvStep ==
  ASSUME Types, BatchInv, [Next]_vars
  PROVE  BatchInv'
<1>1. ASSUME NEW r \in Requests, RequestActions(r)
      PROVE  BatchInv'
  <2>1. (Joined(r) /\ Unbound(r))'
    BY <1>1, BatchActions, AroundTheBatch, BatchBegins, ItemIsInvalid, ItemIsForked,
       ItemIsDone, BatchIsForgotten
  <2> QED  BY <1>1, <2>1, OtherBatches DEF BatchInv
<1>2. CASE ProcessActions \/ UNCHANGED vars
  <2>1. UNCHANGED <<pc, batch>>
    BY <1>2, ProcessActionsFrame DEF vars, others, request
  <2> QED  BY <2>1 DEF batch, BatchInv, Joined, Unbound, Handled, Settled
<1>3. CASE \E how \in Ended : End(how)
  <2>1. ASSUME NEW r \in Requests
        PROVE  (Joined(r) /\ Unbound(r))'
    <3>1. /\ pc'[r] = "idle" /\ size'[r] = 0 /\ wg'[r] = 0 /\ working'[r] = {}
          /\ results'[r] = [i \in Items |-> ZeroResult]
      BY <1>3 DEF End
    <3>2. Handled(r)' = {}
      BY <3>1 DEF Handled
    <3> QED  BY <3>1, <3>2, FS_EmptySet DEF Joined, Unbound
  <2> QED  BY <2>1 DEF BatchInv
<1> QED  BY <1>1, <1>2, <1>3, KindsOfSteps

\* No goroutine of a batch outlives its request, none of its items is left out or
\* answered twice, and the WaitGroup is never below zero.
THEOREM BatchesAreJoined == Spec => []BatchJoined
<1>1. Init => Types /\ BatchInv
  BY InitTypes, BatchInvInit
<1>2. Types /\ BatchInv /\ [Next]_vars => (Types /\ BatchInv)'
  BY TypesStep, BatchInvStep
<1>3. Types /\ BatchInv => BatchJoined
  <2> SUFFICES ASSUME Types, BatchInv  PROVE BatchJoined
    OBVIOUS
  <2>1. wg \in [Requests -> 0..MaxBatch]
    <3>1. ASSUME NEW r \in Requests  PROVE wg[r] \in 0..MaxBatch
      <4>1. working[r] \in SUBSET Items
        BY DEF Types, BatchTypes
      <4>2. Cardinality(working[r]) <= Cardinality(Items) /\ IsFiniteSet(working[r])
        BY <4>1, FiniteItems, FS_Subset
      <4>3. Cardinality(working[r]) \in Nat
        BY <4>2, FS_CardinalityType
      <4>4. Cardinality(Items) = MaxBatch
        BY ServerAssumption, FS_Interval DEF Items
      <4> QED  BY <4>2, <4>3, <4>4, ServerAssumption DEF BatchInv, Joined
    <3> QED  BY <3>1 DEF Types, BatchTypes
  <2>2. TypeOK
    BY <2>1 DEF Types, ProcessTypes, RequestTypes, BatchTypes, CountTypes, TypeOK, Places,
                Result
  <2>3. ASSUME NEW r \in Requests
        PROVE  /\ pc[r] \in {"idle", "count", "reply"} => working[r] = {}
               /\ pc[r] \in {"count", "reply"} =>
                    \A i \in 1..size[r] : Settled(r, i)
    BY DEF BatchInv, Joined, Unbound, Handled
  <2> QED  BY <2>2, <2>3 DEF BatchJoined, Settled
<1> QED  BY <1>1, <1>2, <1>3, PTL DEF Spec

-------------------------------------------------------------------------------
(* The verdicts of a batch.                                                *)

\* `since` is the version in force when it was read.
VerdictInv ==
  /\ \A r \in Requests : since[r] <= rules
  /\ NoStaleVerdict

LEMMA VerdictInvInit == Init => VerdictInv
BY ServerAssumption DEF Init, VerdictInv, NoStaleVerdict, ZeroResult

LEMMA VerdictInvStep ==
  ASSUME Types, BatchInv, VerdictInv, [Next]_vars
  PROVE  VerdictInv'
<1>0. Types'
  BY TypesStep
<1>1. ASSUME NEW r \in Requests, RequestActions(r)
      PROVE  VerdictInv'
  <2>1. rules' = rules /\ rules \in Int
    BY <1>1, RequestActionsFrame, ServerAssumption DEF process, Types, ProcessTypes
  <2>2. /\ pc \in [Requests -> Places] /\ pc' \in [Requests -> Places]
        /\ since \in [Requests -> 0..MaxReloads]
        /\ results \in [Requests -> [Items -> Result]]
    BY <1>0 DEF Types, RequestTypes, BatchTypes
  <2>3. ASSUME NEW q \in Requests
        PROVE  since'[q] <= rules
    <3>1. UNCHANGED since \/ since' = [since EXCEPT ![r] = rules]
            \/ since' = [since EXCEPT ![r] = 0]
      BY <1>1 DEF RequestActions, ClientStep, RequestStep, Accept, BindFails, Bind, BindBatch,
                  Call, CallPanics, Count, Reply, AnswerInvalid, Fork, Join, Work
    <3>2. 0 <= rules
      BY ServerAssumption DEF Types, ProcessTypes
    <3> QED  BY <2>1, <2>2, <3>1, <3>2 DEF VerdictInv
  <2>4. ASSUME NEW q \in Requests, NEW i \in Items, results'[q][i].code = "answered"
        PROVE  results'[q][i].rules >= since'[q]
    <3>1. CASE Bind(r) \/ BindBatch(r)
      <4>1. results[r] = [j \in Items |-> ZeroResult] /\ UNCHANGED results
        BY <3>1 DEF Bind, BindBatch, BatchInv, Unbound, batch
      <4>2. q # r
        BY <2>4, <4>1 DEF ZeroResult
      <4>3. since'[q] = since[q]
        BY <2>2, <3>1, <4>2 DEF Bind, BindBatch
      <4> QED  BY <2>4, <4>1, <4>3 DEF VerdictInv, NoStaleVerdict
    <3>2. CASE AnswerInvalid(r)
      <4>1. UNCHANGED since
        BY <3>2 DEF AnswerInvalid
      <4>2. results'[q][i] = results[q][i]
        BY <2>2, <2>4, <3>2 DEF AnswerInvalid, SetResult
      <4> QED  BY <2>4, <4>1, <4>2 DEF VerdictInv, NoStaleVerdict
    <3>3. ASSUME NEW j \in Items, Work(r, j)
          PROVE  results'[q][i].rules >= since'[q]
      <4>1. UNCHANGED since
        BY <3>3 DEF Work
      <4>2. CASE q = r /\ i = j
        <5>1. results'[q][i].rules = rules
          BY <2>2, <2>4, <3>3, <4>2 DEF Work, SetResult
        <5> QED  BY <2>1, <2>2, <4>1, <5>1 DEF VerdictInv
      <4>3. CASE ~(q = r /\ i = j)
        <5>1. results'[q][i] = results[q][i]
          BY <2>2, <3>3, <4>3 DEF Work, SetResult
        <5> QED  BY <2>4, <4>1, <5>1 DEF VerdictInv, NoStaleVerdict
      <4> QED  BY <4>2, <4>3
    <3>4. CASE Reply(r)
      <4>1. q # r
        BY <2>2, <2>4, <3>4 DEF Reply, ZeroResult
      <4>2. results'[q] = results[q] /\ since'[q] = since[q]
        BY <2>2, <3>4, <4>1 DEF Reply
      <4> QED  BY <2>4, <4>2 DEF VerdictInv, NoStaleVerdict
    <3>5. CASE UNCHANGED <<since, results>>
      BY <2>4, <3>5 DEF VerdictInv, NoStaleVerdict
    <3>6. \/ Bind(r) \/ BindBatch(r) \/ AnswerInvalid(r) \/ Reply(r)
          \/ \E j \in Items : Work(r, j)
          \/ UNCHANGED <<since, results>>
      BY <1>1 DEF RequestActions, ClientStep, RequestStep, Accept, BindFails, Call, CallPanics,
                  Count, Fork, Join, batch
    <3> QED  BY <3>1, <3>2, <3>3, <3>4, <3>5, <3>6
  <2> QED  BY <2>1, <2>3, <2>4 DEF VerdictInv, NoStaleVerdict
<1>2. CASE ProcessActions
  <2>1. UNCHANGED <<pc, results, since>>
    BY <1>2, ProcessActionsFrame DEF others, request, batch
  <2>2. rules' >= rules /\ rules \in Int /\ rules' \in Int
    BY <1>2, ServerAssumption
       DEF Types, ProcessTypes, ProcessActions, Listen, BeginReload, EndReload, Notify, Signal,
           BeginShutdown, ShutdownDone, ShutdownExpires, StopWatcher, CloseStore, End
  <2>3. \A r \in Requests : since[r] \in Int
    BY DEF Types, RequestTypes
  <2> QED  BY <2>1, <2>2, <2>3 DEF VerdictInv, NoStaleVerdict
<1>3. CASE \E how \in Ended : End(how)
  BY <1>3, ServerAssumption DEF End, VerdictInv, NoStaleVerdict, ZeroResult
<1>4. CASE UNCHANGED vars
  BY <1>4 DEF vars, process, request, batch, VerdictInv, NoStaleVerdict
<1> QED  BY <1>1, <1>2, <1>3, <1>4, KindsOfSteps

\* However long the goroutines of a batch take, none of them answers by rules that had
\* been replaced before the batch came in.
THEOREM NoVerdictIsStale == Spec => []NoStaleVerdict
<1>1. Init => Types /\ BatchInv /\ VerdictInv
  BY InitTypes, BatchInvInit, VerdictInvInit
<1>2. Types /\ BatchInv /\ VerdictInv /\ [Next]_vars => (Types /\ BatchInv /\ VerdictInv)'
  BY TypesStep, BatchInvStep, VerdictInvStep
<1>3. VerdictInv => NoStaleVerdict
  BY DEF VerdictInv
<1> QED  BY <1>1, <1>2, <1>3, PTL DEF Spec

-------------------------------------------------------------------------------
(* The metrics.                                                            *)

\* The responses under way, that Leaving counts.
OnTheWay(k, codes) == {r \in Requests : pc[r] = "reply" /\ kind[r] = k /\ status[r] \in codes}

LEMMA LeavingFacts ==
  ASSUME NEW k, NEW codes
  PROVE  /\ IsFiniteSet(OnTheWay(k, codes))
         /\ Leaving(k, codes) = Cardinality(OnTheWay(k, codes))
         /\ Leaving(k, codes) \in Nat
<1>1. OnTheWay(k, codes) \in SUBSET Requests
  BY DEF OnTheWay
<1>2. IsFiniteSet(OnTheWay(k, codes))
  BY <1>1, FS_Subset, ServerAssumption
<1> QED  BY <1>2, FS_CardinalityType DEF Leaving, OnTheWay

\* Nothing is on its way but what was.
LEMMA LeavingStays ==
  ASSUME NEW k, NEW codes, OnTheWay(k, codes)' = OnTheWay(k, codes)
  PROVE  Leaving(k, codes)' = Leaving(k, codes)
BY DEF Leaving, OnTheWay

LEMMA LeavingGrows ==
  ASSUME NEW k, NEW codes, NEW r \in Requests, pc[r] # "reply", pc'[r] = "reply",
         \A q \in Requests \ {r} : UNCHANGED <<pc[q], kind[q], status[q]>>
  PROVE  Leaving(k, codes)' = IF kind'[r] = k /\ status'[r] \in codes
                                THEN Leaving(k, codes) + 1 ELSE Leaving(k, codes)
<1>1. r \notin OnTheWay(k, codes)
  BY DEF OnTheWay
<1>2. CASE kind'[r] = k /\ status'[r] \in codes
  <2>1. OnTheWay(k, codes)' = OnTheWay(k, codes) \cup {r}
    BY <1>2 DEF OnTheWay
  <2>2. Cardinality(OnTheWay(k, codes) \cup {r}) = Cardinality(OnTheWay(k, codes)) + 1
    BY <1>1, LeavingFacts, FS_AddElement
  <2> QED  BY <1>2, <2>1, <2>2 DEF Leaving, OnTheWay
<1>3. CASE ~(kind'[r] = k /\ status'[r] \in codes)
  <2>1. OnTheWay(k, codes)' = OnTheWay(k, codes)
    BY <1>3 DEF OnTheWay
  <2> QED  BY <1>3, <2>1, LeavingStays
<1> QED  BY <1>2, <1>3

LEMMA LeavingShrinks ==
  ASSUME NEW k, NEW codes, NEW r \in Requests, pc[r] = "reply", pc'[r] # "reply",
         \A q \in Requests \ {r} : UNCHANGED <<pc[q], kind[q], status[q]>>
  PROVE  Leaving(k, codes)' = IF kind[r] = k /\ status[r] \in codes
                                THEN Leaving(k, codes) - 1 ELSE Leaving(k, codes)
<1>1. r \notin OnTheWay(k, codes)'
  BY DEF OnTheWay
<1>2. CASE kind[r] = k /\ status[r] \in codes
  <2>1. OnTheWay(k, codes)' = OnTheWay(k, codes) \ {r} /\ r \in OnTheWay(k, codes)
    BY <1>2 DEF OnTheWay
  <2>2. Cardinality(OnTheWay(k, codes) \ {r}) = Cardinality(OnTheWay(k, codes)) - 1
    BY <2>1, LeavingFacts, FS_RemoveElement
  <2> QED  BY <1>2, <2>1, <2>2 DEF Leaving, OnTheWay
<1>3. CASE ~(kind[r] = k /\ status[r] \in codes)
  <2>1. OnTheWay(k, codes)' = OnTheWay(k, codes)
    BY <1>3 DEF OnTheWay
  <2> QED  BY <1>3, <2>1, LeavingStays
<1> QED  BY <1>2, <1>3

LEMMA MetricsInit == Init => MetricsAccount
<1> SUFFICES ASSUME Init  PROVE MetricsAccount
  OBVIOUS
<1>1. ASSUME NEW k \in Kinds, NEW codes
      PROVE  Leaving(k, codes) = 0
  <2>1. OnTheWay(k, codes) = {}
    BY DEF Init, OnTheWay
  <2> QED  BY <2>1, FS_EmptySet DEF Leaving, OnTheWay
<1>2. \A k \in Kinds : /\ totalRequests[k] = 0 /\ failedRequests[k] = 0 /\ recovered[k] = 0
                       /\ answered[k] = 0 /\ refused[k] = 0
  BY DEF Init, NoneYet
<1> QED  BY <1>1, <1>2 DEF MetricsAccount

LEMMA MetricsStep ==
  ASSUME Types, MetricsAccount, [Next]_vars
  PROVE  MetricsAccount'
<1>0. Types'
  BY TypesStep
<1> SUFFICES ASSUME NEW k \in Kinds \ {"options"}
             PROVE  /\ totalRequests'[k] + recovered'[k] = answered'[k] + Leaving(k, Statuses)'
                    /\ failedRequests'[k] + recovered'[k]
                         = refused'[k] + Leaving(k, {400, 404, 500})'
  BY DEF MetricsAccount, Statuses
<1>2. /\ totalRequests[k] + recovered[k] = answered[k] + Leaving(k, Statuses)
      /\ failedRequests[k] + recovered[k] = refused[k] + Leaving(k, {400, 404, 500})
      /\ totalRequests[k] \in Nat /\ failedRequests[k] \in Nat /\ recovered[k] \in Nat
      /\ answered[k] \in Nat /\ refused[k] \in Nat
      /\ Leaving(k, Statuses) \in Nat /\ Leaving(k, {400, 404, 500}) \in Nat
  BY LeavingFacts DEF MetricsAccount, Types, CountTypes
<1>3. ASSUME NEW r \in Requests, RequestActions(r)
      PROVE  /\ totalRequests'[k] + recovered'[k] = answered'[k] + Leaving(k, Statuses)'
             /\ failedRequests'[k] + recovered'[k]
                  = refused'[k] + Leaving(k, {400, 404, 500})'
  <2>1. /\ pc \in [Requests -> Places] /\ kind \in [Requests -> AllKinds]
        /\ status \in [Requests -> Statuses]
        /\ totalRequests \in [Kinds -> Nat] /\ failedRequests \in [Kinds -> Nat]
        /\ answered \in [Kinds -> Nat] /\ refused \in [Kinds -> Nat]
        /\ recovered \in [Kinds -> Nat]
    BY DEF Types, RequestTypes, CountTypes
  <2>2. CASE Count(r)
    <3>1. /\ pc[r] # "reply" /\ pc'[r] = "reply" /\ UNCHANGED <<kind, status>>
          /\ \A q \in Requests \ {r} : UNCHANGED <<pc[q], kind[q], status[q]>>
      BY <2>1, <2>2 DEF Count
    <3>2. \A codes : Leaving(k, codes)' = IF kind[r] = k /\ status[r] \in codes
                                            THEN Leaving(k, codes) + 1 ELSE Leaving(k, codes)
      BY <3>1, LeavingGrows
    <3>3. status[r] \in Statuses /\ (status[r] >= 400 <=> status[r] \in {400, 404, 500})
      BY <2>1 DEF Statuses
    <3>4. /\ totalRequests'[k] = IF kind[r] = k THEN totalRequests[k] + 1 ELSE totalRequests[k]
          /\ failedRequests'[k] = IF kind[r] = k /\ status[r] >= 400
                                    THEN failedRequests[k] + 1 ELSE failedRequests[k]
          /\ UNCHANGED <<answered, refused, recovered>>
      BY <2>1, <2>2 DEF Count, history
    <3>5. totalRequests'[k] + recovered'[k] = answered'[k] + Leaving(k, Statuses)'
      BY <1>2, <3>2, <3>3, <3>4
    <3>6. failedRequests'[k] + recovered'[k] = refused'[k] + Leaving(k, {400, 404, 500})'
      BY <1>2, <3>2, <3>3, <3>4
    <3> QED  BY <3>5, <3>6
  <2>3. CASE CallPanics(r)
    <3>1. /\ pc[r] # "reply" /\ pc'[r] = "reply" /\ UNCHANGED kind /\ status'[r] = 500
          /\ \A q \in Requests \ {r} : UNCHANGED <<pc[q], kind[q], status[q]>>
      BY <2>1, <2>3 DEF CallPanics
    <3>2. \A codes : Leaving(k, codes)' = IF kind[r] = k /\ 500 \in codes
                                            THEN Leaving(k, codes) + 1 ELSE Leaving(k, codes)
      BY <3>1, LeavingGrows
    <3>3. /\ recovered'[k] = IF kind[r] = k THEN recovered[k] + 1 ELSE recovered[k]
          /\ UNCHANGED <<totalRequests, failedRequests, answered, refused>>
      BY <2>1, <2>3 DEF CallPanics, metrics
    <3>4. 500 \in Statuses /\ 500 \in {400, 404, 500}
      BY DEF Statuses
    <3>5. totalRequests'[k] + recovered'[k] = answered'[k] + Leaving(k, Statuses)'
      BY <1>2, <3>2, <3>3, <3>4
    <3>6. failedRequests'[k] + recovered'[k] = refused'[k] + Leaving(k, {400, 404, 500})'
      BY <1>2, <3>2, <3>3, <3>4
    <3> QED  BY <3>5, <3>6
  <2>4. CASE Reply(r)
    <3>1. /\ pc[r] = "reply" /\ pc'[r] # "reply"
          /\ \A q \in Requests \ {r} : UNCHANGED <<pc[q], kind[q], status[q]>>
      BY <2>1, <2>4 DEF Reply
    <3>2. \A codes : Leaving(k, codes)' = IF kind[r] = k /\ status[r] \in codes
                                            THEN Leaving(k, codes) - 1 ELSE Leaving(k, codes)
      BY <3>1, LeavingShrinks
    <3>3. status[r] \in Statuses /\ (status[r] >= 400 <=> status[r] \in {400, 404, 500})
      BY <2>1 DEF Statuses
    <3>4. /\ answered'[k] = IF kind[r] = k THEN answered[k] + 1 ELSE answered[k]
          /\ refused'[k] = IF kind[r] = k /\ status[r] >= 400
                             THEN refused[k] + 1 ELSE refused[k]
          /\ UNCHANGED <<totalRequests, failedRequests, recovered>>
      BY <2>1, <2>4 DEF Reply, metrics
    <3>5. totalRequests'[k] + recovered'[k] = answered'[k] + Leaving(k, Statuses)'
      <4>1. Leaving(k, Statuses)' = IF kind[r] = k THEN Leaving(k, Statuses) - 1
                                      ELSE Leaving(k, Statuses)
        BY <3>2, <3>3
      <4> QED  BY <1>2, <3>4, <4>1
    <3>6. failedRequests'[k] + recovered'[k] = refused'[k] + Leaving(k, {400, 404, 500})'
      BY <1>2, <3>2, <3>3, <3>4
    <3> QED  BY <3>5, <3>6
  <2>5. CASE ~(Count(r) \/ CallPanics(r) \/ Reply(r))
    <3>1. /\ UNCHANGED <<metrics, history>>
          /\ pc[r] = "reply" => UNCHANGED <<pc, kind, status>>
          /\ \A q \in Requests \ {r} : UNCHANGED <<pc[q], kind[q], status[q]>>
          /\ kind'[r] = k => pc[r] = "reply" \/ pc'[r] # "reply"
      <4>1. CASE \E j \in Kinds : Accept(r, j)
        BY <2>1, <4>1 DEF Accept, Respond, metrics, history
      <4>2. CASE Bind(r) \/ BindFails(r) \/ BindBatch(r) \/ Call(r) \/ Join(r)
        BY <2>1, <4>2 DEF Bind, BindFails, BindBatch, Call, Join, Respond
      <4>3. CASE AnswerInvalid(r) \/ Fork(r) \/ \E i \in Items : Work(r, i)
        BY <2>1, <4>3 DEF AnswerInvalid, Fork, Work, Advance
      <4> QED
        BY <1>3, <2>5, <4>1, <4>2, <4>3 DEF RequestActions, ClientStep, RequestStep
    <3>2. \A codes : OnTheWay(k, codes)' = OnTheWay(k, codes)
      BY <3>1 DEF OnTheWay
    <3> QED  BY <1>2, <3>1, <3>2, LeavingStays DEF metrics, history
  <2> QED  BY <2>2, <2>3, <2>4, <2>5
<1>4. CASE ProcessActions \/ UNCHANGED vars
  <2>1. UNCHANGED <<pc, kind, status, metrics, history>>
    BY <1>4, ProcessActionsFrame DEF vars, others, request
  <2>2. \A codes : OnTheWay(k, codes)' = OnTheWay(k, codes)
    BY <2>1 DEF OnTheWay
  <2> QED  BY <1>2, <2>1, <2>2, LeavingStays DEF metrics, history
<1>5. CASE \E how \in Ended : End(how)
  <2>1. \A codes : OnTheWay(k, codes)' = {}
    BY <1>5 DEF End, OnTheWay
  <2>2. \A codes : Leaving(k, codes)' = 0
    BY <2>1, FS_EmptySet DEF Leaving, OnTheWay
  <2> QED  BY <1>5, <2>2 DEF End, NoneYet
<1> QED  BY <1>3, <1>4, <1>5, KindsOfSteps

\* Whatever panics, fails or is refused meanwhile, the metrics miss exactly what
\* panicked.
THEOREM MetricsAreKept == Spec => []MetricsAccount
<1>1. Init => Types /\ MetricsAccount
  BY InitTypes, MetricsInit
<1>2. Types /\ MetricsAccount /\ [Next]_vars => (Types /\ MetricsAccount)'
  BY TypesStep, MetricsStep
<1> QED  BY <1>1, <1>2, PTL DEF Spec

-------------------------------------------------------------------------------
(* The start-up checker.                                                   *)

LEMMA ReportsOf ==
  ASSUME NEW S, NEW f
  PROVE  f \in Reports(S) <=> /\ f = [k \in DOMAIN f |-> f[k]]
                              /\ DOMAIN f \subseteq S
                              /\ \A k \in DOMAIN f : f[k] \in BOOLEAN
BY DEF Reports

LEMMA ReportsWith ==
  ASSUME NEW S, NEW f \in Reports(S), NEW k \in S, NEW b \in BOOLEAN
  PROVE  With(f, k, b) \in Reports(S)
BY ReportsOf DEF With

LEMMA StartupTypesInit == StartupInit => StartupTypes
<1> SUFFICES ASSUME StartupInit  PROVE StartupTypes
  OBVIOUS
<1>1. \A S : Nothing \in Reports(S)
  BY ReportsOf DEF Nothing
<1>2. 0 \in 0..Changes /\ 0 \in 0..MaxRetries
  BY StartupAssumption
<1> QED  BY <1>1, <1>2 DEF StartupInit, StartupTypes

LEMMA StartupTypesStep == StartupTypes /\ [StartupNext]_startupVars => StartupTypes'
<1> SUFFICES ASSUME StartupTypes, [StartupNext]_startupVars  PROVE StartupTypes'
  OBVIOUS
<1> USE DEF StartupTypes
<1>0. MaxRetries \in Nat \ {0} /\ Changes \in Nat /\ DOMAIN Name = Checkers
  BY StartupAssumption
<1>1. CASE BeginCheckAll
  BY <1>1, ReportsOf DEF BeginCheckAll, environment, Nothing
<1>2. ASSUME NEW c \in Checkers, Check(c)  PROVE StartupTypes'
  <2>1. c \in checkers
    BY <1>2 DEF Check
  <2>2. PICK healthy \in BOOLEAN : unpublished' = With(unpublished, c, healthy)
                                   /\ observed' = With(observed, c, healthy)
    BY <1>2 DEF Check
  <2>3. unpublished' \in Reports(checkers) /\ observed' \in Reports(checkers)
    BY <2>1, <2>2, ReportsWith
  <2> QED  BY <1>2, <2>3 DEF Check, environment
<1>3. ASSUME NEW c \in Checkers, Publish(c)  PROVE StartupTypes'
  <2>1. unpublished[c] \in BOOLEAN /\ Name[c] \in Range(Name)
    BY <1>0, <1>3, ReportsOf DEF Publish, Range
  <2>2. statuses' \in Reports(Range(Name))
    BY <1>3, <2>1, ReportsWith DEF Publish
  <2>3. unpublished' \in Reports(checkers)
    BY <1>3, ReportsOf DEF Publish, Restrict
  <2> QED  BY <1>3, <2>2, <2>3 DEF Publish, environment
<1>4. CASE EndCheckAll
  BY <1>0, <1>4 DEF EndCheckAll, environment, answers
<1>5. CASE Resume \/ Cancelled \/ Expire \/ CallerGivesUp
  BY <1>5 DEF Resume, Cancelled, Expire, CallerGivesUp, environment, answers
<1>6. ASSUME NEW c \in Checkers, Register(c)  PROVE StartupTypes'
  BY <1>6 DEF Register, answers
<1>7. ASSUME NEW c \in Checkers, Change(c)  PROVE StartupTypes'
  BY <1>0, <1>7 DEF Change, answers
<1>8. CASE UNCHANGED startupVars
  BY <1>8 DEF startupVars, environment, answers
<1> QED  BY <1>1, <1>2, <1>3, <1>4, <1>5, <1>6, <1>7, <1>8
        DEF StartupNext, WaitStep, CheckerStep

Published == DOMAIN observed \ DOMAIN unpublished

\* The map holds, under each name, the answer of this round of a checker of that name.
RoundInv ==
  /\ DOMAIN observed = checkers \ running
  /\ \A c \in DOMAIN unpublished : c \in DOMAIN observed /\ unpublished[c] = observed[c]
  /\ \A c \in Published : Name[c] \in DOMAIN statuses
  /\ \A n \in DOMAIN statuses : \E d \in Published : Name[d] = n /\ statuses[n] = observed[d]
  /\ phase = "ready" => AllDone /\ IsHealthy

LEMMA RoundInit == StartupInit => RoundInv
BY DEF StartupInit, RoundInv, Published, Nothing

LEMMA RoundStep == StartupTypes /\ RoundInv /\ [StartupNext]_startupVars => RoundInv'
<1> SUFFICES ASSUME StartupTypes, RoundInv, [StartupNext]_startupVars  PROVE RoundInv'
  OBVIOUS
<1>1. CASE BeginCheckAll
  BY <1>1 DEF BeginCheckAll, RoundInv, Published, Nothing
<1>2. ASSUME NEW c \in Checkers, Check(c)  PROVE RoundInv'
  <2>1. /\ c \in running /\ running' = running \ {c} /\ c \in checkers
        /\ c \notin DOMAIN observed /\ c \notin DOMAIN unpublished
    BY <1>2 DEF Check, StartupTypes, RoundInv
  <2>2. PICK healthy \in BOOLEAN : unpublished' = With(unpublished, c, healthy)
                                   /\ observed' = With(observed, c, healthy)
    BY <1>2 DEF Check
  <2>3. UNCHANGED <<checkers, statuses, phase>>
    BY <1>2 DEF Check
  <2>4. /\ DOMAIN observed' = DOMAIN observed \cup {c} /\ observed'[c] = healthy
        /\ DOMAIN unpublished' = DOMAIN unpublished \cup {c} /\ unpublished'[c] = healthy
        /\ \A d \in DOMAIN observed : observed'[d] = observed[d]
        /\ \A d \in DOMAIN unpublished : unpublished'[d] = unpublished[d]
    BY <2>1, <2>2 DEF With
  <2>5. Published' = Published
    BY <2>1, <2>4 DEF Published
  <2>6. phase # "ready"
    BY <2>1 DEF RoundInv, AllDone
  <2>7. DOMAIN observed' = checkers' \ running'
    BY <2>1, <2>3, <2>4 DEF RoundInv
  <2>8. \A d \in DOMAIN unpublished' : d \in DOMAIN observed' /\ unpublished'[d] = observed'[d]
    BY <2>1, <2>4 DEF RoundInv
  <2>9. \A n \in DOMAIN statuses : \E d \in Published : Name[d] = n /\ statuses[n] = observed'[d]
    BY <2>4 DEF RoundInv, Published
  <2> QED  BY <2>3, <2>5, <2>6, <2>7, <2>8, <2>9 DEF RoundInv
<1>3. ASSUME NEW c \in Checkers, Publish(c)  PROVE RoundInv'
  <2>1. /\ c \in DOMAIN unpublished /\ c \in DOMAIN observed /\ unpublished[c] = observed[c]
        /\ UNCHANGED <<checkers, running, observed, phase>>
    BY <1>3 DEF Publish, RoundInv
  <2>2. /\ DOMAIN unpublished' = DOMAIN unpublished \ {c}
        /\ \A d \in DOMAIN unpublished' : unpublished'[d] = unpublished[d]
    BY <1>3 DEF Publish, Restrict
  <2>3. /\ DOMAIN statuses' = DOMAIN statuses \cup {Name[c]}
        /\ statuses'[Name[c]] = observed[c]
        /\ \A n \in DOMAIN statuses' : n # Name[c] => statuses'[n] = statuses[n]
    BY <1>3, <2>1 DEF Publish, With
  <2>4. Published' = Published \cup {c}
    BY <2>1, <2>2 DEF Published
  <2>5. phase # "ready"
    BY <2>1 DEF RoundInv, AllDone
  <2>6. \A n \in DOMAIN statuses' : \E d \in Published' : Name[d] = n /\ statuses'[n] = observed'[d]
    BY <2>1, <2>3, <2>4 DEF RoundInv
  <2>7. \A d \in Published' : Name[d] \in DOMAIN statuses'
    BY <2>3, <2>4 DEF RoundInv
  <2>8. \A d \in DOMAIN unpublished' : d \in DOMAIN observed' /\ unpublished'[d] = observed'[d]
    BY <2>1, <2>2 DEF RoundInv
  <2> QED  BY <2>1, <2>5, <2>6, <2>7, <2>8 DEF RoundInv
<1>4. CASE EndCheckAll
  <2>1. phase' = "ready" => IsHealthy
    BY <1>4, StartupAssumption DEF EndCheckAll, StartupTypes
  <2> QED  BY <1>4, <2>1 DEF EndCheckAll, RoundInv, Published, AllDone, IsHealthy, answers
<1>5. CASE \/ Resume \/ Cancelled \/ Expire \/ CallerGivesUp \/ UNCHANGED startupVars
           \/ \E c \in Checkers : Register(c) \/ Change(c)
  <2>1. UNCHANGED <<checkers, answers>> /\ (phase' = phase \/ phase' # "ready")
    BY <1>5 DEF Resume, Cancelled, Expire, CallerGivesUp, Register, Change, startupVars
  <2> QED  BY <2>1 DEF RoundInv, Published, AllDone, IsHealthy, answers
<1> QED  BY <1>1, <1>2, <1>3, <1>4, <1>5 DEF StartupNext, WaitStep, CheckerStep

\* WaitForReady succeeds only after a round in which every checker it listed has
\* answered and every name was reported healthy, for any checkers, names and bounds.
THEOREM ReadyIsAlwaysReported == StartupSpec => []ReadyMeansReported
<1>1. StartupInit => StartupTypes /\ RoundInv
  BY StartupTypesInit, RoundInit
<1>2. StartupTypes /\ RoundInv /\ [StartupNext]_startupVars => (StartupTypes /\ RoundInv)'
  BY StartupTypesStep, RoundStep
<1>3. StartupTypes /\ RoundInv => ReadyMeansReported
  <2> SUFFICES ASSUME StartupTypes, RoundInv, phase = "ready", NEW c \in checkers
               PROVE  c \in DOMAIN observed /\ \E d \in checkers : Name[d] = Name[c] /\ observed[d]
    BY DEF ReadyMeansReported
  <2>1. running = {} /\ DOMAIN unpublished = {} /\ IsHealthy
    BY DEF RoundInv, AllDone
  <2>2. DOMAIN observed = checkers /\ Published = checkers
    BY <2>1 DEF RoundInv, Published
  <2>3. Name[c] \in DOMAIN statuses /\ statuses[Name[c]]
    BY <2>1, <2>2 DEF RoundInv, IsHealthy
  <2>4. PICK d \in checkers : Name[d] = Name[c] /\ statuses[Name[c]] = observed[d]
    BY <2>2, <2>3 DEF RoundInv
  <2> QED  BY <2>2, <2>3, <2>4
<1> QED  BY <1>1, <1>2, <1>3, PTL DEF StartupSpec

\* A round counts as failed only if one of its own checkers answered "unhealthy" in it.
THEOREM RefusalsHaveACause == StartupSpec => RefusedForCause
<1>1. StartupInit => StartupTypes /\ RoundInv
  BY StartupTypesInit, RoundInit
<1>2. StartupTypes /\ RoundInv /\ [StartupNext]_startupVars => (StartupTypes /\ RoundInv)'
  BY StartupTypesStep, RoundStep
<1>3. StartupTypes /\ RoundInv /\ [StartupNext]_startupVars
        => [tries' > tries => \E c \in DOMAIN observed : ~observed[c]]_startupVars
  <2> SUFFICES ASSUME StartupTypes, RoundInv, StartupNext, tries' > tries
               PROVE  \E c \in DOMAIN observed : ~observed[c]
    OBVIOUS
  <2>1. tries \in Nat /\ ~ (tries > tries)
    BY DEF StartupTypes
  <2>2. EndCheckAll
    BY <2>1 DEF StartupNext, WaitStep, CheckerStep, BeginCheckAll, Resume, Cancelled, Expire,
                CallerGivesUp, Check, Publish, Register, Change
  <2>3. ~ IsHealthy
    BY <2>1, <2>2, StartupAssumption DEF EndCheckAll, StartupTypes
  <2>4. PICK n \in DOMAIN statuses : ~ statuses[n]
    BY <2>3 DEF IsHealthy
  <2>5. PICK d \in Published : statuses[n] = observed[d]
    BY <2>4 DEF RoundInv
  <2> QED  BY <2>4, <2>5 DEF Published
<1> QED  BY <1>1, <1>2, <1>3, PTL DEF StartupSpec, RefusedForCause
===============================================================================
