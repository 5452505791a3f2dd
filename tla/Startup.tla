------------------------------ MODULE Startup ------------------------------
(***************************************************************************)
(* HealthManager and StartupChecker of internal/api/health.go: a goroutine *)
(* waits, in at most MaxRetries rounds, until every registered checker     *)
(* reports health.  A round (CheckAll) starts one goroutine per checker    *)
(* and ends when all of them have put their answer in a map keyed by the   *)
(* checker's NAME.                                                         *)
(*                                                                         *)
(* A checker is taken to return once its context is over, and may then     *)
(* report failure whatever the component's state (StorageHealthChecker     *)
(* pings with that context).                                               *)
(***************************************************************************)
EXTENDS Naturals, FiniteSets, Functions

CONSTANTS Checkers,
          Name,        \* the name each checker answers to
          MaxRetries,
          Changes,     \* bound: changes of the components' health
          Cancels      \* may the caller's context, or a round's, end?

ASSUME StartupAssumption ==
  /\ IsFiniteSet(Checkers) /\ Checkers # {} /\ DOMAIN Name = Checkers
  /\ MaxRetries \in Nat \ {0}
  /\ Changes \in Nat /\ Cancels \in BOOLEAN

VARIABLES up, changes, \* component -> is it healthy now? and how often that changed
          registered,
          phase,       \* of the goroutine in WaitForReady
          tries,       \* rounds that failed
          checkers,    \* the round's copy of the registered checkers
          running,     \* those that have not answered yet
          unpublished, \* checker -> its answer, not yet in the map
          statuses,    \* name -> answer
          timedOut,    \* the round's context is over
          ended,       \* the caller's context is over
          observed     \* history: checker -> its answer in this round

environment == <<up, changes, registered, ended>>
answers == <<running, unpublished, statuses, observed>>
startupVars == <<environment, phase, tries, checkers, answers, timedOut>>

Reports(S) == UNION {[T -> BOOLEAN] : T \in SUBSET S}
Nothing == [c \in {} |-> TRUE]
With(f, key, value) == [k \in DOMAIN f \cup {key} |-> IF k = key THEN value ELSE f[k]]

StartupTypes ==
  /\ up \in [Checkers -> BOOLEAN] /\ changes \in 0..Changes
  /\ registered \subseteq Checkers /\ checkers \subseteq registered
  /\ phase \in {"start", "check", "pause", "ready", "cancelled", "failed"}
  /\ tries \in 0..MaxRetries
  /\ running \subseteq checkers
  /\ unpublished \in Reports(checkers) /\ observed \in Reports(checkers)
  /\ statuses \in Reports(Range(Name))
  /\ timedOut \in BOOLEAN /\ ended \in BOOLEAN

StartupInit ==
  /\ up \in [Checkers -> BOOLEAN] /\ changes = 0
  /\ registered \in SUBSET Checkers
  /\ phase = "start" /\ tries = 0
  /\ checkers = {} /\ running = {} /\ unpublished = Nothing
  /\ statuses = Nothing /\ observed = Nothing
  /\ timedOut = FALSE /\ ended = FALSE

-----------------------------------------------------------------------------
(* A round.                                                                *)

\* The list of checkers is copied under the read lock; each is given a
\* goroutine and the round's context.
BeginCheckAll ==
  /\ phase = "start" /\ phase' = "check"
  /\ checkers' = registered /\ running' = registered
  /\ unpublished' = Nothing /\ statuses' = Nothing /\ observed' = Nothing
  /\ timedOut' = FALSE
  /\ UNCHANGED <<environment, tries>>

\* A checker answers, from the component's health at that moment.
Check(c) ==
  /\ c \in running /\ running' = running \ {c}
  /\ \E healthy \in BOOLEAN :
       /\ healthy = up[c] \/ (~healthy /\ (timedOut \/ ended))
       /\ unpublished' = With(unpublished, c, healthy)
       /\ observed' = With(observed, c, healthy)
  /\ UNCHANGED <<environment, phase, tries, checkers, statuses, timedOut>>

\* Its goroutine writes the answer under the name, and is done.
Publish(c) ==
  /\ c \in DOMAIN unpublished
  /\ statuses' = With(statuses, Name[c], unpublished[c])
  /\ unpublished' = Restrict(unpublished, DOMAIN unpublished \ {c})
  /\ UNCHANGED <<environment, phase, tries, checkers, running, timedOut, observed>>

\* Mutant: wg.Done before the answer is in the map.
AllDoneBeforePublishing == running = {}

AllDone == running = {} /\ DOMAIN unpublished = {}

\* Mutant: an answer is expected of every checker registered by now.
IsHealthyAsRegistered ==
  \A c \in registered : Name[c] \in DOMAIN statuses /\ statuses[Name[c]]

IsHealthy == \A n \in DOMAIN statuses : statuses[n]

-----------------------------------------------------------------------------
(* WaitForReady: the last round, after MaxRetries failed ones, only         *)
(* supplies the results of the error it returns.                            *)

EndCheckAll ==
  /\ phase = "check" /\ AllDone
  /\ CASE tries = MaxRetries -> phase' = "failed" /\ UNCHANGED tries
       [] tries < MaxRetries /\ IsHealthy -> phase' = "ready" /\ UNCHANGED tries
       [] OTHER -> phase' = "pause" /\ tries' = tries + 1
  /\ UNCHANGED <<environment, checkers, answers, timedOut>>

\* Go's select takes either branch when both are ready.
Resume ==
  /\ phase = "pause" /\ phase' = "start"
  /\ UNCHANGED <<environment, tries, checkers, answers, timedOut>>

Cancelled ==
  /\ phase = "pause" /\ ended /\ phase' = "cancelled"
  /\ UNCHANGED <<environment, tries, checkers, answers, timedOut>>

-----------------------------------------------------------------------------
(* What the others do.                                                     *)

Register(c) ==
  /\ c \notin registered /\ registered' = registered \cup {c}
  /\ UNCHANGED <<up, changes, ended, phase, tries, checkers, answers, timedOut>>

Change(c) ==
  /\ changes < Changes /\ changes' = changes + 1
  /\ up' = [up EXCEPT ![c] = ~@]
  /\ UNCHANGED <<registered, ended, phase, tries, checkers, answers, timedOut>>

Expire ==
  /\ Cancels /\ phase = "check" /\ timedOut' = TRUE
  /\ UNCHANGED <<environment, phase, tries, checkers, answers>>

CallerGivesUp ==
  /\ Cancels /\ ended' = TRUE
  /\ UNCHANGED <<up, changes, registered, phase, tries, checkers, answers, timedOut>>

Returned == phase \in {"ready", "cancelled", "failed"}

WaitStep == BeginCheckAll \/ EndCheckAll \/ Resume \/ Cancelled
CheckerStep(c) == Check(c) \/ Publish(c)

StartupNext ==
  \/ WaitStep
  \/ Expire \/ CallerGivesUp
  \/ \E c \in Checkers : CheckerStep(c) \/ Register(c) \/ Change(c)

StartupSpec == StartupInit /\ [][StartupNext]_startupVars

\* Goroutines run, timers fire and a checker answers at the latest when its
\* context is over; nothing makes a component change or a caller give up.
FairStartupSpec ==
  /\ StartupSpec
  /\ WF_startupVars(WaitStep)
  /\ \A c \in Checkers : WF_startupVars(CheckerStep(c))

-----------------------------------------------------------------------------
(* Properties.                                                             *)

\* WaitForReady (health.go:244-250) returns nil only after a round in which
\* every checker it listed has answered and, for each name, some checker of
\* that name has answered "healthy": no answer is skipped, taken from an
\* earlier round or lost to the concurrent writes of the map.  (Of two checkers
\* with one name only the later answer counts: IsHealthy, health.go:91, is about
\* names, not components.)
ReadyMeansReported ==
  /\ StartupTypes
  /\ phase = "ready" =>
       \A c \in checkers : c \in DOMAIN observed
                           /\ \E d \in checkers : Name[d] = Name[c] /\ observed[d]

\* A round counts as failed (health.go:92-100) only if one of its own
\* checkers answered "unhealthy" in it, whatever is registered meanwhile.
RefusedForCause == [][tries' > tries => \E c \in DOMAIN observed : ~observed[c]]_startupVars

\* WaitForReady gives up after maxRetries rounds (health.go:245): it returns.
\* And if every component stays healthy from the start of one of its rounds on, and
\* neither the caller's context ends nor that of a round before it is over,
\* WaitForReady succeeds, whatever is registered meanwhile.
Undisturbed == /\ \A c \in Checkers : up[c]
               /\ ~ended
               /\ phase = "check" => ~timedOut
ReadyOnceHealthy ==
  /\ <>Returned
  /\ (phase = "start" /\ tries < MaxRetries /\ []Undisturbed) ~> phase = "ready"
=============================================================================
