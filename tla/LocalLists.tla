------------------------------ MODULE LocalLists ------------------------------
(***************************************************************************)
(* The list operations of the local storage, internal/storage/local/       *)
(* local.go: LPush, LTrim and LRange on one key (LLen and LIndex look like *)
(* LRange and change nothing), and the goroutine that removes empty lists  *)
(* (cleanupLoop, cleanupLists).                                            *)
(*                                                                         *)
(* As with the counters, an operation takes the entry's pointer under      *)
(* listsMu and works on the entry under the entry's own mutex, with        *)
(* nothing held in between.  Entries are numbered as they are allocated; 0 *)
(* is "no entry".  A list has no deadline: nothing ever sets one.          *)
(***************************************************************************)
EXTENDS Integers, Sequences, FiniteSets

CONSTANTS Callers,
          Indices,     \* the start and stop arguments
          Cleaning,    \* a CleanupInterval is configured
          MaxPushes    \* bound: LPush calls

ASSUME ListsAssumption ==
  /\ IsFiniteSet(Callers)
  /\ Indices \subseteq Int
  /\ Cleaning \in BOOLEAN
  /\ MaxPushes \in Nat

ListIds == 1..MaxPushes
NoList == 0
Span == [start : Indices, stop : Indices]
NoSpan == [start |-> 0, stop |-> 0]

VARIABLES shut,
          lists,      \* the map's entry for the key
          created,    \* entries allocated so far
          data,       \* entry -> its elements, newest first
          pushes,     \* LPush calls so far; each pushes its number
          doing, taken, \* the operation and the entry it took from the map
          pushed,     \* LPush's argument
          span,       \* LTrim's and LRange's arguments
          result,     \* what the last LRange returned
          cleaner,    \* cleanupLoop: "wait", "delete" (a key was collected) or "exit"
          removals    \* history: entries cleanup removed from the map

args == <<pushed, span>>
listsVars == <<shut, lists, created, data, pushes, doing, taken, args, result, cleaner, removals>>

ListsTypes ==
  /\ shut \in BOOLEAN
  /\ lists \in ListIds \cup {NoList}
  /\ created \in 0..MaxPushes /\ pushes \in 0..MaxPushes
  /\ data \in [ListIds -> Seq(ListIds)]
  /\ doing \in [Callers -> {"idle", "push", "trim", "range"}]
  /\ taken \in [Callers -> ListIds \cup {NoList}]
  /\ pushed \in [Callers -> 0..MaxPushes]
  /\ span \in [Callers -> Span \cup {NoSpan}]
  /\ result \in Seq(ListIds)
  /\ cleaner \in {"wait", "delete", "exit"}
  /\ removals \in Nat

ListsInit ==
  /\ shut = FALSE
  /\ lists = NoList /\ created = 0
  /\ data = [e \in ListIds |-> <<>>]
  /\ pushes = 0
  /\ doing = [t \in Callers |-> "idle"]
  /\ taken = [t \in Callers |-> NoList]
  /\ pushed = [t \in Callers |-> 0]
  /\ span = [t \in Callers |-> NoSpan]
  /\ result = <<>>
  /\ cleaner = "wait"
  /\ removals = 0

-------------------------------------------------------------------------------
(* The part of a list that LTrim keeps and LRange returns.                 *)

FromEnd(s, i) == IF i < 0 THEN Len(s) + i ELSE i

\* Mutant: stop is taken as exclusive.
SliceExclusive(s, sp) ==
  LET start == IF FromEnd(s, sp.start) < 0 THEN 0 ELSE FromEnd(s, sp.start)
      stop == IF FromEnd(s, sp.stop) >= Len(s) THEN Len(s) - 1 ELSE FromEnd(s, sp.stop)
  IN IF s = <<>> \/ start > stop \/ start >= Len(s) THEN <<>>
     ELSE SubSeq(s, start + 1, stop)

Slice(s, sp) ==
  LET start == IF FromEnd(s, sp.start) < 0 THEN 0 ELSE FromEnd(s, sp.start)
      stop == IF FromEnd(s, sp.stop) >= Len(s) THEN Len(s) - 1 ELSE FromEnd(s, sp.stop)
  IN IF s = <<>> \/ start > stop \/ start >= Len(s) THEN <<>>
     ELSE SubSeq(s, start + 1, stop + 1)

-------------------------------------------------------------------------------
Finish(t) ==
  /\ doing' = [doing EXCEPT ![t] = "idle"]
  /\ taken' = [taken EXCEPT ![t] = NoList]
  /\ pushed' = [pushed EXCEPT ![t] = 0]
  /\ span' = [span EXCEPT ![t] = NoSpan]

\* LPush, under listsMu: find the entry or create it ...
LPush(t) ==
  /\ doing[t] = "idle" /\ ~shut /\ pushes < MaxPushes
  /\ pushes' = pushes + 1
  /\ pushed' = [pushed EXCEPT ![t] = pushes']
  /\ doing' = [doing EXCEPT ![t] = "push"]
  /\ IF lists = NoList THEN created' = created + 1 /\ lists' = created'
                    ELSE UNCHANGED <<created, lists>>
  /\ taken' = [taken EXCEPT ![t] = lists']
  /\ UNCHANGED <<shut, data, span, result, cleaner, removals>>

\* ... then, under the entry's mutex, put the value in front.
Push(t) ==
  /\ doing[t] = "push"
  /\ data' = [data EXCEPT ![taken[t]] = <<pushed[t]>> \o @]
  /\ Finish(t)
  /\ UNCHANGED <<shut, lists, created, pushes, result, cleaner, removals>>

\* LTrim and LRange look the entry up under the read lock, and return at once
\* when there is none.
Find(t, op, sp) ==
  /\ doing[t] = "idle" /\ ~shut /\ lists # NoList
  /\ doing' = [doing EXCEPT ![t] = op]
  /\ taken' = [taken EXCEPT ![t] = lists]
  /\ span' = [span EXCEPT ![t] = sp]
  /\ UNCHANGED <<shut, lists, created, data, pushes, pushed, result, cleaner, removals>>

LTrim(t) ==
  /\ doing[t] = "trim"
  /\ data' = [data EXCEPT ![taken[t]] = Slice(@, span[t])]
  /\ Finish(t)
  /\ UNCHANGED <<shut, lists, created, pushes, result, cleaner, removals>>

LRange(t) ==
  /\ doing[t] = "range"
  /\ result' = Slice(data[taken[t]], span[t])
  /\ Finish(t)
  /\ UNCHANGED <<shut, lists, created, data, pushes, cleaner, removals>>

-------------------------------------------------------------------------------
(* cleanupLists: collect the keys of empty lists, look again, remove.      *)

Collect ==
  /\ Cleaning /\ cleaner = "wait"
  /\ lists # NoList /\ data[lists] = <<>>
  /\ cleaner' = "delete"
  /\ UNCHANGED <<shut, lists, created, data, pushes, doing, taken, args, result, removals>>

\* Mutant: a collected list is removed without a second look.
RemoveUnseen ==
  /\ cleaner = "delete"
  /\ cleaner' = "wait"
  /\ lists' = NoList
  /\ removals' = IF lists = NoList THEN removals ELSE removals + 1
  /\ UNCHANGED <<shut, created, data, pushes, doing, taken, args, result>>

RemoveEmpty ==
  /\ cleaner = "delete"
  /\ cleaner' = "wait"
  /\ IF lists # NoList /\ data[lists] = <<>>
       THEN lists' = NoList /\ removals' = removals + 1
       ELSE UNCHANGED <<lists, removals>>
  /\ UNCHANGED <<shut, created, data, pushes, doing, taken, args, result>>

\* Close closes stopCh, on which cleanupLoop returns.
Shut ==
  /\ ~shut
  /\ shut' = TRUE
  /\ UNCHANGED <<lists, created, data, pushes, doing, taken, args, result, cleaner, removals>>

CleanupEnds ==
  /\ Cleaning /\ shut /\ cleaner = "wait"
  /\ cleaner' = "exit"
  /\ UNCHANGED <<shut, lists, created, data, pushes, doing, taken, args, result, removals>>

ListsNext ==
  \/ \E t \in Callers :
       \/ LPush(t) \/ Push(t)
       \/ \E op \in {"trim", "range"}, sp \in Span : Find(t, op, sp)
       \/ LTrim(t) \/ LRange(t)
  \/ Collect \/ RemoveEmpty
  \/ Shut \/ CleanupEnds

ListsSpec == ListsInit /\ [][ListsNext]_listsVars

-------------------------------------------------------------------------------
(* Properties.                                                             *)

\* What Redis documents of LTRIM and LRANGE, which the local storage stands in for:
\* the elements at offsets start to stop, negative offsets counted from the end.
Between(s, sp) ==
  LET offset(i) == IF i < 0 THEN Len(s) + i ELSE i
  IN {i \in DOMAIN s : offset(sp.start) <= i - 1 /\ i - 1 <= offset(sp.stop)}

\* They keep their order.
Selected(s, sp) ==
  LET chosen == Between(s, sp)
      nth(n) == CHOOSE i \in chosen : Cardinality({j \in chosen : j <= i}) = n
  IN [n \in 1..Cardinality(chosen) |-> s[nth(n)]]

\* LTrim leaves exactly those, and LRange returns exactly those, of whatever the
\* list holds by the time the entry's mutex is taken.
SlicesLikeRedis ==
  [][\A t \in Callers :
       /\ doing[t] = "trim" /\ doing'[t] = "idle"
            => data'[taken[t]] = Selected(data[taken[t]], span[t])
       /\ doing[t] = "range" /\ doing'[t] = "idle"
            => result' = Selected(data[taken[t]], span[t])]_listsVars

Orphans == {e \in 1..created : e # lists}

\* The cleanup looks at a list again before it removes it (local.go:564), but an
\* LPush that holds the entry without holding the map may still fill it
\* afterwards.  A list drops out of the map only by a cleanup, and takes along no
\* more than what the pushes (at most one per thread) that held it by then put
\* into it.
OrphansBounded ==
  /\ ListsTypes
  /\ Cardinality(Orphans) <= removals
  /\ \A e \in Orphans : Len(data[e]) <= Cardinality(Callers)
==============================================================================
