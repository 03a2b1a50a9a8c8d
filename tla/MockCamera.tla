----------------------------- MODULE MockCamera ------------------------------
(***************************************************************************)
(* The mock camera: each start runs a task that pushes a picture every     *)
(* 100 ms until it finds its acquisition cancelled.  The task has been     *)
(* given the token of its own start, but looks at the field _ct, which the *)
(* next start overwrites.  The observers come and go one after the other,  *)
(* as BaseVideoObservable's calls do when no two requests overlap.         *)
(***************************************************************************)
EXTENDS Integers, FiniteSets

CONSTANT MaxStarts \* bound: how often the acquisition is started

ASSUME MockAssumption == MaxStarts \in Nat \ {0}

VARIABLES caller,      \* what the observable's call is about to do
          acquiring,   \* _isAcquisitionRunning
          tokenSource, \* _tokenSource, numbered by its start; 0: null
          ct,          \* the token source that _ct belongs to
          cancelled,   \* token sources that have been cancelled
          loops        \* the tasks, by start: where each one is

mockVars == <<caller, acquiring, tokenSource, ct, cancelled, loops>>

Starts == 1 .. MaxStarts
Ended == {"none", "ended"}

MockInit ==
    /\ caller = "idle" /\ acquiring = FALSE
    /\ tokenSource = 0 /\ ct = 0 /\ cancelled = {}
    /\ loops = [i \in Starts |-> "none"]

-----------------------------------------------------------------------------
FirstObserver ==
    /\ caller = "idle" /\ ~acquiring /\ tokenSource < MaxStarts
    /\ acquiring' = TRUE /\ caller' = "source"
    /\ UNCHANGED <<tokenSource, ct, cancelled, loops>>

NewTokenSource ==
    /\ caller = "source"
    /\ tokenSource' = tokenSource + 1
    /\ caller' = "token"
    /\ UNCHANGED <<acquiring, ct, cancelled, loops>>

\* Mutant of TakeToken: the field keeps the token of the first start.
TakeTokenOnce ==
    /\ caller = "token"
    /\ ct' = IF ct = 0 THEN tokenSource ELSE ct
    /\ caller' = "run"
    /\ UNCHANGED <<acquiring, tokenSource, cancelled, loops>>

TakeToken ==
    /\ caller = "token"
    /\ ct' = tokenSource
    /\ caller' = "run"
    /\ UNCHANGED <<acquiring, tokenSource, cancelled, loops>>

TaskRun ==
    /\ caller = "run"
    /\ loops' = [loops EXCEPT ![tokenSource] = "queued"]
    /\ caller' = "idle"
    /\ UNCHANGED <<acquiring, tokenSource, ct, cancelled>>

\* Mutant of LastObserver: nothing is cancelled.
LastObserverLeaves ==
    /\ caller = "idle" /\ acquiring
    /\ acquiring' = FALSE
    /\ UNCHANGED <<caller, tokenSource, ct, cancelled, loops>>

LastObserver ==
    /\ caller = "idle" /\ acquiring
    /\ cancelled' = cancelled \cup {tokenSource}
    /\ acquiring' = FALSE
    /\ UNCHANGED <<caller, tokenSource, ct, loops>>

-----------------------------------------------------------------------------
Becomes(i, at) == loops' = [loops EXCEPT ![i] = at] /\ UNCHANGED <<caller, acquiring, tokenSource, ct, cancelled>>

\* A task whose own token has been cancelled before it begins never begins.
TaskBegins(i) == loops[i] = "queued" /\ Becomes(i, IF i \in cancelled THEN "ended" ELSE "test")

LoopTests(i) == loops[i] = "test" /\ Becomes(i, IF ct \in cancelled THEN "ended" ELSE "delay")

LoopPushes(i) == loops[i] = "delay" /\ Becomes(i, "test")

Loop(i) == TaskBegins(i) \/ LoopTests(i) \/ LoopPushes(i)

MockNext ==
    \/ FirstObserver \/ NewTokenSource \/ TakeToken \/ TaskRun \/ LastObserver
    \/ \E i \in Starts : Loop(i)

\* The thread pool runs every task.
MockFairness == \A i \in Starts : WF_mockVars(Loop(i))

MockSpec == MockInit /\ [][MockNext]_mockVars /\ MockFairness

-----------------------------------------------------------------------------
\* Once a start is over its observers are served: of the tasks that begin or
\* run, old ones included, one does not find the acquisition cancelled.
MockServes ==
    acquiring /\ caller = "idle" =>
        /\ ct \notin cancelled
        /\ loops[tokenSource] \notin Ended

\* Without observers the camera falls silent: every task ends, also one that has
\* slept through a stop and a start, unless somebody subscribes again.
MockFallsSilent == ~acquiring ~> (acquiring \/ \A i \in Starts : loops[i] \in Ended)
=============================================================================
