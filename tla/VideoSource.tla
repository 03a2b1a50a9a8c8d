----------------------------- MODULE VideoSource -----------------------------
(***************************************************************************)
(* A camera and the observers that come and go: BaseVideoObservable, its   *)
(* subclass GenieNanoCamera, the native class Camera behind it, and the    *)
(* callers, which are the web requests that watch the video and the game   *)
(* service with its player.  No lock protects the acquisition flags, so    *)
(* every access to one of them is a step.  The camera SDK (Sapera) calls   *)
(* ServerCallback from a thread of its own when the camera comes or goes.  *)
(*                                                                         *)
(* The camera is found when the program starts; otherwise the player takes *)
(* the mock camera.                                                        *)
(***************************************************************************)
EXTENDS Naturals, Sequences, FiniteSets

CONSTANTS Viewers,    \* web requests that watch the camera
          Player,     \* the player, started and stopped by the game service
          Server,     \* the SDK's thread
          MaxUnplugs  \* how often the camera loses its connection

Callers == Viewers \cup {Player}
Threads == Callers \cup {Server}

ASSUME VideoAssumption ==
    /\ Player \notin Viewers
    /\ Server \notin Callers
    /\ MaxUnplugs \in Nat

VARIABLES observers, \* _observers
          running,   \* _isAcquisitionRunning
          native,    \* Camera::acquisition_running
          grabbing,  \* SapTransfer::IsGrabbing
          linked,    \* the camera is on the network
          unplugs,
          events,    \* what the SDK's thread has not yet been told
          state,     \* PeripheralState
          game,      \* GameService.State and whether it has a CurrentPlayer
          pc,
          apart      \* history: the calls have kept apart so far

sdk == <<grabbing, linked, unplugs, events>>
videoVars == <<observers, running, native, sdk, state, game, pc, apart>>

\* "lost": the SDK still says it is grabbing from a camera that has gone.
Grabbing == {"no", "yes", "lost"}
AcquisitionSteps == {"start", "grab", "grabbed", "stop", "freeze", "frozen", "unfrozen"}
CallerSteps == {"out", "added", "claim", "in", "failed", "removed", "emptied", "unset", "kept"}
                 \cup AcquisitionSteps
ServerSteps == {"idle", "crashed"} \cup AcquisitionSteps
Resting == {"out", "in", "failed", "kept", "idle"}

VideoInit ==
    /\ observers = {} /\ running = FALSE /\ native = FALSE
    /\ grabbing = "no" /\ linked = TRUE /\ unplugs = 0 /\ events = <<>>
    /\ state = "Ready"
    /\ game = [state |-> "NoGame", player |-> FALSE]
    /\ pc = [t \in Threads |-> IF t = Server THEN "idle" ELSE "out"]
    /\ apart = TRUE

Goto(t, step) == pc' = [pc EXCEPT ![t] = step]
Stopping == {"stop", "freeze", "frozen", "unfrozen"}

\* A call begins.  It keeps apart when every other caller is outside and the SDK's
\* thread is not starting the acquisition; it may be stopping it.
Enters(c, step) ==
    /\ Goto(c, step)
    /\ apart' = (apart /\ \A o \in Threads \ {c} :
                     pc[o] \in Resting \/ (o = Server /\ pc[o] \in Stopping))

-----------------------------------------------------------------------------
(* GameService: its lock admits one request at a time, and player requests *)
(* reach the camera through StartGame and StopGame only.                   *)

\* CurrentPlayer is set before the player is started.
StartGame(c) ==
    IF c = Player THEN game.state = "NoGame" /\ game' = [game EXCEPT !.player = TRUE]
                  ELSE UNCHANGED game

\* The call into the camera has returned: State follows.
GameStarted(c) ==
    game' = IF c = Player THEN [game EXCEPT !.state = "IsRunning"] ELSE game

GameStopped(c) ==
    game' = IF c = Player THEN [state |-> "NoGame", player |-> FALSE] ELSE game

-----------------------------------------------------------------------------
(* BaseVideoObservable.Subscribe. *)

\* A web request that failed is over; the game can be started again.
Subscribe(c) ==
    /\ pc[c] = "out" \/ (c = Player /\ pc[c] = "failed")
    /\ StartGame(c)
    /\ observers' = observers \cup {c}
    /\ Enters(c, "added")
    /\ UNCHANGED <<running, native, sdk, state>>

\* The observer is in the dictionary, so Count > 0 holds.
SubscribeTest(c) ==
    /\ pc[c] = "added"
    /\ IF running THEN Goto(c, "in") /\ GameStarted(c)
                  ELSE Goto(c, "claim") /\ UNCHANGED game
    /\ UNCHANGED <<observers, running, native, sdk, state, apart>>

Claim(c) ==
    /\ pc[c] = "claim"
    /\ running' = TRUE
    /\ Goto(c, "start")
    /\ UNCHANGED <<observers, native, sdk, state, game, apart>>

(* Unsubscriber.Dispose.  A game whose stop has failed can be stopped again *)
(* though its player no longer observes.                                    *)

\* Mutant of Dispose: the game is over before its player has stopped.
DisposeEndsGame(c) ==
    /\ pc[c] = "in" \/ (c = Player /\ pc[c] = "kept")
    /\ GameStopped(c)
    /\ observers' = observers \ {c}
    /\ Enters(c, "removed")
    /\ UNCHANGED <<running, native, sdk, state>>

Dispose(c) ==
    /\ pc[c] = "in" \/ (c = Player /\ pc[c] = "kept")
    /\ observers' = observers \ {c}
    /\ Enters(c, "removed")
    /\ UNCHANGED <<running, native, sdk, state, game>>

DisposeTest(c) ==
    /\ pc[c] = "removed"
    /\ IF observers = {} THEN Goto(c, "emptied") /\ UNCHANGED game
                         ELSE Goto(c, "out") /\ GameStopped(c)
    /\ UNCHANGED <<observers, running, native, sdk, state, apart>>

DisposeTestRunning(c) ==
    /\ pc[c] = "emptied"
    /\ IF running THEN Goto(c, "stop") /\ UNCHANGED game
                  ELSE Goto(c, "out") /\ GameStopped(c)
    /\ UNCHANGED <<observers, running, native, sdk, state, apart>>

Unset(c) ==
    /\ pc[c] = "unset"
    /\ running' = FALSE
    /\ Goto(c, "out") /\ GameStopped(c)
    /\ UNCHANGED <<observers, native, sdk, state, apart>>

-----------------------------------------------------------------------------
(* Camera::StartAcquisition, called by Subscribe and by CameraConnected.   *)
(* GenieNanoCamera throws when it returns false: Subscribe passes this on  *)
(* and leaves its observer and _isAcquisitionRunning behind; out of the    *)
(* native callback nothing catches it.                                     *)

Refused(t) == Goto(t, IF t = Server THEN "crashed" ELSE "failed") /\ UNCHANGED game

StartTest(t) ==
    /\ pc[t] = "start"
    /\ IF native THEN Refused(t) ELSE Goto(t, "grab") /\ UNCHANGED game
    /\ UNCHANGED <<observers, running, native, sdk, state, apart>>

\* SapTransfer::Grab succeeds when the camera is there; what it says when it
\* already grabs is not specified.
Grab(t) ==
    /\ pc[t] = "grab"
    /\ \/ /\ linked
          /\ grabbing' = "yes" /\ Goto(t, "grabbed")
       \/ /\ ~linked \/ grabbing # "no"
          /\ Refused(t) /\ UNCHANGED grabbing
    /\ UNCHANGED <<observers, running, native, linked, unplugs, events, state, game, apart>>

StartDone(t) ==
    /\ pc[t] = "grabbed"
    /\ native' = TRUE
    /\ IF t = Server THEN Goto(t, "idle") /\ UNCHANGED game
                     ELSE Goto(t, "in") /\ GameStarted(t)
    /\ UNCHANGED <<observers, running, sdk, state, apart>>

(* Camera::StopAcquisition, called by Dispose and by ServerCallback, which  *)
(* ignores its result.  After a failure a web request is over; the game is  *)
(* still running and keeps its player.                                      *)

StopFailed(t) ==
    /\ Goto(t, IF t = Server THEN "idle" ELSE IF t = Player THEN "kept" ELSE "out")
    /\ UNCHANGED game

StopTest(t) ==
    /\ pc[t] = "stop"
    /\ IF native THEN Goto(t, "freeze") /\ UNCHANGED game ELSE StopFailed(t)
    /\ UNCHANGED <<observers, running, native, sdk, state, apart>>

\* Freeze, or Abort after a timeout.
Freeze(t) ==
    /\ pc[t] = "freeze"
    /\ Goto(t, IF grabbing = "no" THEN "unfrozen" ELSE "frozen")
    /\ grabbing' = "no"
    /\ UNCHANGED <<observers, running, native, linked, unplugs, events, state, game, apart>>

\* Mutant of StopDone: the native flag stays set.
StopKeepsNative(t) ==
    /\ pc[t] \in {"frozen", "unfrozen"}
    /\ IF pc[t] = "frozen" /\ t # Server THEN Goto(t, "unset") /\ UNCHANGED game
                                          ELSE StopFailed(t)
    /\ UNCHANGED <<observers, running, native, sdk, state, apart>>

StopDone(t) ==
    /\ pc[t] \in {"frozen", "unfrozen"}
    /\ native' = FALSE
    /\ IF pc[t] = "frozen" /\ t # Server THEN Goto(t, "unset") /\ UNCHANGED game
                                          ELSE StopFailed(t)
    /\ UNCHANGED <<observers, running, sdk, state, apart>>

-----------------------------------------------------------------------------
(* ServerCallback with CameraDisconnected and CameraConnected. *)

NextEvent(what) ==
    /\ pc[Server] = "idle"
    /\ events # <<>> /\ Head(events) = what
    /\ events' = Tail(events)

CameraDisconnected ==
    /\ NextEvent("disconnected")
    /\ state' = "NotConnected"
    /\ Goto(Server, "stop")
    /\ UNCHANGED <<observers, running, native, grabbing, linked, unplugs, game, apart>>

\* Mutant of CameraConnected: the acquisition is not started again.
ConnectedWithoutStart ==
    /\ NextEvent("connected")
    /\ Goto(Server, "idle")
    /\ UNCHANGED <<observers, running, native, grabbing, linked, unplugs, state, game, apart>>

\* It keeps apart when it does not interrupt a call.
CameraConnected ==
    /\ NextEvent("connected")
    /\ Goto(Server, IF running THEN "start" ELSE "idle")
    /\ UNCHANGED <<observers, running, native, grabbing, linked, unplugs, state, game>>
    /\ apart' = (apart /\ \A o \in Callers : pc[o] \in Resting)

(* The camera's cable (external).  Whether the SDK then ends the transfer  *)
(* is its own affair.                                                      *)
Unplug ==
    /\ linked /\ unplugs < MaxUnplugs
    /\ linked' = FALSE /\ unplugs' = unplugs + 1
    /\ events' = Append(events, "disconnected")
    /\ grabbing' \in IF grabbing = "yes" THEN {"no", "lost"} ELSE {grabbing}
    /\ UNCHANGED <<observers, running, native, state, game, pc, apart>>

Plug ==
    /\ ~linked
    /\ linked' = TRUE
    /\ events' = Append(events, "connected")
    /\ UNCHANGED <<observers, running, native, grabbing, unplugs, state, game, pc, apart>>

-----------------------------------------------------------------------------
Caller(c) == \/ Subscribe(c) \/ SubscribeTest(c) \/ Claim(c)
             \/ Dispose(c) \/ DisposeTest(c) \/ DisposeTestRunning(c) \/ Unset(c)

Acquisition(t) == \/ StartTest(t) \/ Grab(t) \/ StartDone(t)
                  \/ StopTest(t) \/ Freeze(t) \/ StopDone(t)

Environment == Unplug \/ Plug

\* An exception out of the native callback ends the program.
VideoNext ==
    /\ pc[Server] # "crashed"
    /\ \/ \E c \in Callers : Caller(c)
       \/ \E t \in Threads : Acquisition(t)
       \/ CameraDisconnected \/ CameraConnected
       \/ Environment

VideoSpec == VideoInit /\ [][VideoNext]_videoVars

-----------------------------------------------------------------------------
\* Every variable keeps its type.
VideoTypeOK ==
    /\ observers \subseteq Callers
    /\ running \in BOOLEAN /\ native \in BOOLEAN /\ linked \in BOOLEAN
    /\ grabbing \in Grabbing
    /\ unplugs \in 0 .. MaxUnplugs
    /\ events \in Seq({"connected", "disconnected"})
    /\ state \in {"Ready", "NotConnected"}
    /\ game \in [state : {"NoGame", "IsRunning"}, player : BOOLEAN]
    /\ DOMAIN pc = Threads /\ pc[Server] \in ServerSteps
    /\ \A c \in Callers : pc[c] \in CallerSteps

\* No call is in progress and every event of the SDK has been handled.
AtRest == events = <<>> /\ \A t \in Threads : pc[t] \in Resting

Watching == {c \in observers : pc[c] = "in"}

\* Whoever has subscribed gets frames as long as the camera is there.
ObserversAreServed == AtRest /\ linked /\ Watching # {} => grabbing = "yes"

\* The camera that nobody observes is stopped, if it was never disconnected.
UnobservedMeansStopped ==
    AtRest /\ state = "Ready" /\ observers = {} => grabbing = "no" /\ ~running

\* While the calls keep apart the camera runs exactly as long as somebody observes it:
\* the stop of ServerCallback may come between any two steps of a call, and the cable
\* may be pulled and plugged at any time.
CameraServesObservers == apart => ObserversAreServed /\ UnobservedMeansStopped

\* While the calls keep apart no subscription finds the native flag of an acquisition
\* that the managed flag says is over, so none is refused by a flag left behind.
NoStaleRefusal == apart => \A c \in Callers : pc[c] = "start" => ~native

LastRequestThrew == pc[Player] \in {"failed", "kept"}

\* However the requests and the SDK's thread interleave and whatever fails: the game
\* runs exactly while its player observes, and has a CurrentPlayer exactly while it runs.
\* When the last request threw, its effect on the player is there and that on State is
\* not, so that the same request is accepted again.
GameHasPlayer ==
    pc[Player] \in Resting =>
        IF LastRequestThrew
        THEN game.player /\ (game.state = "IsRunning" <=> Player \notin observers)
        ELSE /\ game.state = "IsRunning" <=> Player \in observers
             /\ game.player <=> game.state = "IsRunning"
=============================================================================
