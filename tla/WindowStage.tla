------------------------------ MODULE WindowStage ------------------------------
(***************************************************************************)
(* When the window of a WebApplicationWindow appears.  A page loaded from  *)
(* file: prepares its stage and says when it is ready; a timer started by  *)
(* the first successful load makes it ready anyway.  Pages of the web are  *)
(* shown at once.  The container restarts a web process that dies, a       *)
(* limited number of times.                                                *)
(*                                                                         *)
(* One window is modelled: windows share nothing here but the description  *)
(* of their application, which never changes.  Which window is listed      *)
(* where, and who owns it, is WebAppManager's subject.                     *)
(***************************************************************************)
EXTENDS Naturals

CONSTANTS
    StageTime,    \* duration of mStageReadyTimer (3000 ms), in ticks
    maxRestarts   \* how often the container restarts the web process

ASSUME BoundsAssumption == StageTime \in Nat \ {0} /\ maxRestarts \in Nat

VARIABLES
    window,           \* what never changes: [headless, trustScope, remoteEntryPoint]
    life,             \* open; doomed: deleteLater pending; gone
    page,             \* the page as the load signals describe it; idle: load requested
    numRestarts,
    mStagePreparing,
    mStageReady,
    mStageReadyTimer, \* ticks left, 0 when it does not run
    visible,          \* mWindow->isVisible()
    mKeepAlive,
    asked             \* history: show or activate was called

stage == <<mStagePreparing, mStageReady, mStageReadyTimer, visible>>
vars == <<window, life, page, numRestarts, stage, mKeepAlive, asked>>

Kinds == [headless : BOOLEAN, trustScope : {"system", "remote"}, remoteEntryPoint : BOOLEAN]

(* The variables have their types, and the container never counts past its  *)
(* limit.                                                                   *)
TypeOK ==
    /\ window \in Kinds
    /\ life \in {"open", "doomed", "gone"}
    /\ page \in {"idle", "loading", "loaded", "failed", "dead"}
    /\ numRestarts \in 0..maxRestarts
    /\ mStagePreparing \in BOOLEAN
    /\ mStageReady \in BOOLEAN
    /\ mStageReadyTimer \in 0..StageTime
    /\ visible \in BOOLEAN
    /\ mKeepAlive \in BOOLEAN
    /\ asked \in BOOLEAN

\* Variant for mutation: a page of the web waits like any other.
ReadyNever(kind) == FALSE

\* configureWebView calls stageReady for pages that do not come from file:.
ReadyAtOnce(kind) == kind.trustScope = "remote"

\* The constructor returns after the container configured the web view.
Init ==
    /\ window \in Kinds
    /\ life = "open"
    /\ page = "idle"
    /\ numRestarts = 0
    /\ mStagePreparing = ~ReadyAtOnce(window)
    /\ mStageReady = ReadyAtOnce(window)
    /\ mStageReadyTimer = 0
    /\ visible = (ReadyAtOnce(window) /\ ~window.headless)
    /\ mKeepAlive = FALSE
    /\ asked = FALSE

\* The C++ object exists, and with it its page and its timer.
Exists == life # "gone"

\* Only pages from file: have the PalmSystem extension, from the start of the
\* document on.
HasPalmSystem == Exists /\ window.trustScope = "system" /\ page \in {"loading", "loaded"}

\* mWindow is null for headless windows.
ShowWindow == visible' = ~window.headless

\* Variant for mutation: the timer is not stopped.
StageReadyTimerRuns ==
    /\ mStagePreparing' = FALSE
    /\ mStageReady' = TRUE
    /\ ShowWindow
    /\ UNCHANGED mStageReadyTimer

stageReady ==
    /\ mStagePreparing' = FALSE
    /\ mStageReady' = TRUE
    /\ ShowWindow
    /\ mStageReadyTimer' = 0

-----------------------------------------------------------------------------
(* The page loads                                                          *)

\* setupPage finishes the stage of applications with a remote entry point.
LoadStarted ==
    /\ Exists
    /\ page # "dead"
    /\ page' = "loading"
    /\ IF window.remoteEntryPoint THEN stageReady ELSE UNCHANGED stage
    /\ UNCHANGED <<window, life, numRestarts, mKeepAlive, asked>>

\* LoadStopped and LoadFailed: nothing else happens.
LoadFailed ==
    /\ Exists
    /\ page = "loading"
    /\ page' = "failed"
    /\ UNCHANGED <<window, life, numRestarts, stage, mKeepAlive, asked>>

\* Variants for mutation: the window is shown without waiting; every load
\* starts the timer anew.
AwaitsNothing == FALSE
MayRestartTimer == ~visible

AwaitsStage == mStagePreparing /\ ~mStageReady
MayStartTimer == ~visible /\ mStageReadyTimer = 0

LoadSucceeded ==
    /\ Exists
    /\ page = "loading"
    /\ page' = "loaded"
    /\ \/ /\ window.headless \/ window.remoteEntryPoint
          /\ UNCHANGED stage
       \/ /\ ~window.headless /\ ~window.remoteEntryPoint
          /\ AwaitsStage
          /\ mStageReadyTimer' = IF MayStartTimer THEN StageTime ELSE mStageReadyTimer
          /\ UNCHANGED <<mStagePreparing, mStageReady, visible>>
       \/ /\ ~window.headless /\ ~window.remoteEntryPoint
          /\ ~AwaitsStage
          /\ visible' = TRUE
          /\ UNCHANGED <<mStagePreparing, mStageReady, mStageReadyTimer>>
    /\ UNCHANGED <<window, life, numRestarts, mKeepAlive, asked>>

\* Time passes for the timer; at zero it fires onStageReadyTimeout.
Tick ==
    /\ Exists
    /\ mStageReadyTimer > 0
    /\ \/ /\ mStageReadyTimer = 1
          /\ stageReady
       \/ /\ mStageReadyTimer > 1
          /\ mStageReadyTimer' = mStageReadyTimer - 1
          /\ UNCHANGED <<mStagePreparing, mStageReady, visible>>
    /\ UNCHANGED <<window, life, page, numRestarts, mKeepAlive, asked>>

\* Variant for mutation: one restart too many.
MayRestartOnceMore == numRestarts <= maxRestarts

MayRestart == numRestarts < maxRestarts

\* The web process dies and the container loads the window's URL again.
RestartPage ==
    /\ Exists
    /\ page # "dead" /\ MayRestart
    /\ page' = "idle"
    /\ numRestarts' = numRestarts + 1
    /\ UNCHANGED <<window, life, stage, mKeepAlive, asked>>

\* The container gives up with Qt.quit().  The signal quit of the window's QML
\* engine has no receiver.
GiveUp ==
    /\ Exists
    /\ page # "dead" /\ ~MayRestart
    /\ page' = "dead"
    /\ UNCHANGED <<window, life, numRestarts, stage, mKeepAlive, asked>>

-----------------------------------------------------------------------------
(* The page asks                                                           *)

StagePreparing ==
    /\ HasPalmSystem
    /\ mStagePreparing' = TRUE
    /\ UNCHANGED <<window, life, page, numRestarts, mStageReady, mStageReadyTimer,
                   visible, mKeepAlive, asked>>

StageReady ==
    /\ HasPalmSystem
    /\ stageReady
    /\ UNCHANGED <<window, life, page, numRestarts, mKeepAlive, asked>>

\* PalmSystem.show, and PalmSystem.activate as far as visibility goes.
Show ==
    /\ HasPalmSystem
    /\ ShowWindow
    /\ asked' = TRUE
    /\ UNCHANGED <<window, life, page, numRestarts, mStagePreparing, mStageReady,
                   mStageReadyTimer, mKeepAlive>>

Hide ==
    /\ HasPalmSystem
    /\ visible' = FALSE
    /\ UNCHANGED <<window, life, page, numRestarts, mStagePreparing, mStageReady,
                   mStageReadyTimer, mKeepAlive, asked>>

KeepAlive(keep) ==
    /\ HasPalmSystem
    /\ mKeepAlive' = keep
    /\ UNCHANGED <<window, life, page, numRestarts, stage, asked>>

-----------------------------------------------------------------------------
(* Closing                                                                 *)

\* destroy() hides the window and releases the platform's, deleteLater follows.
\* A window that was closed before is not listed any more.
closeWindow ==
    \/ /\ life = "open" /\ ~mKeepAlive
       /\ life' = "doomed"
       /\ visible' = FALSE
    \/ /\ life = "doomed" \/ mKeepAlive
       /\ UNCHANGED <<life, visible>>

\* window.close(), or the application closes its last, headless window.
ClosePage ==
    /\ Exists
    /\ closeWindow
    /\ UNCHANGED <<window, page, numRestarts, mStagePreparing, mStageReady,
                   mStageReadyTimer, mKeepAlive, asked>>

\* The compositor closes the window: it is hidden even when it is kept alive.
CloseEvent ==
    /\ Exists /\ ~window.headless
    /\ visible' = FALSE
    /\ life' = IF mKeepAlive THEN life ELSE "doomed"
    /\ UNCHANGED <<window, page, numRestarts, mStagePreparing, mStageReady,
                   mStageReadyTimer, mKeepAlive, asked>>

\* The application is killed, or the event loop gets to the deferred deletion.
Deleted ==
    /\ Exists
    /\ life' = "gone"
    /\ visible' = FALSE
    /\ mStageReadyTimer' = 0
    /\ UNCHANGED <<window, page, numRestarts, mStagePreparing, mStageReady, mKeepAlive, asked>>

Next ==
    \/ LoadStarted \/ LoadFailed \/ LoadSucceeded \/ Tick
    \/ RestartPage \/ GiveUp
    \/ StagePreparing \/ StageReady \/ Show \/ Hide
    \/ \E keep \in BOOLEAN : KeepAlive(keep)
    \/ ClosePage \/ CloseEvent \/ Deleted

\* A running QTimer fires: the event loop of the daemon never stops.
Spec == Init /\ [][Next]_vars /\ WF_vars(Tick)

-----------------------------------------------------------------------------
(* Safety                                                                  *)

(* A window appears only when its stage is ready or the page asked for it:  *)
(* nobody sees a page from file: that is still being set up.                *)
ShownReadyOrAsked == visible => mStageReady \/ asked

(* The timer runs only while nobody has said that the stage is ready, so it *)
(* never brings back a window that the page or the user hid afterwards.     *)
TimerServesStage == mStageReadyTimer > 0 => mStagePreparing /\ ~mStageReady

(* A window with a page of the web is visible as long as it is open: such a *)
(* page has no means to show itself.                                        *)
RemoteIsVisible ==
    window.trustScope = "remote" /\ ~window.headless /\ life = "open" => visible

-----------------------------------------------------------------------------
(* Liveness                                                                *)

(* A loaded page gets its window although it never says that its stage is   *)
(* ready, and however often it is loaded again meanwhile.                   *)
LoadedIsShown ==
    (life = "open" /\ ~window.headless /\ page = "loaded" /\ ~mStageReady /\ ~asked)
        ~> (visible \/ life # "open")

-----------------------------------------------------------------------------
(* What the code says and does not do                                      *)

(* "restarted application ... times. Closing it now": the step in which the *)
(* container gives a page up closes its window.                             *)
GivenUpIsClosed == [][GiveUp => life' # "open"]_vars
=============================================================================
