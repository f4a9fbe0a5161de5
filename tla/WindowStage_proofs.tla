--------------------------- MODULE WindowStage_proofs ---------------------------
(***************************************************************************)
(* Proofs about WindowStage for every length of the timer and every number *)
(* of restarts.  The three safety properties need two facts that no run    *)
(* states on its own: the stage is always being prepared or ready, and a   *)
(* page of the web is ready from the beginning and never kept alive.  The  *)
(* last section proves the safety half of LoadedIsShown.                   *)
(***************************************************************************)
EXTENDS WindowStage, TLAPS

PreparingOrReady == mStagePreparing \/ mStageReady

RemoteIsReady == window.trustScope = "remote" => mStageReady /\ ~mKeepAlive

StageInv ==
    /\ TypeOK
    /\ ShownReadyOrAsked
    /\ TimerServesStage
    /\ RemoteIsVisible
    /\ PreparingOrReady
    /\ RemoteIsReady

\* What is left of StageInv when the types are put aside.
Stages ==
    /\ ShownReadyOrAsked
    /\ TimerServesStage
    /\ RemoteIsVisible
    /\ PreparingOrReady
    /\ RemoteIsReady

LEMMA InitStage == Init => StageInv
<1> SUFFICES ASSUME Init PROVE StageInv
  OBVIOUS
<1>1. window \in Kinds /\ life = "open" /\ page = "idle" /\ mStageReadyTimer = 0
  BY DEF Init
<1>2. window.trustScope \in {"system", "remote"} /\ window.headless \in BOOLEAN
  BY <1>1 DEF Kinds
<1>3. TypeOK
  <2>1. mStagePreparing \in BOOLEAN /\ mStageReady \in BOOLEAN /\ visible \in BOOLEAN
    BY <1>2 DEF Init, ReadyAtOnce
  <2>2. numRestarts \in 0..maxRestarts /\ mStageReadyTimer \in 0..StageTime
    BY BoundsAssumption DEF Init
  <2> QED
    BY <1>1, <2>1, <2>2 DEF Init, TypeOK
<1>4. ShownReadyOrAsked /\ TimerServesStage /\ RemoteIsVisible /\ PreparingOrReady /\ RemoteIsReady
  <2>1. ShownReadyOrAsked /\ RemoteIsVisible
    BY DEF Init, ReadyAtOnce, ShownReadyOrAsked, RemoteIsVisible
  <2>2. PreparingOrReady /\ RemoteIsReady
    BY DEF Init, ReadyAtOnce, PreparingOrReady, RemoteIsReady
  <2>3. TimerServesStage
    BY <1>1 DEF TimerServesStage
  <2> QED
    BY <2>1, <2>2, <2>3
<1> QED
  BY <1>3, <1>4 DEF StageInv

\* The types of the variables in stage.
StageTyped ==
    /\ mStagePreparing \in BOOLEAN
    /\ mStageReady \in BOOLEAN
    /\ mStageReadyTimer \in 0..StageTime
    /\ visible \in BOOLEAN

LEMMA ShowWindowTyped ==
    ASSUME window \in Kinds, ShowWindow
    PROVE  visible' \in BOOLEAN
<1>1. window.headless \in BOOLEAN
  BY DEF Kinds
<1> QED
  BY <1>1 DEF ShowWindow

LEMMA StageReadyTyped ==
    ASSUME window \in Kinds, stageReady
    PROVE  StageTyped'
<1>1. mStageReadyTimer' \in 0..StageTime
  BY BoundsAssumption DEF stageReady
<1>2. mStagePreparing' \in BOOLEAN /\ mStageReady' \in BOOLEAN
  BY DEF stageReady
<1>3. visible' \in BOOLEAN
  BY ShowWindowTyped DEF stageReady
<1> QED
  BY <1>1, <1>2, <1>3 DEF StageTyped

\* What TypeOK says of the variables that are not in stage.
RestTyped ==
    /\ window \in Kinds
    /\ life \in {"open", "doomed", "gone"}
    /\ page \in {"idle", "loading", "loaded", "failed", "dead"}
    /\ numRestarts \in 0..maxRestarts
    /\ mKeepAlive \in BOOLEAN
    /\ asked \in BOOLEAN

LEMMA TypeParts == TypeOK <=> RestTyped /\ StageTyped
  BY DEF TypeOK, RestTyped, StageTyped

LEMMA TypePartsNext == TypeOK' <=> RestTyped' /\ StageTyped'
  BY DEF TypeOK, RestTyped, StageTyped

\* Every handler keeps the types.
LEMMA NextTyped == TypeOK /\ [Next]_vars => TypeOK'
<1> SUFFICES ASSUME TypeOK, [Next]_vars PROVE TypeOK'
  OBVIOUS
<1> USE BoundsAssumption DEF TypeOK, stage
<1>1. CASE LoadStarted
  <2>1. RestTyped'
    BY <1>1, TypeParts DEF LoadStarted, RestTyped
  <2>2. CASE stageReady
    BY <1>1, <2>1, <2>2, TypeParts, TypePartsNext, StageReadyTyped DEF RestTyped
  <2>3. CASE UNCHANGED stage
    BY <2>1, <2>3, TypeParts, TypePartsNext DEF StageTyped
  <2> QED
    BY <1>1, <2>2, <2>3 DEF LoadStarted
<1>2. CASE LoadFailed
  BY <1>2 DEF LoadFailed
<1>3. CASE LoadSucceeded
  <2>1. RestTyped'
    BY <1>3, TypeParts DEF LoadSucceeded, RestTyped
  <2>2. mStageReadyTimer' \in 0..StageTime
    BY <1>3 DEF LoadSucceeded
  <2>3. /\ mStagePreparing' \in BOOLEAN
        /\ mStageReady' \in BOOLEAN
        /\ visible' \in BOOLEAN
    BY <1>3 DEF LoadSucceeded
  <2> QED
    BY <2>1, <2>2, <2>3, TypePartsNext DEF StageTyped
<1>4. CASE Tick
  <2>1. RestTyped'
    BY <1>4, TypeParts DEF Tick, RestTyped
  <2>2. CASE stageReady
    BY <2>1, <2>2, TypeParts, TypePartsNext, StageReadyTyped DEF RestTyped
  <2>3. CASE /\ mStageReadyTimer > 1
             /\ mStageReadyTimer' = mStageReadyTimer - 1
             /\ UNCHANGED <<mStagePreparing, mStageReady, visible>>
    <3>1. mStageReadyTimer' \in 0..StageTime
      BY <2>3
    <3> QED
      BY <2>1, <2>3, <3>1, TypePartsNext DEF StageTyped
  <2> QED
    BY <1>4, <2>2, <2>3 DEF Tick
<1>5. CASE RestartPage
  BY <1>5 DEF RestartPage, MayRestart
<1>6. CASE GiveUp
  BY <1>6 DEF GiveUp
<1>7. CASE StagePreparing
  BY <1>7 DEF StagePreparing
<1>8. CASE StageReady
  <2>1. RestTyped'
    BY <1>8, TypeParts DEF StageReady, RestTyped
  <2> QED
    BY <1>8, <2>1, TypeParts, TypePartsNext, StageReadyTyped DEF StageReady, RestTyped
<1>9. CASE Show
  BY <1>9, ShowWindowTyped DEF Show
<1>10. CASE Hide
  BY <1>10 DEF Hide
<1>11. ASSUME NEW keep \in BOOLEAN, KeepAlive(keep) PROVE TypeOK'
  BY <1>11 DEF KeepAlive
<1>12. CASE ClosePage
  BY <1>12 DEF ClosePage, closeWindow
<1>13. CASE CloseEvent
  BY <1>13 DEF CloseEvent
<1>14. CASE Deleted
  <2>1. mStageReadyTimer' \in 0..StageTime
    BY <1>14 DEF Deleted
  <2> QED
    BY <1>14, <2>1 DEF Deleted
<1>15. CASE UNCHANGED vars
  BY <1>15 DEF vars
<1> QED
  BY <1>1, <1>2, <1>3, <1>4, <1>5, <1>6, <1>7, <1>8, <1>9, <1>10, <1>11, <1>12, <1>13,
     <1>14, <1>15 DEF Next

\* stageReady establishes the properties whatever was before.
LEMMA StageReadyEstablishes ==
    ASSUME stageReady, UNCHANGED <<window, mKeepAlive>>, RemoteIsReady
    PROVE  Stages'
<1>1. ShownReadyOrAsked' /\ PreparingOrReady'
  BY DEF stageReady, ShownReadyOrAsked, PreparingOrReady
<1>2. TimerServesStage'
  BY DEF stageReady, TimerServesStage
<1>3. RemoteIsVisible' /\ RemoteIsReady'
  BY DEF stageReady, ShowWindow, RemoteIsVisible, RemoteIsReady
<1> QED
  BY <1>1, <1>2, <1>3 DEF Stages

\* So does leaving the stage alone.
LEMMA StageUntouched ==
    ASSUME Stages, UNCHANGED <<window, life, stage, mKeepAlive, asked>>
    PROVE  Stages'
  BY DEF Stages, stage, ShownReadyOrAsked, TimerServesStage, RemoteIsVisible,
         PreparingOrReady, RemoteIsReady

LEMMA NextStages == StageInv /\ [Next]_vars => Stages'
<1> SUFFICES ASSUME StageInv, [Next]_vars PROVE Stages'
  OBVIOUS
<1>0. Stages
  BY DEF StageInv, Stages
<1>a. HasPalmSystem => window.trustScope # "remote"
  BY DEF HasPalmSystem
<1>1. CASE LoadStarted
  BY <1>0, <1>1, StageReadyEstablishes, StageUntouched DEF LoadStarted, Stages
<1>2. CASE LoadFailed \/ RestartPage \/ GiveUp
  BY <1>0, <1>2, StageUntouched DEF LoadFailed, RestartPage, GiveUp
<1>3. CASE LoadSucceeded
  <2>1. CASE UNCHANGED stage
    BY <1>0, <1>3, <2>1, StageUntouched DEF LoadSucceeded
  <2>2. CASE /\ AwaitsStage
             /\ UNCHANGED <<mStagePreparing, mStageReady, visible>>
    BY <1>0, <1>3, <2>2
       DEF LoadSucceeded, AwaitsStage, Stages, ShownReadyOrAsked, TimerServesStage,
           RemoteIsVisible, PreparingOrReady, RemoteIsReady
  <2>3. CASE /\ ~AwaitsStage
             /\ visible' = TRUE
             /\ UNCHANGED <<mStagePreparing, mStageReady, mStageReadyTimer>>
    BY <1>0, <1>3, <2>3
       DEF LoadSucceeded, AwaitsStage, Stages, ShownReadyOrAsked, TimerServesStage,
           RemoteIsVisible, PreparingOrReady, RemoteIsReady
  <2> QED
    BY <1>3, <2>1, <2>2, <2>3 DEF LoadSucceeded
<1>4. CASE Tick
  <2>1. CASE stageReady
    BY <1>0, <1>4, <2>1, StageReadyEstablishes DEF Tick, Stages
  <2>2. CASE UNCHANGED <<mStagePreparing, mStageReady, visible>>
    <3>1. mStagePreparing /\ ~mStageReady
      BY <1>0, <1>4 DEF Tick, Stages, TimerServesStage
    <3> QED
      BY <1>0, <1>4, <2>2, <3>1
         DEF Tick, Stages, ShownReadyOrAsked, TimerServesStage, RemoteIsVisible,
             PreparingOrReady, RemoteIsReady
  <2> QED
    BY <1>4, <2>1, <2>2 DEF Tick
<1>5. CASE StagePreparing
  BY <1>0, <1>a, <1>5
     DEF StagePreparing, Stages, ShownReadyOrAsked, TimerServesStage, RemoteIsVisible,
         PreparingOrReady, RemoteIsReady
<1>6. CASE StageReady
  BY <1>0, <1>6, StageReadyEstablishes DEF StageReady, Stages
<1>7. CASE Show \/ Hide
  BY <1>0, <1>a, <1>7
     DEF Show, Hide, Stages, ShownReadyOrAsked, TimerServesStage, RemoteIsVisible,
         PreparingOrReady, RemoteIsReady
<1>8. ASSUME NEW keep \in BOOLEAN, KeepAlive(keep) PROVE Stages'
  BY <1>0, <1>a, <1>8
     DEF KeepAlive, stage, Stages, ShownReadyOrAsked, TimerServesStage, RemoteIsVisible,
         PreparingOrReady, RemoteIsReady
<1>9. CASE ClosePage
  BY <1>0, <1>9
     DEF ClosePage, closeWindow, Stages, ShownReadyOrAsked, TimerServesStage,
         RemoteIsVisible, PreparingOrReady, RemoteIsReady
<1>10. CASE CloseEvent
  BY <1>0, <1>10
     DEF CloseEvent, Stages, ShownReadyOrAsked, TimerServesStage, RemoteIsVisible,
         PreparingOrReady, RemoteIsReady
<1>11. CASE Deleted
  BY <1>0, <1>11
     DEF Deleted, Stages, ShownReadyOrAsked, TimerServesStage, RemoteIsVisible,
         PreparingOrReady, RemoteIsReady
<1>12. CASE UNCHANGED vars
  BY <1>0, <1>12, StageUntouched DEF vars
<1> QED
  BY <1>1, <1>2, <1>3, <1>4, <1>5, <1>6, <1>7, <1>8, <1>9, <1>10, <1>11, <1>12 DEF Next

LEMMA StageInvariance == Spec => []StageInv
<1>1. StageInv /\ [Next]_vars => StageInv'
  <2>1. TypeOK /\ [Next]_vars => TypeOK'
    BY NextTyped
  <2> QED
    BY <2>1, NextStages DEF StageInv, Stages
<1> QED
  BY <1>1, InitStage, PTL DEF Spec

(* Type correctness, and the container never restarts a page more often     *)
(* than maxRestarts.                                                        *)
THEOREM StageTypeCorrect == Spec => []TypeOK
<1>1. StageInv => TypeOK
  BY DEF StageInv
<1> QED
  BY <1>1, StageInvariance, PTL

(* No window appears before its stage is ready unless its page asked.       *)
THEOREM NeverShownEarly == Spec => []ShownReadyOrAsked
<1>1. StageInv => ShownReadyOrAsked
  BY DEF StageInv
<1> QED
  BY <1>1, StageInvariance, PTL

(* The stage timer never runs for a stage that is ready.                    *)
THEOREM TimerOnlyForStage == Spec => []TimerServesStage
<1>1. StageInv => TimerServesStage
  BY DEF StageInv
<1> QED
  BY <1>1, StageInvariance, PTL

(* A page of the web is visible while its window is open.                   *)
THEOREM RemoteAlwaysVisible == Spec => []RemoteIsVisible
<1>1. StageInv => RemoteIsVisible
  BY DEF StageInv
<1> QED
  BY <1>1, StageInvariance, PTL

-----------------------------------------------------------------------------
(* The deadline: what LoadedIsShown needs besides a timer that fires.       *)

\* An application with a remote entry point never waits for its stage.
RemoteEntryReady == window.remoteEntryPoint /\ page \in {"loading", "loaded"} => mStageReady

\* The timer runs for a loaded page that nothing else would show.
LoadedIsTimed ==
    life = "open" /\ ~window.headless /\ page = "loaded" /\ ~mStageReady /\ ~asked
        => mStageReadyTimer > 0

\* Once it runs, nothing puts it off; the step that makes it 0 shows the window
\* or is its end.
NeverPutOff ==
    mStageReadyTimer > 0 =>
        /\ mStageReadyTimer' <= mStageReadyTimer
        /\ mStageReadyTimer' = 0 => (mStageReady' /\ (visible' \/ window.headless)) \/ life' = "gone"

LEMMA ReadyNeedsNoTimer ==
    ASSUME stageReady
    PROVE  RemoteEntryReady' /\ LoadedIsTimed'
  BY DEF stageReady, RemoteEntryReady, LoadedIsTimed

LEMMA TimedKeeps ==
    ASSUME StageInv, RemoteEntryReady, LoadedIsTimed, [Next]_vars
    PROVE  RemoteEntryReady' /\ LoadedIsTimed'
<1>0. TypeOK /\ ShownReadyOrAsked /\ PreparingOrReady
  BY DEF StageInv
<1>1. CASE LoadStarted
  <2>1. CASE stageReady
    BY <2>1, ReadyNeedsNoTimer
  <2>2. CASE ~window.remoteEntryPoint
    BY <1>1, <2>2 DEF LoadStarted, RemoteEntryReady, LoadedIsTimed
  <2> QED
    BY <1>1, <2>1, <2>2 DEF LoadStarted
<1>2. CASE LoadFailed \/ RestartPage \/ GiveUp
  BY <1>2 DEF LoadFailed, RestartPage, GiveUp, RemoteEntryReady, LoadedIsTimed
<1>3. CASE LoadSucceeded
  <2>1. /\ page = "loading" /\ mStageReady' = mStageReady
        /\ UNCHANGED <<window, life, asked>>
    BY <1>3 DEF LoadSucceeded, stage
  <2>2. RemoteEntryReady'
    BY <2>1 DEF RemoteEntryReady
  <2>3. ASSUME ~window.headless, ~mStageReady, ~asked PROVE mStageReadyTimer' > 0
    <3>1. ~window.remoteEntryPoint /\ mStagePreparing /\ ~visible
      BY <1>0, <2>1, <2>3 DEF RemoteEntryReady, PreparingOrReady, ShownReadyOrAsked
    <3>2. mStageReadyTimer' = IF mStageReadyTimer = 0 THEN StageTime ELSE mStageReadyTimer
      BY <1>3, <2>3, <3>1 DEF LoadSucceeded, AwaitsStage, MayStartTimer
    <3>3. mStageReadyTimer \in Nat /\ StageTime \in Nat \ {0}
      BY <1>0, BoundsAssumption DEF TypeOK
    <3> QED
      BY <3>2, <3>3
  <2> QED
    BY <2>1, <2>2, <2>3 DEF LoadedIsTimed
<1>4. CASE Tick
  <2>1. CASE stageReady
    BY <2>1, ReadyNeedsNoTimer
  <2>2. CASE mStageReadyTimer > 1 /\ mStageReadyTimer' = mStageReadyTimer - 1 /\ UNCHANGED mStageReady
    <3>1. mStageReadyTimer' > 0
      BY <1>0, <2>2 DEF TypeOK
    <3> QED
      BY <1>4, <2>2, <3>1 DEF Tick, RemoteEntryReady, LoadedIsTimed
  <2> QED
    BY <1>4, <2>1, <2>2 DEF Tick
<1>5. CASE StageReady
  BY <1>5, ReadyNeedsNoTimer DEF StageReady
<1>6. CASE StagePreparing \/ Show \/ Hide \/ ClosePage \/ CloseEvent \/ UNCHANGED vars
  BY <1>6 DEF StagePreparing, Show, Hide, ClosePage, closeWindow, CloseEvent, vars, stage,
              RemoteEntryReady, LoadedIsTimed
<1>7. ASSUME NEW keep \in BOOLEAN, KeepAlive(keep) PROVE RemoteEntryReady' /\ LoadedIsTimed'
  BY <1>7 DEF KeepAlive, stage, RemoteEntryReady, LoadedIsTimed
<1>8. CASE Deleted
  BY <1>8 DEF Deleted, RemoteEntryReady, LoadedIsTimed
<1> QED
  BY <1>1, <1>2, <1>3, <1>4, <1>5, <1>6, <1>7, <1>8 DEF Next

LEMMA DeadlineStands == ASSUME TypeOK, [Next]_vars PROVE NeverPutOff
<1>0. mStageReadyTimer \in Nat /\ window.headless \in BOOLEAN
  BY BoundsAssumption DEF TypeOK, Kinds
<1>1. CASE mStageReadyTimer' = mStageReadyTimer
  BY <1>0, <1>1 DEF NeverPutOff
<1>2. CASE stageReady
  <2>1. mStageReadyTimer' = 0 /\ mStageReady' /\ (visible' \/ window.headless)
    BY <1>0, <1>2 DEF stageReady, ShowWindow
  <2> QED
    BY <1>0, <2>1 DEF NeverPutOff
<1>3. CASE LoadStarted
  BY <1>1, <1>2, <1>3 DEF LoadStarted, stage
<1>4. CASE LoadSucceeded
  <2>1. mStageReadyTimer > 0 => mStageReadyTimer' = mStageReadyTimer
    BY <1>0, <1>4 DEF LoadSucceeded, MayStartTimer, stage
  <2> QED
    BY <1>0, <2>1 DEF NeverPutOff
<1>5. CASE Tick
  <2>1. CASE mStageReadyTimer > 1 /\ mStageReadyTimer' = mStageReadyTimer - 1
    BY <1>0, <2>1 DEF NeverPutOff
  <2> QED
    BY <1>2, <1>5, <2>1 DEF Tick
<1>6. CASE StageReady
  BY <1>2, <1>6 DEF StageReady
<1>7. CASE Deleted
  BY <1>0, <1>7 DEF Deleted, NeverPutOff
<1>8. CASE \/ LoadFailed \/ RestartPage \/ GiveUp \/ StagePreparing \/ Show \/ Hide
           \/ ClosePage \/ CloseEvent \/ UNCHANGED vars
  BY <1>1, <1>8 DEF LoadFailed, RestartPage, GiveUp, StagePreparing, Show, Hide, ClosePage, CloseEvent,
                    vars, stage
<1>9. ASSUME NEW keep \in BOOLEAN, KeepAlive(keep) PROVE NeverPutOff
  BY <1>1, <1>9 DEF KeepAlive, stage
<1> QED
  BY <1>3, <1>4, <1>5, <1>6, <1>7, <1>8, <1>9 DEF Next

(* A loaded page that nobody shows has the timer running, and no load,      *)
(* request or restart of the page puts it off: all that LoadedIsShown takes *)
(* besides is that the timer fires.                                         *)
THEOREM LoadedHasDeadline == Spec => []LoadedIsTimed /\ [][NeverPutOff]_vars
<1>1. Init => RemoteEntryReady /\ LoadedIsTimed
  BY DEF Init, RemoteEntryReady, LoadedIsTimed
<1>2. StageInv /\ (RemoteEntryReady /\ LoadedIsTimed) /\ [Next]_vars
        => (RemoteEntryReady /\ LoadedIsTimed)'
  BY TimedKeeps
<1>3. StageInv /\ [Next]_vars => [NeverPutOff]_vars
  BY DeadlineStands DEF StageInv
<1> QED
  BY <1>1, <1>2, <1>3, StageInvariance, PTL DEF Spec
=============================================================================
