------------------------------- MODULE Activity -------------------------------
(***************************************************************************)
(* The activity an application has with the activity manager, and who has  *)
(* the focus.  All windows of an application share its one Activity: each  *)
(* focus event of any of them ends in focus or unfocus, which compare it   *)
(* with mFocus and tell the manager.                                       *)
(*                                                                         *)
(* Qt and the activity manager are external.  Qt sends FocusOut before the *)
(* FocusIn of another window, but none to a window that is destroyed with  *)
(* the focus.  The manager takes the calls of an application in order,     *)
(* does nothing for an id it does not know, and assigns one id, ever,      *)
(* which every answer without an error names.                              *)
(***************************************************************************)
EXTENDS Integers, Sequences

CONSTANTS
    ShownWindows,  \* identities of windows with a QQuickView
    Nowhere,       \* no window of the application has the focus
    ActivityId,    \* the id the manager assigns to the activity
    MaxFocusCalls  \* bound: calls under way to the manager

ASSUME ActivityAssumption ==
    /\ Nowhere \notin ShownWindows
    /\ ActivityId \in Nat \ {0}
    /\ MaxFocusCalls \in Nat

VARIABLES
    openWindows,  \* the shown windows in mAppWindows
    focusWindow,  \* the one of them that has the focus
    mId,          \* id of the activity, -1 until the manager has answered
    mFocus,
    focusCalls,   \* calls for a known id on their way to the manager
    foreground,   \* the manager has the activity focused
    unheard,      \* history: the manager could not heed the last call of focus
    unseen        \* history: nobody told the manager that the focus went

activityVars == <<openWindows, focusWindow, mId, mFocus, focusCalls, foreground, unheard, unseen>>

FocusCalls == {"focus", "unfocus"}
NoId == -1
LSMESSAGE_TOKEN_INVALID == 0

\* The variables have their types, and only an open window has the focus.
ActivityTypeOK ==
    /\ openWindows \subseteq ShownWindows
    /\ focusWindow \in openWindows \cup {Nowhere}
    /\ mId \in {NoId, ActivityId}
    /\ mFocus \in BOOLEAN
    /\ focusCalls \in Seq(FocusCalls) /\ Len(focusCalls) <= MaxFocusCalls
    /\ foreground \in BOOLEAN /\ unheard \in BOOLEAN /\ unseen \in BOOLEAN

ActivityInit ==
    /\ openWindows = {} /\ focusWindow = Nowhere
    /\ mId = NoId /\ mFocus = FALSE
    /\ focusCalls = <<>> /\ foreground = FALSE
    /\ unheard = FALSE /\ unseen = FALSE

-----------------------------------------------------------------------------
(* Activity. *)

\* Variant for mutation: an answer that names no id makes it 0.
AnsweredWithoutId ==
    /\ mId' = LSMESSAGE_TOKEN_INVALID
    /\ UNCHANGED <<openWindows, focusWindow, mFocus, focusCalls, foreground, unheard, unseen>>

\* The manager creates the activity and answers; a refusal changes nothing.
handleActivityResponse ==
    /\ mId' = ActivityId
    /\ UNCHANGED <<openWindows, focusWindow, mFocus, focusCalls, foreground, unheard, unseen>>

\* A call with the id -1 is sent as well, and comes to nothing.
Send(call) ==
    /\ Len(focusCalls) < MaxFocusCalls
    /\ focusCalls' = IF mId = ActivityId THEN Append(focusCalls, call) ELSE focusCalls

\* The test of mId is never true: no id is 0 at first, and none becomes 0.
MayFocus   == ~mFocus /\ mId # LSMESSAGE_TOKEN_INVALID
MayUnfocus == mFocus /\ mId # LSMESSAGE_TOKEN_INVALID

\* Variants for mutation: mFocus is not updated.
FocusUnnoticed ==
    IF MayFocus THEN Send("focus") /\ unheard' = (mId # ActivityId) /\ UNCHANGED mFocus
    ELSE UNCHANGED <<mFocus, focusCalls, unheard>>
UnfocusUnnoticed ==
    IF MayUnfocus THEN Send("unfocus") /\ unseen' = FALSE /\ UNCHANGED mFocus
    ELSE UNCHANGED <<mFocus, focusCalls, unseen>>

\* The second disjunct: the call cannot be sent.
focus ==
    IF MayFocus
    THEN \/ Send("focus") /\ mFocus' = TRUE /\ unheard' = (mId # ActivityId)
         \/ unheard' = TRUE /\ UNCHANGED <<mFocus, focusCalls>>
    ELSE UNCHANGED <<mFocus, focusCalls, unheard>>

unfocus ==
    IF MayUnfocus
    THEN \/ Send("unfocus") /\ mFocus' = FALSE /\ unseen' = FALSE
         \/ unseen' = TRUE /\ UNCHANGED <<mFocus, focusCalls>>
    ELSE UNCHANGED <<mFocus, focusCalls, unseen>>

-----------------------------------------------------------------------------
(* Windows. *)

OpenWindow(w) ==
    /\ w \notin openWindows
    /\ openWindows' = openWindows \cup {w}
    /\ UNCHANGED <<focusWindow, mId, mFocus, focusCalls, foreground, unheard, unseen>>

\* eventFilter, notifyAppAboutFocusState and changeActivityFocus.
FocusIn(w) ==
    /\ w \in openWindows /\ focusWindow = Nowhere
    /\ focusWindow' = w
    /\ focus
    /\ UNCHANGED <<openWindows, mId, foreground, unseen>>

FocusOut ==
    /\ focusWindow # Nowhere
    /\ focusWindow' = Nowhere
    /\ unfocus
    /\ UNCHANGED <<openWindows, mId, foreground, unheard>>

\* A closed window gets no event any more, not even FocusOut.  The application
\* goes on: other windows are open, or a headless one is left.
CloseShownWindow(w) ==
    /\ w \in openWindows
    /\ openWindows' = openWindows \ {w}
    /\ focusWindow' = IF focusWindow = w THEN Nowhere ELSE focusWindow
    /\ unseen' = (unseen \/ focusWindow = w)
    /\ UNCHANGED <<mId, mFocus, focusCalls, foreground, unheard>>

\* The application is deleted, which cancels its activity; the next instance
\* starts with an activity of its own.
ApplicationEnds ==
    /\ openWindows' = {} /\ focusWindow' = Nowhere
    /\ mId' = NoId /\ mFocus' = FALSE
    /\ focusCalls' = <<>> /\ foreground' = FALSE
    /\ unheard' = FALSE /\ unseen' = FALSE

-----------------------------------------------------------------------------
(* The activity manager. *)

ManagerFocuses ==
    /\ focusCalls # <<>>
    /\ foreground' = (Head(focusCalls) = "focus")
    /\ focusCalls' = Tail(focusCalls)
    /\ UNCHANGED <<openWindows, focusWindow, mId, mFocus, unheard, unseen>>

ActivityNext ==
    \/ handleActivityResponse \/ ManagerFocuses
    \/ \E w \in ShownWindows : OpenWindow(w) \/ FocusIn(w) \/ CloseShownWindow(w)
    \/ FocusOut
    \/ ApplicationEnds

ActivitySpec == ActivityInit /\ [][ActivityNext]_activityVars

-----------------------------------------------------------------------------
(* Properties. *)

\* When no call is under way, the application with the focus is in the
\* foreground for the activity manager, whichever of its windows have had and
\* lost the focus, or were closed with it; unless the manager could not heed the
\* focus call: it went out without the id (Activity::focus), or not at all.
UserAppInForeground ==
    focusCalls = <<>> /\ focusWindow # Nowhere /\ ~unheard => foreground

\* When no call is under way, an application without the focus is not in the
\* foreground, also when it lost the focus before the manager answered; unless
\* a window was closed with the focus, or unfocus could not be sent.
LeftAppInBackground ==
    focusCalls = <<>> /\ focusWindow = Nowhere /\ ~unseen => ~foreground
=============================================================================
