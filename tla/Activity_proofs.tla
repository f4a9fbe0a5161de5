--------------------------- MODULE Activity_proofs ---------------------------
(***************************************************************************)
(* Proofs about Activity for any windows and any number of calls under     *)
(* way.  What the manager will believe once it has handled every call is   *)
(* known before: it is what the last of them says.  That is what mFocus    *)
(* and the focus of the windows agree with at all times, and what the      *)
(* manager believes when no call is under way.                             *)
(***************************************************************************)
EXTENDS Activity, SequenceTheorems, TLAPS

\* What the manager will believe when all calls have arrived.
Expected == IF focusCalls = <<>> THEN foreground ELSE focusCalls[Len(focusCalls)] = "focus"

\* Who expects the foreground has noted it in mFocus; who has noted it expects
\* it unless the call could not be heeded, and without an id nobody expects it; a
\* window with the focus has had it noted, and is the only one that has.
Agreement ==
    /\ Expected => mFocus
    /\ mFocus /\ ~unheard => Expected
    /\ mId = NoId => ~Expected
    /\ focusWindow # Nowhere /\ ~unheard => mFocus
    /\ focusWindow = Nowhere /\ mFocus => unseen

ActivityInv == ActivityTypeOK /\ Agreement

-----------------------------------------------------------------------------
(* Calls under way. *)

\* A call that is sent decides what the manager will believe, if it has an id.
LEMMA SendDecides ==
    ASSUME ActivityTypeOK, NEW call \in FocusCalls, Send(call), mId' = mId, foreground' = foreground
    PROVE  /\ focusCalls' \in Seq(FocusCalls) /\ Len(focusCalls') <= MaxFocusCalls
           /\ Expected' = IF mId = ActivityId THEN call = "focus" ELSE Expected
<1>1. focusCalls \in Seq(FocusCalls) /\ Len(focusCalls) \in Nat /\ MaxFocusCalls \in Nat
  BY ActivityAssumption DEF ActivityTypeOK
<1>2. Len(focusCalls) < MaxFocusCalls
  BY DEF Send
<1>3. CASE mId = ActivityId
  <2>1. focusCalls' = Append(focusCalls, call)
    BY <1>3 DEF Send
  <2>2. /\ focusCalls' \in Seq(FocusCalls) /\ Len(focusCalls') = Len(focusCalls) + 1
        /\ focusCalls'[Len(focusCalls) + 1] = call
    BY <1>1, <2>1
  <2>3. focusCalls' # <<>>
    BY <1>1, <2>2
  <2> QED
    BY <1>1, <1>2, <1>3, <2>2, <2>3 DEF Expected
<1>4. CASE mId # ActivityId
  BY <1>1, <1>2, <1>4 DEF Send, Expected
<1> QED
  BY <1>3, <1>4

\* The manager comes to believe what it was expected to.
LEMMA HandlingFulfils ==
    ASSUME ActivityTypeOK, ManagerFocuses
    PROVE  /\ focusCalls' \in Seq(FocusCalls) /\ Len(focusCalls') <= MaxFocusCalls
           /\ foreground' \in BOOLEAN /\ Expected' = Expected
<1> DEFINE n == Len(focusCalls)
<1>1. /\ focusCalls \in Seq(FocusCalls) /\ n \in Nat /\ n <= MaxFocusCalls /\ MaxFocusCalls \in Nat
      /\ focusCalls # <<>>
  BY ActivityAssumption DEF ActivityTypeOK, ManagerFocuses
<1>2. /\ foreground' = (focusCalls[1] = "focus") /\ focusCalls' = Tail(focusCalls)
  BY <1>1 DEF ManagerFocuses
<1>3. /\ n > 0 /\ focusCalls' \in Seq(FocusCalls) /\ Len(focusCalls') = n - 1
      /\ \A i \in 1..n - 1 : focusCalls'[i] = focusCalls[i + 1]
  BY <1>1, <1>2, HeadTailProperties, EmptySeq
<1>4. CASE n = 1
  <2>1. focusCalls' = <<>>
    BY <1>3, <1>4, EmptySeq
  <2>2. Expected' = foreground'
    BY <2>1 DEF Expected
  <2>3. Expected = (focusCalls[1] = "focus")
    BY <1>1, <1>4 DEF Expected
  <2> QED
    BY <1>1, <1>2, <1>3, <1>4, <2>2, <2>3
<1>5. CASE n # 1
  <2>1. focusCalls' # <<>> /\ n - 1 \in 1..n - 1
    BY <1>1, <1>3, <1>5
  <2>2. focusCalls'[n - 1] = focusCalls[n]
    BY <1>1, <1>3, <2>1
  <2> QED
    BY <1>1, <1>2, <1>3, <2>1, <2>2 DEF Expected
<1> QED
  BY <1>4, <1>5

-----------------------------------------------------------------------------
(* Every step keeps the invariant. *)

\* A window gets the focus: mFocus is set with the call, unless it was set.
LEMMA FocusInKeeps == ASSUME ActivityInv, NEW w \in ShownWindows, FocusIn(w) PROVE ActivityInv'
<1>1. ActivityTypeOK /\ Agreement
  BY DEF ActivityInv
<1>2. /\ w \in openWindows /\ focusWindow = Nowhere /\ focusWindow' = w /\ w # Nowhere
      /\ UNCHANGED <<openWindows, mId, foreground, unseen>> /\ focus
  BY ActivityAssumption DEF FocusIn
<1>3. ActivityId # NoId /\ "focus" \in FocusCalls
  BY ActivityAssumption DEF NoId, FocusCalls
<1>4. CASE MayFocus /\ Send("focus") /\ mFocus' = TRUE /\ unheard' = (mId # ActivityId)
  <2>1. /\ focusCalls' \in Seq(FocusCalls) /\ Len(focusCalls') <= MaxFocusCalls
        /\ Expected' = IF mId = ActivityId THEN "focus" = "focus" ELSE Expected
    BY <1>1, <1>2, <1>3, <1>4, SendDecides
  <2>2. ActivityTypeOK'
    BY <1>1, <1>2, <1>4, <2>1 DEF ActivityTypeOK
  <2>3. Agreement'
    BY <1>1, <1>2, <1>3, <1>4, <2>1 DEF Agreement
  <2> QED
    BY <2>2, <2>3 DEF ActivityInv
<1>5. CASE MayFocus /\ unheard' = TRUE /\ UNCHANGED <<mFocus, focusCalls>>
  BY <1>1, <1>2, <1>5 DEF ActivityInv, ActivityTypeOK, Agreement, Expected
<1>6. CASE ~MayFocus /\ UNCHANGED <<mFocus, focusCalls, unheard>>
  <2>1. mId # LSMESSAGE_TOKEN_INVALID
    BY <1>1, ActivityAssumption DEF ActivityTypeOK, NoId, LSMESSAGE_TOKEN_INVALID
  <2>2. mFocus
    BY <1>6, <2>1 DEF MayFocus
  <2> QED
    BY <1>1, <1>2, <1>6, <2>2 DEF ActivityInv, ActivityTypeOK, Agreement, Expected
<1> QED
  BY <1>2, <1>4, <1>5, <1>6 DEF focus

\* The window with the focus loses it: mFocus is reset with the call, or was not
\* set, or stays set because nothing could be sent.
LEMMA FocusOutKeeps == ASSUME ActivityInv, FocusOut PROVE ActivityInv'
<1>1. ActivityTypeOK /\ Agreement
  BY DEF ActivityInv
<1>2. /\ focusWindow # Nowhere /\ focusWindow' = Nowhere
      /\ UNCHANGED <<openWindows, mId, foreground, unheard>> /\ unfocus
  BY DEF FocusOut
<1>3. ActivityId # NoId /\ "unfocus" \in FocusCalls /\ "unfocus" # "focus" /\ mId \in {NoId, ActivityId}
  BY <1>1, ActivityAssumption DEF NoId, FocusCalls, ActivityTypeOK
<1>4. CASE MayUnfocus /\ Send("unfocus") /\ mFocus' = FALSE /\ unseen' = FALSE
  <2>1. /\ focusCalls' \in Seq(FocusCalls) /\ Len(focusCalls') <= MaxFocusCalls
        /\ Expected' = IF mId = ActivityId THEN "unfocus" = "focus" ELSE Expected
    BY <1>1, <1>2, <1>3, <1>4, SendDecides
  <2>2. ~Expected'
    BY <1>1, <1>3, <2>1 DEF Agreement
  <2> QED
    BY <1>1, <1>2, <1>4, <2>1, <2>2 DEF ActivityInv, ActivityTypeOK, Agreement
<1>5. CASE MayUnfocus /\ unseen' = TRUE /\ UNCHANGED <<mFocus, focusCalls>>
  BY <1>1, <1>2, <1>5 DEF ActivityInv, ActivityTypeOK, Agreement, Expected
<1>6. CASE ~MayUnfocus /\ UNCHANGED <<mFocus, focusCalls, unseen>>
  <2>1. mId # LSMESSAGE_TOKEN_INVALID
    BY <1>1, ActivityAssumption DEF ActivityTypeOK, NoId, LSMESSAGE_TOKEN_INVALID
  <2>2. ~mFocus
    BY <1>6, <2>1 DEF MayUnfocus
  <2> QED
    BY <1>1, <1>2, <1>6, <2>2 DEF ActivityInv, ActivityTypeOK, Agreement, Expected
<1> QED
  BY <1>2, <1>4, <1>5, <1>6 DEF unfocus

\* An application without windows whose activity nobody has heard of.
LEMMA FreshAgrees == ActivityInit => ActivityInv
<1> SUFFICES ASSUME ActivityInit PROVE ActivityInv
  OBVIOUS
<1>1. focusCalls = <<>> /\ focusCalls \in Seq(FocusCalls) /\ Len(focusCalls) <= MaxFocusCalls
  BY ActivityAssumption, EmptySeq DEF ActivityInit
<1>2. ActivityTypeOK
  BY <1>1 DEF ActivityInit, ActivityTypeOK
<1>3. ~Expected
  BY <1>1 DEF ActivityInit, Expected
<1>4. Agreement
  BY <1>3 DEF ActivityInit, Agreement
<1> QED
  BY <1>2, <1>4 DEF ActivityInv

\* Windows that open and close, the answer of the manager, and the end.
LEMMA OthersKeep ==
    ASSUME ActivityInv,
           \/ \E w \in ShownWindows : OpenWindow(w) \/ CloseShownWindow(w)
           \/ handleActivityResponse \/ ManagerFocuses \/ ApplicationEnds
    PROVE  ActivityInv'
<1>1. ActivityTypeOK /\ Agreement
  BY DEF ActivityInv
<1>2. ASSUME NEW w \in ShownWindows, OpenWindow(w) PROVE ActivityInv'
  BY <1>1, <1>2 DEF OpenWindow, ActivityInv, ActivityTypeOK, Agreement, Expected
<1>3. ASSUME NEW w \in ShownWindows, CloseShownWindow(w) PROVE ActivityInv'
  <2>1. /\ openWindows' = openWindows \ {w} /\ w # Nowhere
        /\ focusWindow' = IF focusWindow = w THEN Nowhere ELSE focusWindow
        /\ unseen' = (unseen \/ focusWindow = w)
        /\ UNCHANGED <<mId, mFocus, focusCalls, foreground, unheard>>
    BY <1>3, ActivityAssumption DEF CloseShownWindow
  <2>2. ActivityTypeOK'
    BY <1>1, <2>1 DEF ActivityTypeOK
  <2>3. Agreement'
    BY <1>1, <2>1 DEF Agreement, Expected
  <2> QED
    BY <2>2, <2>3 DEF ActivityInv
<1>4. CASE handleActivityResponse
  BY <1>1, <1>4, ActivityAssumption DEF handleActivityResponse, ActivityInv, ActivityTypeOK, Agreement, Expected, NoId
<1>5. CASE ManagerFocuses
  <2>1. /\ focusCalls' \in Seq(FocusCalls) /\ Len(focusCalls') <= MaxFocusCalls
        /\ foreground' \in BOOLEAN /\ Expected' = Expected
    BY <1>1, <1>5, HandlingFulfils
  <2>2. UNCHANGED <<openWindows, focusWindow, mId, mFocus, unheard, unseen>>
    BY <1>5 DEF ManagerFocuses
  <2> QED
    BY <1>1, <2>1, <2>2 DEF ActivityInv, ActivityTypeOK, Agreement
<1>6. CASE ApplicationEnds
  <2>1. /\ openWindows' = {} /\ focusWindow' = Nowhere /\ mId' = NoId /\ mFocus' = FALSE
        /\ focusCalls' = <<>> /\ foreground' = FALSE /\ unheard' = FALSE /\ unseen' = FALSE
    BY <1>6 DEF ApplicationEnds
  <2>2. focusCalls' \in Seq(FocusCalls) /\ Len(focusCalls') <= MaxFocusCalls
    BY <2>1, ActivityAssumption, EmptySeq
  <2>3. ActivityTypeOK'
    BY <2>1, <2>2 DEF ActivityTypeOK
  <2>4. ~Expected'
    BY <2>1 DEF Expected
  <2>5. Agreement'
    BY <2>1, <2>4 DEF Agreement
  <2> QED
    BY <2>3, <2>5 DEF ActivityInv
<1> QED
  BY <1>2, <1>3, <1>4, <1>5, <1>6

LEMMA ActivityInvHolds == ActivitySpec => []ActivityInv
<1>1. ActivityInit => ActivityInv
  BY FreshAgrees
<1>2. ActivityInv /\ [ActivityNext]_activityVars => ActivityInv'
  <2> SUFFICES ASSUME ActivityInv, [ActivityNext]_activityVars PROVE ActivityInv'
    OBVIOUS
  <2>1. CASE UNCHANGED activityVars
    BY <2>1 DEF activityVars, ActivityInv, ActivityTypeOK, Agreement, Expected
  <2>2. CASE ActivityNext
    BY <2>2, FocusInKeeps, FocusOutKeeps, OthersKeep DEF ActivityNext
  <2> QED
    BY <2>1, <2>2
<1> QED
  BY <1>1, <1>2, PTL DEF ActivitySpec

-----------------------------------------------------------------------------
(* The properties. *)

\* Type correctness: mId is never 0, so that the tests of it in focus and
\* unfocus decide nothing, and only an open window has the focus.
THEOREM ActivityTypeCorrect == ActivitySpec => []ActivityTypeOK
<1>1. ActivityInv => ActivityTypeOK
  BY DEF ActivityInv
<1> QED
  BY <1>1, ActivityInvHolds, PTL

\* The manager comes to have the application with the focus in the foreground.
THEOREM FocusedIsForeground == ActivitySpec => []UserAppInForeground
<1>1. ActivityInv => UserAppInForeground
  BY DEF ActivityInv, Agreement, Expected, UserAppInForeground
<1> QED
  BY <1>1, ActivityInvHolds, PTL

\* The manager comes to have an application without the focus out of it.
THEOREM UnfocusedIsBackground == ActivitySpec => []LeftAppInBackground
<1>1. ActivityInv => LeftAppInBackground
  BY DEF ActivityInv, Agreement, Expected, LeftAppInBackground
<1> QED
  BY <1>1, ActivityInvHolds, PTL
=============================================================================
