----------------------------- MODULE RunningApps -----------------------------
(***************************************************************************)
(* What the daemon promises the rest of the system about applications,     *)
(* without windows, objects or requests: which application ids are         *)
(* running, under which process id, and what a subscriber to its           *)
(* start/close events has been told.  WebAppManager implements it.         *)
(***************************************************************************)

CONSTANTS AppIds,   \* application ids
          Pids      \* process ids handed in by the application manager

VARIABLES running,     \* [AppIds -> Pids \cup {"notRunning"}]
          subscribed,  \* TRUE while a listener of the events is registered
          heard        \* what that listener was last told of each id

avars == <<running, subscribed, heard>>

NothingHeard == [a \in AppIds |-> "unheard"]

\* The listener's table after one more event about a.
Told(a, event) == IF subscribed THEN [heard EXCEPT ![a] = event] ELSE heard

AbstractInit ==
    /\ running = [a \in AppIds |-> "notRunning"]
    /\ subscribed = FALSE
    /\ heard = NothingHeard

Start(a, p) ==
    /\ running[a] = "notRunning"
    /\ running' = [running EXCEPT ![a] = p]
    /\ heard' = Told(a, p)
    /\ UNCHANGED subscribed

Finish(a) ==
    /\ running[a] # "notRunning"
    /\ running' = [running EXCEPT ![a] = "notRunning"]
    /\ heard' = Told(a, "closed")
    /\ UNCHANGED subscribed

\* A listener gets no snapshot of what already runs.
Subscribe ==
    /\ ~subscribed
    /\ subscribed' = TRUE
    /\ heard' = NothingHeard
    /\ UNCHANGED running

\* The daemon dies and with it every application and subscription.
LoseAll ==
    /\ running' = [a \in AppIds |-> "notRunning"]
    /\ subscribed' = FALSE
    /\ heard' = NothingHeard

AbstractNext ==
    \/ \E a \in AppIds, p \in Pids : Start(a, p)
    \/ \E a \in AppIds : Finish(a)
    \/ Subscribe
    \/ LoseAll

AbstractSpec == AbstractInit /\ [][AbstractNext]_avars
=============================================================================
