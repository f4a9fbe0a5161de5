---------------------------- MODULE WebApplication ----------------------------
(***************************************************************************)
(* The C++ objects WebApplication and WebApplicationWindow as far as their *)
(* lifetimes go: which application owns which windows, which of them is    *)
(* the main window, what closing one does to the others, and the windows   *)
(* that were closed but whose deferred deletion (deleteLater) is pending.  *)
(*                                                                         *)
(* The module defines what each member function makes of the two variables;*)
(* WebAppManager turns these into actions, because closing the last window *)
(* ends in the manager's slot onApplicationClosed.                         *)
(*                                                                         *)
(* Objects and Windows are the bounded pools the identities of heap        *)
(* objects come from; an identity is reused once its object is deleted.    *)
(***************************************************************************)
EXTENDS FiniteSets, Naturals

CONSTANTS
    AppIds,        \* application ids, as numbers in the key order of the QMap
    Pids,          \* process ids a caller may hand in
    HeadlessApps,  \* the ids whose description says "noWindow"
    Objects,       \* identities of WebApplication objects
    Windows,       \* identities of WebApplicationWindow objects
    Null,          \* the null pointer, and an absent request parameter
    Dangling       \* a pointer to a deleted WebApplication

ASSUME IdsAssumption == AppIds \subseteq Nat /\ HeadlessApps \subseteq AppIds

ASSUME NullAssumption ==
    /\ Null \notin AppIds \cup Pids \cup Objects \cup Windows
    /\ Dangling \notin Objects
    /\ Dangling # Null

VARIABLES
    app,   \* [Objects -> Application]
    win    \* [Windows -> Window]

Application ==
    [id : AppIds \cup {Null},            \* mDescription's id; Null: no object
     processId : Pids \cup {Null},
     system : BOOLEAN,                   \* mMainUrl is a file: URL
     launchedAtBoot : BOOLEAN,
     main : Windows \cup {Null},         \* mMainWindow
     windows : SUBSET Windows]           \* mAppWindows

Window ==
    [state : {"free", "open", "doomed"}, \* doomed: deleteLater is pending
     application : Objects \cup {Null, Dangling},
     headless : BOOLEAN,
     keepAlive : BOOLEAN,
     palmSystem : {"none", "plain", "relaunch"}]

NoApplication == [id |-> Null, processId |-> Null, system |-> FALSE,
                  launchedAtBoot |-> FALSE, main |-> Null, windows |-> {}]

NoWindow == [state |-> "free", application |-> Null, headless |-> FALSE,
             keepAlive |-> FALSE, palmSystem |-> "none"]

Live(o) == app[o].id # Null

FreeWindows == {w \in Windows : win[w].state = "free"}

-----------------------------------------------------------------------------
(* Windows coming                                                          *)

\* A page loaded from file: gets the PalmSystem extension, and the extension
\* of what isMainWindow() takes for the main window listens to
\* parametersChanged.  While mMainWindow is null that is every new window.
Extension(system, main) ==
    IF ~system THEN "none" ELSE IF main = Null THEN "relaunch" ELSE "plain"

NewWindow(o, headless, palmSystem) ==
    [state |-> "open", application |-> o, headless |-> headless,
     keepAlive |-> FALSE, palmSystem |-> palmSystem]

\* Variant for mutation: mMainWindow assigned before the window is built.
MainAssignedFirst(o, id, system) == NewWindow(o, id \in HeadlessApps, "plain")

\* The main window is built while mMainWindow is still null.
MainWindow(o, id, system) ==
    NewWindow(o, id \in HeadlessApps, Extension(system, Null))

NewApplication(id, processId, system, launchedAtBoot, main) ==
    [id |-> id, processId |-> processId, system |-> system,
     launchedAtBoot |-> launchedAtBoot, main |-> main, windows |-> {main}]

Construct(o, w, id, processId, system, launchedAtBoot) ==
    /\ app' = [app EXCEPT
                ![o] = NewApplication(id, processId, system, launchedAtBoot, w)]
    /\ win' = [win EXCEPT ![w] = MainWindow(o, id, system)]

\* Variant for mutation: a relaunch only tells the page.
RelaunchTellsOnly(o) == Live(o) /\ UNCHANGED <<app, win>>

\* relaunch: the page is told of the new parameters, and an application
\* whose main window was closed gets a new one.
RelaunchApplication(o) ==
    \/ /\ app[o].main # Null
       /\ UNCHANGED <<app, win>>
    \/ /\ app[o].main = Null
       /\ \E w \in FreeWindows :
            /\ app' = [app EXCEPT ![o].main = w, ![o].windows = @ \cup {w}]
            /\ win' = [win EXCEPT ![w] = MainWindow(o, app[o].id, app[o].system)]

\* A child is never headless, whatever the application is.
ChildWindow(o, system) == NewWindow(o, FALSE, Extension(system, app[o].main))

CreateWindow(o, w, system) ==
    /\ app' = [app EXCEPT ![o].windows = @ \cup {w}]
    /\ win' = [win EXCEPT ![w] = ChildWindow(o, system)]

-----------------------------------------------------------------------------
(* Windows going                                                           *)

\* closeWindow ignores a kept-alive window and one it does not list (any more).
Closable(o, w) == ~win[w].keepAlive /\ w \in app[o].windows

\* Variants for mutation: nothing but the window asked for is closed; the
\* window left over is closed without asking whether it is kept alive.
NothingLeftAlone(o, w) == {}
LeftAloneUnasked(o, w) ==
    {h \in app[o].windows \ {w} :
        app[o].windows = {h, w} /\ win[h].headless /\ ~app[o].launchedAtBoot}

\* A single headless window left over is closed as well, unless the
\* application was launched at boot.
LeftAlone(o, w) ==
    {h \in app[o].windows \ {w} :
        /\ app[o].windows = {h, w}
        /\ win[h].headless
        /\ ~app[o].launchedAtBoot
        /\ ~win[h].keepAlive}

Closed(o, w) == {w} \cup LeftAlone(o, w)

\* Variant for mutation: mMainWindow is not reset.
MainNotReset(o, closing) == app[o].main

MainAfterClosing(o, closing) == IF app[o].main \in closing THEN Null ELSE app[o].main

\* The application goes on with the windows it still has.
LoseWindows(o, closing) ==
    /\ app' = [app EXCEPT ![o].windows = @ \ closing,
                          ![o].main = MainAfterClosing(o, closing)]
    /\ win' = [w \in Windows |->
                 IF w \in closing THEN [win[w] EXCEPT !.state = "doomed"] ELSE win[w]]

\* No window left: closed() is emitted.
LastWindow(o, w) == app[o].windows = Closed(o, w)

\* Variant for mutation: the destructor leaves the listed windows behind.
DeleteWithoutWindows(o, closing) ==
    /\ app' = [app EXCEPT ![o] = NoApplication]
    /\ UNCHANGED win

\* Destructor: the windows still listed are deleted at once, those waiting
\* for their deferred deletion keep a pointer to the freed application.
Delete(o, closing) ==
    /\ app' = [app EXCEPT ![o] = NoApplication]
    /\ win' = [w \in Windows |->
                 IF w \in app[o].windows \ closing THEN NoWindow
                 ELSE IF win[w].application = o
                      THEN [win[w] EXCEPT !.state = "doomed", !.application = Dangling]
                      ELSE win[w]]
=============================================================================
