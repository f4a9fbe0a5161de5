---------------------------- MODULE WebAppManager ----------------------------
(***************************************************************************)
(* The daemon: the WebAppManager with its table of running applications,   *)
(* the luna bus service in front of it, the windows' own events, and the   *)
(* process as a whole, which systemd restarts when it dies.                *)
(*                                                                         *)
(* The daemon is single-threaded, so one handler is one step.  What        *)
(* interleaves are the handlers: bus requests, events of pages and of the  *)
(* compositor, and the deferred deletions of the Qt event loop.            *)
(***************************************************************************)
EXTENDS WebApplication

VARIABLES
    up,             \* the daemon process runs
    mApplications,  \* [AppIds -> Objects \cup {Null}], the QMap
    subscribed,     \* a listener is registered for app events
    heard,          \* what the events told that listener of each id
    reply           \* outcome of the last bus request

\* A process id is a number.
ASSUME PidsAssumption ==
    Pids \cap {"notRunning", "unheard", "closed", "none", "ok", "error"} = {}

vars == <<up, mApplications, app, win, subscribed, heard, reply>>

Methods == {"none", "launchApp", "launchUrl", "killApp", "relaunch",
            "clearMemoryCaches", "registerForAppEvents"}

\* result: what was answered; touched: the ids whose application the request
\* reached.  A request that brings the daemon down is not answered.
Replies == [method : Methods, result : Pids \cup {"none", "ok", "error"},
            touched : SUBSET AppIds]

NoReply == [method |-> "none", result |-> "none", touched |-> {}]
Answer(method, result, ids) == [method |-> method, result |-> result, touched |-> ids]
Failed(method) == Answer(method, "error", {})

NothingHeard == [a \in AppIds |-> "unheard"]

\* No application is built without the process id its request named.
LiveHasPid == \A o \in Objects : Live(o) => app[o].processId \in Pids

(* The variables have their types, and live applications a process id.     *)
TypeOK ==
    /\ up \in BOOLEAN
    /\ mApplications \in [AppIds -> Objects \cup {Null}]
    /\ app \in [Objects -> Application]
    /\ win \in [Windows -> Window]
    /\ subscribed \in BOOLEAN
    /\ heard \in [AppIds -> Pids \cup {"unheard", "closed"}]
    /\ reply \in Replies
    /\ LiveHasPid
    /\ ~subscribed => heard = NothingHeard

\* What a freshly started process holds.
Init ==
    /\ up = TRUE
    /\ mApplications = [a \in AppIds |-> Null]
    /\ app = [o \in Objects |-> NoApplication]
    /\ win = [w \in Windows |-> NoWindow]
    /\ subscribed = FALSE
    /\ heard = NothingHeard
    /\ reply = NoReply

-----------------------------------------------------------------------------
(* The table of running applications                                       *)

isAppRunning(a) == mApplications[a] # Null

processIdOf(a) == app[mApplications[a]].processId

\* The process id the bus client is told for a, "notRunning" when a is not listed.
Listed(a) == IF isAppRunning(a) THEN processIdOf(a) ELSE "notRunning"

\* Q_FOREACH over the QMap visits applications in key order: the first match.
FirstWithPid(a, p) ==
    /\ isAppRunning(a) /\ processIdOf(a) = p
    /\ \A b \in AppIds : isAppRunning(b) /\ processIdOf(b) = p => a <= b

Post(a, event) == heard' = IF subscribed THEN [heard EXCEPT ![a] = event] ELSE heard

\* Variants for mutation: an event is not posted.
StartUntold(a, p) == UNCHANGED heard
FinishUntold(a) == UNCHANGED heard

notifyAppHasStarted(a, p) == Post(a, p)

notifyAppHasFinished(a) == Post(a, "closed")

\* Variant for mutation: the closed application stays in the table.
StaysListed(a) == mApplications

Unlisted(a) == [mApplications EXCEPT ![a] = Null]

\* The slot behind closed().  closing: the windows closed on the way here, whose
\* deletion is deferred.  The early return for an unlisted application is there,
\* RegistryExact shows that it is never taken.
onApplicationClosed(o, closing) ==
    IF isAppRunning(app[o].id)
    THEN /\ mApplications' = Unlisted(app[o].id)
         /\ notifyAppHasFinished(app[o].id)
         /\ Delete(o, closing)
    ELSE LoseWindows(o, closing) /\ UNCHANGED <<mApplications, heard>>

\* The process dies; everything it held is gone.
Crash ==
    /\ up' = FALSE
    /\ mApplications' = [a \in AppIds |-> Null]
    /\ app' = [o \in Objects |-> NoApplication]
    /\ win' = [w \in Windows |-> NoWindow]
    /\ subscribed' = FALSE
    /\ heard' = NothingHeard
    /\ reply' = NoReply

-----------------------------------------------------------------------------
(* Launching                                                               *)

\* appId is Null when no usable description came with the request,
\* entryFound says whether a local entry point exists, system whether the URL
\* to load is local.  boot is the form in which params says launchedAtBoot.
Requests ==
    [appId : AppIds \cup {Null}, processId : Pids \cup {Null},
     entryFound : BOOLEAN, system : BOOLEAN, boot : {"absent", "string", "object"}]

validateApplication(r) == r.appId # Null /\ r.entryFound

\* Variant for mutation: a launch without a process id goes through.
AcceptedWithoutPid(r) == validateApplication(r)

Accepted(r) == r.processId # Null /\ validateApplication(r)

LaunchRefused(method, r) ==
    /\ ~Accepted(r)
    /\ reply' = Failed(method)
    /\ UNCHANGED <<up, mApplications, app, win, subscribed, heard>>

\* Variant for mutation: the answer repeats the process id asked for.
LaunchRunningEcho(method, r) ==
    /\ Accepted(r)
    /\ isAppRunning(r.appId)
    /\ RelaunchApplication(mApplications[r.appId])
    /\ reply' = Answer(method, r.processId, {r.appId})
    /\ UNCHANGED <<up, mApplications, subscribed, heard>>

\* A running application is relaunched and keeps the process id it has.
LaunchRunning(method, r) ==
    /\ Accepted(r)
    /\ isAppRunning(r.appId)
    /\ RelaunchApplication(mApplications[r.appId])
    /\ reply' = Answer(method, processIdOf(r.appId), {r.appId})
    /\ UNCHANGED <<up, mApplications, subscribed, heard>>

LaunchNew(method, r, launchedAtBoot) ==
    /\ Accepted(r)
    /\ ~isAppRunning(r.appId)
    /\ \E o \in Objects, w \in FreeWindows :
        /\ ~Live(o)
        /\ Construct(o, w, r.appId, r.processId, r.system, launchedAtBoot)
        /\ mApplications' = [mApplications EXCEPT ![r.appId] = o]
    /\ notifyAppHasStarted(r.appId, r.processId)
    /\ reply' = Answer(method, r.processId, {r.appId})
    /\ UNCHANGED <<up, subscribed>>

\* launchApp takes params as an object or as a string, and loads the entry
\* point itself: a missing local file is a local URL.
LaunchApp(r) ==
    /\ up
    /\ r.system \/ r.entryFound
    /\ \/ LaunchRefused("launchApp", r)
       \/ LaunchRunning("launchApp", r)
       \/ LaunchNew("launchApp", r, r.boot # "absent")

\* launchUrl ignores params that are not an object.
LaunchUrl(r) ==
    /\ up
    /\ \/ LaunchRefused("launchUrl", r)
       \/ LaunchRunning("launchUrl", r)
       \/ LaunchNew("launchUrl", r, r.boot = "object")

Relaunch(a) ==
    /\ up
    /\ IF isAppRunning(a)
       THEN RelaunchApplication(mApplications[a]) /\ reply' = Answer("relaunch", "ok", {a})
       ELSE UNCHANGED <<app, win>> /\ reply' = Failed("relaunch")
    /\ UNCHANGED <<up, mApplications, subscribed, heard>>

-----------------------------------------------------------------------------
(* The other requests                                                      *)

Kill(a) ==
    /\ onApplicationClosed(mApplications[a], {})
    /\ reply' = Answer("killApp", "ok", {a})

KillNothing(result) ==
    /\ reply' = Answer("killApp", result, {})
    /\ UNCHANGED <<mApplications, app, win, heard>>

killAppByPid(p) ==
    \/ \E a \in AppIds : FirstWithPid(a, p) /\ Kill(a)
    \/ (\A a \in AppIds : ~FirstWithPid(a, p)) /\ KillNothing("ok")

killAppById(a) ==
    \/ isAppRunning(a) /\ Kill(a)
    \/ ~isAppRunning(a) /\ KillNothing("ok")

\* Which applications a request names.  processId wins over appId.
Targets == [appId : AppIds \cup {Null}, processId : Pids \cup {Null}]

KillApp(t) ==
    /\ up
    /\ \/ t.processId # Null /\ killAppByPid(t.processId)
       \/ t.processId = Null /\ t.appId # Null /\ killAppById(t.appId)
       \/ t.processId = Null /\ t.appId = Null /\ KillNothing("error")
    /\ UNCHANGED <<up, subscribed>>

\* The condition wants both keys, so a request with only one of them clears
\* the caches of every application.
Cleared(t) ==
    IF t.appId = Null \/ t.processId = Null
    THEN {a \in AppIds : isAppRunning(a)}
    ELSE {a \in AppIds : FirstWithPid(a, t.processId)}

\* clearMemoryCaches goes through mMainWindow, null while the main window is
\* closed: the process dies on the first such application.
ClearMemoryCaches(t) ==
    /\ up
    /\ \/ /\ \E a \in Cleared(t) : app[mApplications[a]].main = Null
          /\ Crash
       \/ /\ \A a \in Cleared(t) : app[mApplications[a]].main # Null
          /\ reply' = Answer("clearMemoryCaches", "ok", Cleared(t))
          /\ UNCHANGED <<up, mApplications, app, win, subscribed, heard>>

\* Only subscriptions are accepted.  heard follows one subscriber, which gets no
\* snapshot of what already runs.
RegisterForAppEvents(isSubscription) ==
    /\ up
    /\ \/ /\ ~isSubscription
          /\ reply' = Failed("registerForAppEvents")
          /\ UNCHANGED <<subscribed, heard>>
       \/ /\ isSubscription /\ ~subscribed
          /\ subscribed' = TRUE
          /\ heard' = NothingHeard
          /\ reply' = Answer("registerForAppEvents", "ok", {})
    /\ UNCHANGED <<up, mApplications, app, win>>

-----------------------------------------------------------------------------
(* Events of the windows                                                   *)

\* The page of a window, open or awaiting deletion, asks for a new window.
onCreateNewPage(w, system) ==
    /\ up
    /\ win[w].application \in Objects
    /\ \E child \in FreeWindows : CreateWindow(win[w].application, child, system)
    /\ reply' = NoReply
    /\ UNCHANGED <<up, mApplications, subscribed, heard>>

closeWindow(o, w) ==
    \/ /\ ~Closable(o, w)
       /\ UNCHANGED <<mApplications, app, win, heard>>
    \/ /\ Closable(o, w) /\ ~LastWindow(o, w)
       /\ LoseWindows(o, Closed(o, w))
       /\ UNCHANGED <<mApplications, heard>>
    \/ /\ Closable(o, w) /\ LastWindow(o, w)
       /\ onApplicationClosed(o, Closed(o, w))

\* window.close() in the page, open or awaiting deletion.
onClosePage(w) ==
    /\ up
    /\ win[w].application \in Objects
    /\ closeWindow(win[w].application, w)
    /\ reply' = NoReply
    /\ UNCHANGED <<up, subscribed>>

\* The compositor closes the window: headless ones have none.
CloseEvent(w) ==
    /\ win[w].state = "open" /\ ~win[w].headless
    /\ onClosePage(w)

\* PalmSystem.keepAlive, from pages that have the extension.
SetKeepAlive(w, keep) ==
    /\ up
    /\ win[w].state # "free" /\ win[w].palmSystem # "none"
    /\ win' = [win EXCEPT ![w].keepAlive = keep]
    /\ reply' = NoReply
    /\ UNCHANGED <<up, mApplications, app, subscribed, heard>>

\* The event loop gets to the deferred deletion.
DeferredDelete(w) ==
    /\ up
    /\ win[w].state = "doomed"
    /\ win' = [win EXCEPT ![w] = NoWindow]
    /\ reply' = NoReply
    /\ UNCHANGED <<up, mApplications, app, subscribed, heard>>

\* An event reaches a window whose application was deleted: the handler reads
\* freed memory, and either goes on without effect or takes the process down.
StaleEvent(w) ==
    /\ up
    /\ win[w].application = Dangling
    /\ \/ Crash
       \/ reply' = NoReply /\ UNCHANGED <<up, mApplications, app, win, subscribed, heard>>

-----------------------------------------------------------------------------
\* systemd: Restart=always.
Restart ==
    /\ ~up
    /\ up' = TRUE
    /\ UNCHANGED <<mApplications, app, win, subscribed, heard, reply>>

Next ==
    \/ \E r \in Requests : LaunchApp(r) \/ LaunchUrl(r)
    \/ \E a \in AppIds : Relaunch(a)
    \/ \E t \in Targets : KillApp(t) \/ ClearMemoryCaches(t)
    \/ \E b \in BOOLEAN : RegisterForAppEvents(b)
    \/ \E w \in Windows, b \in BOOLEAN : onCreateNewPage(w, b) \/ SetKeepAlive(w, b)
    \/ \E w \in Windows : onClosePage(w) \/ CloseEvent(w) \/ DeferredDelete(w) \/ StaleEvent(w)
    \/ Restart

Spec == Init /\ [][Next]_vars

-----------------------------------------------------------------------------
(* Safety                                                                  *)

(* The table and the heap agree: a listed id leads to the live application  *)
(* of that id and every live application is listed, so none is leaked,      *)
(* listed twice or reached after its deletion, and the "BUG: got close      *)
(* event" branch of onApplicationClosed is dead.                            *)
RegistryExact ==
    /\ \A a \in AppIds : isAppRunning(a) => app[mApplications[a]].id = a
    /\ \A o \in Objects : Live(o) => mApplications[app[o].id] = o

(* Every open window is in the list of exactly the application it points to,*)
(* windows already closed are in none, the main window is null or listed,   *)
(* and no application stays behind without a window (closeWindow emits      *)
(* closed with the last one).                                               *)
WindowsOwned ==
    /\ \A w \in Windows :
        win[w].state = "open" <=> \E o \in Objects : w \in app[o].windows
    /\ \A o \in Objects : \A w \in app[o].windows : win[w].application = o
    /\ \A o \in Objects : Live(o) =>
        app[o].windows # {} /\ app[o].main \in app[o].windows \cup {Null}

(* A window's application pointer leads to a live application, or the       *)
(* application was deleted while the window waits for its deferred deletion:*)
(* no window a user can still see points to freed memory.                   *)
PointersSound ==
    \A w \in Windows :
        /\ win[w].application \in Objects => Live(win[w].application)
        /\ win[w].application = Dangling => win[w].state = "doomed"

(* The main window of an application loaded from file: listens to           *)
(* parametersChanged, also when it was closed and built again: a relaunch   *)
(* never goes unheard.                                                      *)
MainHearsRelaunch ==
    \A o \in Objects : Live(o) /\ app[o].system /\ app[o].main # Null =>
        win[app[o].main].palmSystem = "relaunch"

(* The inductive strengthening: each part needs the others, see the proofs. *)
IInv ==
    /\ TypeOK
    /\ RegistryExact
    /\ WindowsOwned
    /\ PointersSound
    /\ MainHearsRelaunch

(* What registerForAppEvents told its listener agrees with listRunningApps: *)
(* a started application is listed with the process id of its start event,  *)
(* a closed one is not listed.                                              *)
ListenerSound ==
    \A a \in AppIds :
        /\ heard[a] \in Pids => Listed(a) = heard[a]
        /\ heard[a] = "closed" => ~isAppRunning(a)

(* The process id a launch is answered with is the one the application is   *)
(* listed under, also when it was running already under another one than    *)
(* the caller asked for.                                                    *)
LaunchReplyTruthful ==
    reply.result \in Pids =>
        \E a \in AppIds : reply.touched = {a} /\ Listed(a) = reply.result

(* After a launch, a relaunch or a cache clearing was answered, every       *)
(* application it reached has a main window.                                *)
ReachedHaveMainWindow ==
    \A a \in reply.touched : isAppRunning(a) => app[mApplications[a]].main # Null

-----------------------------------------------------------------------------
(* Steps                                                                   *)

(* Closing a window never leaves an application running behind a single     *)
(* headless window nobody can see, unless that window asked to be kept      *)
(* alive or the application was launched at boot.                           *)
HeadlessNotLeftAlone ==
    [][\A o \in Objects : Live(o) /\ Live(o)' =>
        \A w \in app[o].windows, h \in app'[o].windows :
            app'[o].windows = {h} /\ w # h /\ win[h].headless =>
                win[h].keepAlive \/ app[o].launchedAtBoot]_vars

(* An application one of whose windows is kept alive finishes only when it  *)
(* is killed, or with the daemon: no closing of other windows gets there.   *)
KeptAliveUntilKilled ==
    [][\A a \in AppIds :
        /\ isAppRunning(a) /\ ~isAppRunning(a)'
        /\ \E w \in app[mApplications[a]].windows : win[w].keepAlive
        => ~up' \/ reply'.method = "killApp"]_vars

(* The daemon implements RunningApps: applications start under one process  *)
(* id and keep it until they finish, one per step unless the daemon dies,   *)
(* and the listener hears exactly these changes.                            *)
Promise == INSTANCE RunningApps WITH running <- [a \in AppIds |-> Listed(a)]

ImplementsRunningApps == Promise!AbstractSpec

-----------------------------------------------------------------------------
(* What the documentation says and the code does not do                    *)

(* The documented launchApp request has no processId, and the example of a  *)
(* successful call is one without it.                                       *)
DocumentedLaunchAccepted ==
    [][\A r \in Requests :
        LaunchApp(r) /\ validateApplication(r) /\ r.processId = Null
            => reply'.result # "error"]_vars

(* "If no appId or processId provided we clean the caches for all apps":    *)
(* a request with neither key reaches every running application.            *)
CachesOfAllAppsCleared ==
    [][\A t \in Targets :
        ClearMemoryCaches(t) /\ t.appId = Null /\ t.processId = Null
            => \A a \in AppIds : isAppRunning(a) => a \in reply'.touched]_vars

(* The same comment: all caches are cleared only when none is named, so a   *)
(* request that names an application leaves the others alone.               *)
ClearsOnlyNamed ==
    [][\A t \in Targets :
        ClearMemoryCaches(t) /\ (t.appId # Null \/ t.processId # Null)
            => \A a \in reply'.touched : a = t.appId \/ processIdOf(a) = t.processId]_vars
=============================================================================
