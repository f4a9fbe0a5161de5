# luna-webappmanager in TLA+

A TLA+ model of LuneOS's web application manager, model-checked with TLC and
partly proved with TLAPS. Paths below are relative to the repository's root.

## The system

LunaWebAppManager is a daemon: a `QGuiApplication` that runs web applications
as windows of Qt WebEngine, is controlled over the luna bus by the
application manager, and gives the pages access to the system through
"extensions" published on a QWebChannel. It has one thread; bus requests, page
events, compositor events, D-Bus traffic, timers and deferred deletions are
handlers of one event loop. What interleaves is handlers; a handler itself is
one atomic step unless it waits for something.

| Component | State | Operations | Talks to |
|---|---|---|---|
| `WebAppManager` (`src/webappmanager.cpp`) | `mApplications`: id -> application | `launchApp`, `launchUrl`, `relaunch`, `killApp` (two forms), `clearMemoryCaches` (three), `onApplicationClosed` | owns applications, notifies the service |
| `WebAppManagerService` (`src/webappmanagerservice.cpp`) | subscriptions to app events | one handler per bus method, `notifyAppHasStarted/Finished` | bus clients, manager |
| `WebApplication` (`src/webapplication.cpp`) | id, process id, `mMainWindow`, `mAppWindows`, `mLaunchedAtBoot`, an `Activity` | construct, `relaunch`, `createWindow`, `closeWindow`, `kill`, destructor | owns windows; `closed()` -> manager; `parametersChanged` -> PalmSystem |
| `WebApplicationWindow` (`src/webapplicationwindow.cpp`) | `mApplication` pointer, keep-alive, headless, stage flags and timer, visibility, extensions | load and page events, `stagePreparing/Ready`, `show/hide/focus/unfocus`, event filter | application, web view, extensions, QML container |
| `ApplicationContainer.qml` | restarts of the web process | reload or give up | window |
| `Activity` (`src/activity.cpp`) | activity id, focus | reply of the activity manager, `focus`, `unfocus` | activity manager |
| PalmSystem and its bridge (`src/extensions/palmsystemextension.cpp`, `PalmSystemBridge.js`, `src/qml/webos-api.js`) | native bridges by id; callbacks by id in the page | call, cancel, reply, reload of the page | bus services, page |
| WiFi manager (`src/extensions/wifimanager.cpp`) | connection attempt in progress, powered | connect, signals of the network service | connman, page |
| Bluetooth manager and agent (`src/extensions/bluetoothmanager.cpp`, `bluetooth/agent.cpp`) | pending pairing requests by kind | BlueZ requests, answers, cancel | BlueZ, page |
| Bluetooth devices (`bluetooth/devicemodel.cpp`, `device.cpp`) | adapter, device rows | D-Bus signals and replies | BlueZ, page |
| In-app browser (`src/extensions/inappbrowserextension.cpp`) | the item shown, or none | open, close, done, title change | page |
| Process (`src/main.cpp`, systemd unit) | - | start; killed processes are restarted (`Restart=always`) | systemd |

### What makes it hard

* Windows are closed with `deleteLater`: their page lives on and can still
  send events after the window left its application, and after the application
  was deleted.
* An application deletes itself, via `closed()`, from inside its own
  `closeWindow`, which can be in its recursive call for the headless window.
* The main window can be closed while children remain, and be built again.
* Events to listeners and answers to callers must agree with a table that
  pages, the compositor and bus clients change independently.
* Stage timer against page and framework.
* Answers of luna services reach the page by numbers that a later call, or a
  page loaded anew, may have taken over.
* Signals of connman and BlueZ are late: they may speak of a service, an adapter
  or a device that was let go, or of a power that is no longer true.
* Prompts are answered late, twice or never, while other requests come.

### What makes each component correct

* Manager and service: the table lists exactly the live applications; an answer
  names the process id the application is listed under; a listener's picture
  agrees with the list; applications keep their process id until they finish.
* Application and window: each open window is owned by exactly one live
  application; only windows awaiting deletion may point to a freed one; no
  headless window lingers unseen; keep-alive protects from everything but a
  kill; a reached application has a main window, which hears relaunches.
* Window stage: a window whose page loaded becomes visible in the end; a window
  is not shown before its stage is ready, by its page or by the timer, unless its
  page asked for it.
* Bridge: answers to different calls of a page stay apart; of the calls made on
  one bridge only the last can still be answered.
* WiFi: no call is lost or answered twice; an attempt under way has a service
  that can end it; page and radio agree on the power once nothing is under way.
* Activity: whoever has the focus settles in the foreground for the activity
  manager, whoever lost it settles in the background, whichever window it was.
* Bluetooth adapter: nothing is left on in an adapter that is let go; while an
  adapter stays with power, it scans again and again and can be discovered.
* Pairing: each request the agent takes is answered once, by the answer to its
  prompt; one it rejects is never kept.
* Bluetooth devices: an address has one row; the page knows every row; what is
  disconnected or removed is what the page named; nothing is connected twice.

## Modules

| Module | What it is |
|---|---|
| `RunningApps` | abstract specification: which ids run under which process id, and what a listener has been told |
| `WebApplication` | state and helper operators of applications and windows: what each member function makes of them |
| `WebAppManager` | the daemon: EXTENDS `WebApplication`; table, bus methods, window events, crash and restart; `Spec`, properties |
| `WebAppManagerMC` | symmetry for TLC |
| `WebAppManager_proofs` | TLAPS proofs about it |
| `WindowStage` | when one window appears: loads, stage, timer, visibility, restarts of its web process; `Spec`, properties |
| `WindowStage_proofs` | TLAPS proofs about it |
| `ServiceBridge` | the bridges of one window: calls of its page, their answers, cancels, reloads |
| `WiFiManager` | the WiFi extension: power, scans, connection attempts |
| `BtAdapter` | the Bluetooth adapter in use: discovery, discoverability, power, exchange |
| `BtAgent` | pairing requests of BlueZ, prompts of the page, answers |
| `OneReply` | abstract specification: a question is kept or refused, and answered once |
| `Activity` | the activity that the windows of one application share, and their focus |
| `BtDevices` | the table of Bluetooth devices, the selection, pending connections |
| `ExtensionsMC`, `BtDevicesMC` | instances for TLC: WiFi, adapter, agent and activity; the devices |
| `ServiceBridge_proofs`, `WiFiManager_proofs`, `BtAdapter_proofs`, `BtAgent_proofs`, `BtDevices_proofs`, `Activity_proofs` | TLAPS proofs about them |

`WebApplication` is a module of operators and not a specification of its own,
because closing the last window runs through the manager's slot in the same step.
`WindowStage` stands alone: neither of the two modules reads the other's state,
except that `keepAlive` and closing appear in both, each as far as it needs them.

The modules of the extensions stand alone too: each extension is an object of its
own that talks to the page and to one system service. The three Bluetooth modules
cut one extension where its parts do not read each other's state; what one needs
of another is a choice in it. `BtDevices` lets the adapter go and come as it
likes, and `BtAgent` lets the model know the device of a request or not.
`Activity` belongs to an application but shares nothing else with its windows: it
has their focus and their closing, not their stages. `ExtensionsMC` runs four of
the modules next to each other, one at a time, so that their interleavings are not
multiplied.

`OneReply` is implemented twice, by `WiFiManager` for the calls of its page
(`CallsPromise`: what waits is what `CallsWaiting` names, the callers of a scan and
the caller of the attempt) and by `BtAgent` for the requests of BlueZ
(`RequestsPromise`: `RequestsWaiting` are those with a kept message). The latter
says so of the requests that the agent takes. One that it rejects gets two replies
(see below), so the mapping `RepliesToTaken` counts it as never asked. `CallsPromise`
adds to `EachCallOnce` that a call which waits goes on waiting until its answer.

### Correspondence with the code

* `app[o]` is one `WebApplication` object, `win[w]` one `WebApplicationWindow`.
  `Objects` and `Windows` are pools of heap identities, reused after deletion; a
  launch or a new window needs a free one, which is the model's only bound
  besides the sets of ids.
* `win[w].state`: `open` while listed in `mAppWindows`, `doomed` between
  `deleteLater` and its execution (`DeferredDelete`), `free` otherwise.
* `win[w].application` is `mApplication`; it becomes `Dangling` when that
  application is deleted while the window is doomed. Any later page event of it
  is `StaleEvent`: it reads freed memory, and the model lets it have no effect or
  kill the process.
* `win[w].palmSystem` is `none` for pages that are not loaded from `file:`,
  `relaunch` when the extension was connected to `parametersChanged`.
* Bus methods: `LaunchApp`, `LaunchUrl`, `Relaunch`, `KillApp`,
  `ClearMemoryCaches`, `RegisterForAppEvents`. `listRunningApps` and
  `isAppRunning` change nothing and are the operators `Listed` and
  `isAppRunning`. Requests are records; a JSON document that cannot be parsed or
  lacks a mandatory key falls together with "no description".
* Window events: `onCreateNewPage`, `onClosePage`, `CloseEvent`, `SetKeepAlive`.
* `Crash` empties everything (the null dereference of `clearMemoryCaches` and
  stale events lead to it), `Restart` is systemd's.
* `reply` remembers the outcome of the last request, so that properties can
  speak about answers; other steps reset it.

Ids are numbers because `killApp(processId)` takes the first match in the key
order of the `QMap`.

In `WindowStage` one window is modelled from its constructor to its destructor.

* `window` holds what never changes: headless, trust scope (`file:` or not),
  remote entry point of its application.
* `page` follows the load signals of the web view (`onLoadingChanged`) and the
  death of the web process (`onRenderProcessTerminated` in
  `src/qml/ApplicationContainer.qml`). `LoadStopped` and `LoadFailed` have one
  action, since the handler treats them alike.
* `mStagePreparing`, `mStageReady`, `mKeepAlive`, `numRestarts` are the members
  of those names; `mStageReadyTimer` is the time the `QTimer` has left, counted
  down by `Tick`; `visible` is `mWindow->isVisible()`.
* Requests of the page (`StagePreparing`, `StageReady`, `Show`, `Hide`,
  `KeepAlive`) need the PalmSystem extension, which only pages from `file:` have.
  `PalmSystem.activate` shows a hidden window like `show` does; the focus it also
  asks for comes back as a focus event (`Activity`).
* `ClosePage`, `CloseEvent`, `Deleted`: closing as the window itself sees it.
* `asked` is history: whether the page ever called `show` or `activate`.

In `ServiceBridge` one window is modelled over several loads of its page.

* `Call`, `Cancel`, `Deliver`, `Reload` are the page (`_webOS.exec`, the handler of
  the `callback` signal, `PalmSystemBridge.js`); `LS2Call` and `LS2Cancel` are the
  slots of those names; `Reply` is `handleReply`.
* `up` and `down` are the web channel: in order, not at once. `Reload` keeps or
  drops what is on its way to the page; what the page sent is handled.
* `bridges[b]` is the entry of `mListBridges`: `owner` is its `callId`, `current`
  its `currentBridgeCall`. A call is the pair of page load and number, so that
  equal numbers of two loads differ in the model; the code sees `id` only.
* A call the bus refuses (`LS::Error`) has taken over `owner`, but not `current`.
* `failed` and `delivered` are history.

In `WiFiManager` a value of the power travels in a circle: as a script to the page
(`scripts`), from the page's `setPowered` back to the extension (`echoes`), from
there to connman (`wishes`), and as `poweredChanged` into a script again. connman
may refuse, others may switch, the technology may go and come. A call of the page
is its number; the `NetworkService` of an attempt is named after the call that
made it, `doomed` are those passed to `deleteLater`. `FinishConnectionProcess` is
what `networkConnected` and `connectRequestFailed` share, for the current service
and for every doomed one.

In `BtAdapter` the members have their names without `m_`; `ticking` and `soon`
say that `m_timer` and `m_discoverableTimer` run. `present`, `power`, `scanning`
and `visible` are BlueZ's side: a method called on an adapter that is gone or
without power fails, unnoticed by the code; `OthersHide` is BlueZ's own timeout, or
another client, turning `Discoverable` off. `signals` are posted in order and
handled late. `past` is history: the model was told of no power while its adapter had power
(`outdated`), and no other power signal waited to put that right (`misled`); the adapter
in use was hidden, by the page or by others (`hidden`). `SetAdapter` is the whole of `setAdapterFromPath`: clear, set up,
start discovery, read the properties.

In `BtAgent` a request is its position in `requests`; `delayed` is
`m_delayedReplies`, `replies[r]` what BlueZ was sent for `r`. `AcceptRequest` and
`HandleAnswer` stand for the four handlers of each sort, which differ in what they
reply (`ReplyTo`). `RejectRequest` puts two replies into `replies[r]`: the error that
`reject` sends, and what the method returns (`Returned`), which QtDBus sends because
the reply was not delayed. `Agent::Cancel` only logs, so it has no action.

In `Activity` one application is followed through its runs. `openWindows` are its
windows with a `QQuickView`, `focusWindow` the one that has the focus; `mId` and
`mFocus` are the members, `focusCalls` the calls with a known id under way to the
activity manager, `foreground` what the manager believes. `FocusIn` and `FocusOut`
are the window's `eventFilter` through `notifyAppAboutFocusState` and
`changeActivityFocus` down to `focus` and `unfocus`. External, and assumed: Qt
sends `FocusOut` before the `FocusIn` of another window, but none to a window that
is destroyed with the focus; the manager takes calls in order, ignores an id it does not know, and names the id in
every answer without an error (what `src/activity.cpp:121` takes for granted).
`unheard` and `unseen` are history: the manager could not heed the last focus call, or
nobody told it that the focus went. They are premises of `UserAppInForeground` and
`LeftAppInBackground`, which therefore say nothing of a focus given before the id is
known, nor of a window closed with the focus.

In `BtDevices` `dev[o]` is a `Device` held by a `QSharedPointer`: `Swept` deletes it
when neither a row nor the selection holds it. `created` says that it has its D-Bus
interfaces (`initDevice`), `pending` is the length of `m_connectAfterPairing`,
`shot` and `reply` say that a timer, or a reply that ends in
`slotServiceDiscoveryDone`, is under way. `getTypeFromClass` is the code's bit
fields, evaluated for the classes of the instance. `owed[a]` counts the connections
the page asked for less those made. The page has asked for the list when its
`resetDevicesList` was carried out: one dropped while there is no technology
(`src/extensions/bluetoothmanager.cpp:148`) does not count.

## Runs

| Run | Instance | What it shows |
|---|---|---|
| `windows` | 1 headless id, 1 process id, 2 objects, 3 windows | `WindowsOwned`, `PointersSound`, `MainHearsRelaunch`, `ReachedHaveMainWindow`, `HeadlessNotLeftAlone`, `KeptAliveUntilKilled` |
| `apps` | 2 ids (1 headless), 2 process ids, 2 objects, 2 windows | `TypeOK`, `RegistryExact`, `ListenerSound`, `LaunchReplyTruthful`, refinement of `RunningApps` |
| `documented_launch` | 2 ids, 3 windows | finding 1 |
| `clear_all` | same | finding 2 |
| `clear_named` | same | finding 3 |
| `stage` | timer of 3 ticks, 3 restarts | `TypeOK`, `ShownReadyOrAsked`, `TimerServesStage`, `RemoteIsVisible`, `LoadedIsShown` |
| `given_up` | timer of 1 tick, 3 restarts | finding 4 |
| `bridge` | 2 bridges, 2 loads, 2 calls each, 2 messages each way | `TypeOK`, `AnswersStayApart`, `SupersededIsSilent` |
| `contextual_callback` | same | finding 5 |
| `extensions` | WiFi: 3 calls, 3 values under way; adapter: 2 adapters, 3 signals; agent: 2 requests, 2 messages each way; activity: 2 windows, 3 calls under way | `WifiTypeOK`, `EachCallOnce`, `AttemptHasService`, `QuietAgreement`, refinement of `OneReply` (`CallsPromise`); `AdapterTypeOK`, `LeavesNothingOn`, `KeepsScanning`, `BecomesDiscoverable`; `AgentTypeOK`, `AnswersOwnRequest`, `EachRequestOnce`, refinement of `OneReply` (`RequestsPromise`); `ActivityTypeOK`, `UserAppInForeground`, `LeftAppInBackground` |
| `display_passkey` | agent as above | finding 6 |
| `bt_devices` | 3 addresses (headset, phone, unknown type), 2 objects, 2 connections owed | `DevicesTypeOK`, `UniqueRows`, `ListedAreKnown`, `ConnectsAsked`, `ActsOnNamed` |

The bounds are small, but enough for what can go wrong. Three windows give a
headless main window and two children: closing in every order, the rule for the
single headless window left over, and a doomed window next to a rebuilt main
window. Two objects for one id give an application that is started again while
windows of its predecessor still await deletion. Two ids under the same
process id, and one id asked for under two process ids, are in `apps`. The two
runs are exhaustive (no depth bound, no state constraint). Model values for
objects, windows and process ids are interchangeable, hence `Symmetry`.
Deadlock is checked in the runs of the core. In `stage` all kinds of windows are
initial states, loads and requests fall between the ticks of the timer, and
`maxRestarts` is the code's own 3; a deleted window takes no step, so its cfgs say
`CHECK_DEADLOCK FALSE`; so do those of `ServiceBridge`, where the daemon may die.

For the extensions the bounds are the ones each property needs:

* two bridges and two loads with two calls each give a bridge used again, one used
  by both pages, and answers of one under way while the other calls;
* three WiFi calls give an attempt, one rejected meanwhile and a scan; three values
  under way are one in each third of the circle;
* two adapters with three signals: a power signal of the adapter given up, a
  change of adapter and a power signal of the new one can wait together, which
  is what it takes to mislead the model. The properties hold with four as well;
* two requests and two answers give a prompt answered twice, and one answered
  after another request came;
* two windows hand the focus to each other or are closed with it; three calls
  under way are a focus, the unfocus after it and the next focus;
* two objects are a row and the deleted row that is still selected, or two rows;
  the three classes are a type that is connected, one that is listed only, and one
  that is not listed.

The core states safety only: a request or an event comes when a client likes, so
there is no fairness a property of it could rest on. `WindowStage` assumes weak
fairness of `Tick` and of nothing else: a running `QTimer` fires, because the
daemon's event loop never stops and no handler can postpone it for ever.
`LoadedIsShown` needs just that; it would fail if each load started the timer
anew, since a page may reload itself without end (this is its mutant).

`BtAdapter` assumes weak fairness of `HandleSignal` (Qt's event loop handles what
QtDBus has posted) and of `Timeout` (`m_timer` repeats and is started by every
call that touches discovery). Nothing is assumed of BlueZ or of the page: that an
adapter stays and keeps its power is a premise of `KeepsScanning` and
`BecomesDiscoverable`, and so is that the page stops calling `discover`, each call
of which restarts the timer. A third premise, that `misled` never happens, names what
the code cannot stand: the last power signal it handles came from a subscription
already given up and denied a power that its adapter has. Nor does
`BecomesDiscoverable` speak of an adapter that the page or others hid (`hidden`), which
the code does not show again before its power comes anew.

### Findings

1. `launchApp` refuses the documented request, which has no `processId`
   (`src/webappmanagerservice.cpp:148` against its documentation at 80-86, 107 and 110).
2. `clearMemoryCaches` dereferences the null `mMainWindow` of an application
   whose main window was closed while a child is open
   (`src/webapplication.cpp:302`): launch, open a child, close the main window,
   clear.
3. `clearMemoryCaches` with one of its two keys clears all applications
   (`src/webappmanagerservice.cpp:391`); the `appId` branch is dead code.
4. The container gives up a page whose web process died after the last restart
   with "Closing it now" and `Qt.quit()` (`src/qml/ApplicationContainer.qml:227-229`),
   but no code connects the `quit` signal of a window's QML engine: the window
   stays open and the application stays listed.

5. A callback of the page is not specific to its call
   (`src/qml/webos-api.js:481`, `:500`): `LS2Call` gives the bridge the number of a
   new call before it knows that the bus takes it
   (`src/extensions/palmsystemextension.cpp:357`), and numbers start again when the
   page is loaded again. `AnswersStayApart` says that nothing else goes wrong.
6. `DisplayPasskey` should return an empty reply
   (`src/extensions/bluetooth/agent.cpp:225`); it delays its reply and
   `displayPasskeyCallback` sends `org.bluez.Error.Canceled` (`:272`). That is of a
   device the model knows.

Seen while reading, not the subject of a run:

* the error answer of `killApp` (`src/webappmanagerservice.cpp:265`) lacks its
  opening brace and is no JSON;
* `webViewComponent.webView.reload()` (`src/qml/ApplicationContainer.qml:47`)
  names a property that a `Component` does not have, so the page is not reloaded
  when the network comes back, as the comment above it says; the model has no
  action for it;
* the comment at `src/webapplicationwindow.cpp:395` ("if the framework called us
  with an explicit stagePreparing call we will wait for the call to stageReady")
  holds for the first stage only, because `mStageReady` is never reset.
* `LS2Cancel` on a bridge that never called dereferences a null pointer
  (`src/extensions/palmsystemextension.cpp:370`); callbacks and bridges are never
  removed;
* `disconnect(this, SLOT(...))` at `src/extensions/wifimanager.cpp:216` disconnects
  nothing, so a late report of a doomed service can end a newer attempt with the
  wrong result; the passphrase goes to whichever service asks for it (139-156);
  `__WiFiManager.enabled` is never set (`WiFiManager.js`); the page and the radio
  can hand two quick changes of the power to each other for ever;
* `clearAdapter` (`src/extensions/bluetooth/devicemodel.cpp:130`) keeps `m_isPowered`,
  and power signals are not asked which adapter they are of: one of a former
  subscription makes the model skip calls for the adapter it has (the events
  `outdated` and `misled`);
* the scripts for `deviceRemoved` hold the address without quotes and do not parse;
  a device that was found and not created never tells of its changes; a
  combined keyboard and pointer is of no known type; `setSelectedDevice` keeps an
  object that was removed when another of the same address has come;
* `RequestConfirmation` should return "an empty reply or an error"
  (`src/extensions/bluetooth/agent.cpp:67-68`); for a device that the model does not
  know it does both, because `reject` (36-41) sends the error without delaying the
  method's own reply. So do the other three requests (141, 194, 248). `RejectRequest`
  records both replies, and no property says that there is one;
* answers of the page to pairing requests given while there is no technology are
  dropped and BlueZ waits on;
* `Activity::focus` and `unfocus` test the id against 0 although it is -1 until the
  manager has answered (`src/activity.cpp:131`): a focus before the answer goes out
  for activity -1 and is not repeated (`unheard`); and a window closed with the focus
  leaves `mFocus` set (`unseen`);
* `InAppBrowserExtension::onTitleChanged` goes through a null `mItem` after `close`
  (`src/extensions/inappbrowserextension.cpp:81`).

## Proofs

`WebAppManager_proofs` proves, for every value of the constants that satisfies
`IdsAssumption`, `NullAssumption` and `PidsAssumption` (identities and the
null values differ, ids are numbers, process ids are not strings):

* `Invariance`: `Spec => []IInv`, and from it `TypeCorrect`,
  `RegistryAlwaysExact`, `WindowsAlwaysOwned`, `PointersAlwaysSound` and
  `MainAlwaysHears`;
* `Refinement`: `Spec => ImplementsRunningApps`;
* `ListenerAlwaysSound`: `Spec => []ListenerSound`;
* `LaunchAnswersTrue` and `ReachedShowMain`: the answers to requests are true;
* `NeverLeftAlone` and `KeptAliveStays`: the action properties
  `HeadlessNotLeftAlone` and `KeptAliveUntilKilled`.

`IInv` is the conjunction of `TypeOK`, `RegistryExact`, `WindowsOwned`,
`PointersSound` and `MainHearsRelaunch`. None is inductive alone. That a page
event meets a live application needs `PointersSound`; `PointersSound` survives a
deletion only because `WindowsOwned` says that the deleted windows are exactly
the listed ones; that the slot behind `closed()` finds the application in the
table needs `RegistryExact`; and `RegistryExact` survives a launch because the
object taken is not live, so no id leads to it.

The argument: only five things happen to the heap (an application is
constructed, a window is added, windows are lost, an application is deleted,
fields the invariant does not read change), each with a lemma; the actions are
put together from these. The refinement goes through the operator `Listed`:
every step starts one application, finishes one, subscribes, loses all or
changes nothing that is listed. `ListenerSound` is then proved over the five
kinds of abstract step instead of over the actions. The two properties of `reply`
(together `ReplySound`) hold after each step because of what it answers, given that
listed applications are live. The two action properties follow from one fact about
all steps, `WellClosed`: an application loses windows only by closing a closable
one, and leaves the table only by closing its last, being killed, or with the daemon.

`WindowStage_proofs` proves, for every length of the timer and every number of
restarts (`BoundsAssumption`), `StageTypeCorrect`, `NeverShownEarly`,
`TimerOnlyForStage` and `RemoteAlwaysVisible`, the four invariants of the run
`stage`. Their inductive invariant `StageInv` adds two facts. `PreparingOrReady`
(one of the two flags is always set) is what lets `LoadSucceeded` conclude from
`~AwaitsStage` that the stage is ready. `RemoteIsReady` (a page of the web is
ready from the start and never kept alive) keeps timer and close event from
leaving such a window hidden.

The proofs about the extensions need the assumptions on bounds and identities
named in the modules, and nothing about their size:

* `ServiceBridge_proofs`: `BridgeTypeCorrect`, `AnswersApart`, `SupersededSilent`.
  The invariant `BridgeInv` orders things by page: calls under way to the daemon
  come in the order of their pages (`UpInOrder`) and are not older than the owner
  of any bridge (`OwnersInOrder`); a live call's bridge, and an answer under way,
  are owned by the call that asked or by a refused one of no earlier page
  (`LiveOwned`, `DownOwned`). So an answer that reaches another call of its own page
  reaches a refused one.
* `WiFiManager_proofs`: `WifiTypeCorrect`, `CallAnsweredOnce`, `AttemptKeepsService`,
  `PowerAgrees`. `CallAnsweredOnce` rests on `Placed`, which says where each call is
  instead of counting. `PowerAgrees` rests on `ScriptsTellPower` (the last script
  under way carries the power of the radio) and `Agreed`: with no script under way
  the page shows the power of the radio, or what it shows is the last value still
  on its way to connman.
* `BtAdapter_proofs`: `AdapterTypeCorrect` and `NothingLeftOn`, whose invariant
  `OnlyCurrentVisible` adds that a model which takes its adapter to have no power
  has left nothing discoverable, so that the calls it skips were not needed.
* `BtAgent_proofs`: `AgentTypeCorrect`, `AnswerReachesRequest`,
  `RequestAnsweredOnce`. `Means` says that all prompts, answers and kept messages
  under one tag are of one request; `KeptOnce` replaces the cardinality. A request is
  `Unanswered` and kept, or `Answered` once, or `TurnedDown` with two replies, and no
  longer kept in either of the latter cases.
* `BtDevices_proofs`: `DevicesTypeCorrect`, `OneRowPerAddress`, `PageKnowsRows`,
  `NamedDeviceOnly`, together inductive (`DevicesInv`): unique rows need every row
  to hold an object that exists, and the page's knowledge needs that taking over a
  row keeps its address. `ConnectsNeverExceed` (BlueZ is not asked to connect a device
  more often than the page asked) needs `owed[a]` compared with what all objects of
  the address have pending. That is a sum, which the proof does without: `Pending(a)` is the
  set of pairs of an object and a number up to its `pending`, and `OwedCovers` says
  that this set is finite and has no more than `owed[a]` members. Asking puts
  at most one pair in; a reply takes those of its object out and pays for each.
* `Activity_proofs`: `ActivityTypeCorrect`, `FocusedIsForeground`,
  `UnfocusedIsBackground`. `Expected` is what the manager will believe when all
  calls have arrived, which the last of them decides; `Agreement` relates it to
  `mFocus`, to the id and to the focus of the windows at all times.

Two refinements of `OneReply` are proved step by step: `CallsRefineOneReply`
(`WiFiManager_proofs`) and `RequestsRefineOneReply` (`BtAgent_proofs`). That a kept
question has no answer yet is `KeptUnanswered` in the first, from `Placed`, and
`KeptOnce` in the second, where a rejected request is a stutter. The end of a scan answers all its callers in one abstract
step, and an attempt that ends answers one.

The safety half of the liveness properties is proved as well:

* `LoadedHasDeadline` (`WindowStage_proofs`), for `LoadedIsShown`: a loaded page that
  nobody shows has the stage timer running (`LoadedIsTimed`), no step puts the
  timer off, and the step that ends it shows the window or ends the window's life
  (`NeverPutOff`). What is left is that a running timer is counted down to zero.
* `AlwaysProspects` (`BtAdapter_proofs`), for `KeepsScanning` and
  `BecomesDiscoverable`: `m_timer` runs as long as there is an adapter; a model that
  was not misled knows of its adapter's power or has a power signal waiting, and its
  adapter is discoverable or such a signal waits. What is left is that signals are
  handled and timers go off.

Only model-checked: the liveness properties `LoadedIsShown`, `KeepsScanning` and
`BecomesDiscoverable` themselves. Their last step is an argument from fairness,
over `ENABLED`, which is out of the prover's reach. Every other property of a run
that passes is proved.

## Plan

What the plan of this development named is modelled, except for the in-app browser,
see below, and every safety property is proved. What could follow is liveness of
`WiFiManager`: the circle of the power comes to rest when the user does nothing
more and at most one change is under way (with two it need not).

## Not modelled

The in-app browser is one pointer that is null or not; whether its title can
change between `close` and the deferred deletion is decided in the web engine.

Of the extensions: the lists of networks and of device properties, passphrases,
`disconnectNetwork`, `removeNetwork`, `setNetworkOption`, the exchange of Bluetooth's
power with the page (line for line that of WiFi), registration of the agent, and
the getters, banners and orientation of PalmSystem. They forward a call or
convert values.

Parsing of the application description, device info, system time, plugins, URL
redirects, the helpers and the base classes: they convert values or forward one
call and keep no state a property could relate. Layout, window geometry and
colours. `installUrlSchemeHandlers` blocks up to a second inside the constructor
of a window; whether handlers run meanwhile is decided in luna-service2, so
launching is one step here.
