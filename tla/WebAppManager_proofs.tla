------------------------- MODULE WebAppManager_proofs -------------------------
(***************************************************************************)
(* Proofs about WebAppManager for every value of its constants.  IInv is   *)
(* inductive.  Its part about the heap (HeapInv) is disturbed by only five *)
(* things the code does to objects - constructing an application, building *)
(* its main window again, creating a child window, losing windows and      *)
(* deleting an application - so each has a lemma of its own and the        *)
(* actions are put together from these.                                    *)
(***************************************************************************)
EXTENDS WebAppManager, TLAPS

HeapTyped ==
    /\ mApplications \in [AppIds -> Objects \cup {Null}]
    /\ app \in [Objects -> Application]
    /\ win \in [Windows -> Window]

HeapInv ==
    /\ HeapTyped
    /\ LiveHasPid
    /\ RegistryExact
    /\ WindowsOwned
    /\ PointersSound
    /\ MainHearsRelaunch

\* A dead object owns no window and no window points to it.
LEMMA DeadIsEmpty ==
    ASSUME HeapInv, NEW o \in Objects, ~Live(o)
    PROVE  /\ app[o].windows = {}
           /\ \A w \in Windows : win[w].application # o
<1>1. \A w \in Windows : win[w].application # o
  BY DEF HeapInv, PointersSound
<1>2. app[o].windows \subseteq Windows
  BY DEF HeapInv, HeapTyped, Application
<1> QED
  BY <1>1, <1>2 DEF HeapInv, WindowsOwned

\* Launching: a free object and a free window become an application.
LEMMA ConstructKeepsHeap ==
    ASSUME HeapInv,
           NEW o \in Objects, ~Live(o), NEW w \in FreeWindows,
           NEW a \in AppIds, ~isAppRunning(a), NEW p \in Pids,
           NEW system \in BOOLEAN, NEW atBoot \in BOOLEAN,
           Construct(o, w, a, p, system, atBoot),
           mApplications' = [mApplications EXCEPT ![a] = o]
    PROVE  HeapInv'
<1> DEFINE A == NewApplication(a, p, system, atBoot, w)
           W == MainWindow(o, a, system)
<1>0. w \in Windows /\ win[w].state = "free"
  BY DEF FreeWindows
<1>1. A \in Application
  BY <1>0 DEF NewApplication, Application
<1>2. W \in Window
  BY DEF MainWindow, NewWindow, Extension, Window
<1>3. app' = [app EXCEPT ![o] = A] /\ win' = [win EXCEPT ![w] = W]
  BY DEF Construct
<1>4. HeapTyped'
  BY <1>0, <1>1, <1>2, <1>3 DEF HeapInv, HeapTyped
<1>5. /\ app'[o] = A
      /\ \A x \in Objects \ {o} : app'[x] = app[x]
      /\ win'[w] = W
      /\ \A v \in Windows \ {w} : win'[v] = win[v]
      /\ mApplications'[a] = o
      /\ \A b \in AppIds \ {a} : mApplications'[b] = mApplications[b]
  BY <1>0, <1>3 DEF HeapInv, HeapTyped
<1>6. /\ A.id = a /\ A.processId = p /\ A.main = w /\ A.windows = {w} /\ A.system = system
      /\ W.state = "open" /\ W.application = o
      /\ system => W.palmSystem = "relaunch"
  BY DEF NewApplication, MainWindow, NewWindow, Extension
<1>7. a # Null /\ o # Null /\ o # Dangling /\ w # Null
  BY <1>0, NullAssumption
<1>8. /\ \A x \in Objects : w \notin app[x].windows
      /\ \A v \in Windows : win[v].application # o
  BY <1>0, DeadIsEmpty DEF HeapInv, WindowsOwned
<1>9. \A x \in Objects : Live(x) => app[x].id \in AppIds /\ app[x].id # a
  BY NullAssumption DEF HeapInv, HeapTyped, RegistryExact, Application, Live, isAppRunning
<1>10. \A b \in AppIds \ {a} : mApplications[b] # Null =>
         mApplications[b] \in Objects /\ mApplications[b] # o
  BY NullAssumption DEF HeapInv, HeapTyped, RegistryExact, Live, isAppRunning
<1>11. LiveHasPid'
  BY <1>5, <1>6 DEF HeapInv, LiveHasPid, Live
<1>12. RegistryExact'
  <2>1. ASSUME NEW b \in AppIds, mApplications'[b] # Null
        PROVE  app'[mApplications'[b]].id = b
    BY <2>1, <1>5, <1>6, <1>10 DEF HeapInv, RegistryExact, isAppRunning
  <2>2. ASSUME NEW x \in Objects, app'[x].id # Null
        PROVE  mApplications'[app'[x].id] = x
    BY <2>2, <1>5, <1>6, <1>9 DEF HeapInv, RegistryExact, Live
  <2> QED
    BY <2>1, <2>2 DEF RegistryExact, isAppRunning, Live
<1>13. WindowsOwned'
  <2>1. ASSUME NEW v \in Windows
        PROVE  win'[v].state = "open" <=> \E x \in Objects : v \in app'[x].windows
    <3>1. CASE v = w
      BY <3>1, <1>5, <1>6
    <3>2. CASE v # w
      <4>1. app[o].windows = {}
        BY DeadIsEmpty
      <4> QED
        BY <3>2, <4>1, <1>5, <1>6 DEF HeapInv, WindowsOwned
    <3> QED
      BY <3>1, <3>2
  <2>2. ASSUME NEW x \in Objects, NEW v \in app'[x].windows
        PROVE  win'[v].application = x
    <3>1. CASE x = o
      BY <3>1, <1>5, <1>6
    <3>2. CASE x # o
      <4>1. v \in app[x].windows /\ v \in Windows /\ v # w
        BY <3>2, <1>5, <1>8 DEF HeapInv, HeapTyped, Application
      <4> QED
        BY <4>1, <1>5 DEF HeapInv, WindowsOwned
    <3> QED
      BY <3>1, <3>2
  <2>3. ASSUME NEW x \in Objects, app'[x].id # Null
        PROVE  app'[x].windows # {} /\ app'[x].main \in app'[x].windows \cup {Null}
    BY <2>3, <1>5, <1>6 DEF HeapInv, WindowsOwned, Live
  <2> QED
    BY <2>1, <2>2, <2>3 DEF WindowsOwned, Live
<1>14. PointersSound'
  <2>1. ASSUME NEW v \in Windows
        PROVE  /\ win'[v].application \in Objects => app'[win'[v].application].id # Null
               /\ win'[v].application = Dangling => win'[v].state = "doomed"
    <3>1. CASE v = w
      BY <3>1, <1>5, <1>6, <1>7
    <3>2. CASE v # w
      BY <3>2, <1>5, <1>8 DEF HeapInv, PointersSound, Live
    <3> QED
      BY <3>1, <3>2
  <2> QED
    BY <2>1 DEF PointersSound, Live
<1>15. MainHearsRelaunch'
  <2>1. ASSUME NEW x \in Objects, app'[x].id # Null, app'[x].system, app'[x].main # Null
        PROVE  win'[app'[x].main].palmSystem = "relaunch"
    <3>1. CASE x = o
      BY <3>1, <2>1, <1>5, <1>6
    <3>2. CASE x # o
      <4>1. app[x].main \in app[x].windows /\ app[x].main \in Windows /\ app[x].main # w
        BY <3>2, <2>1, <1>5, <1>8 DEF HeapInv, HeapTyped, WindowsOwned, Live, Application
      <4> QED
        BY <3>2, <4>1, <2>1, <1>5 DEF HeapInv, MainHearsRelaunch, Live
    <3> QED
      BY <3>1, <3>2
  <2> QED
    BY <2>1 DEF MainHearsRelaunch, Live
<1> QED
  BY <1>4, <1>11, <1>12, <1>13, <1>14, <1>15 DEF HeapInv

\* A live application gets one more window, as its main window or as a child.
LEMMA AddWindowKeepsHeap ==
    ASSUME HeapInv,
           NEW o \in Objects, Live(o), NEW w \in FreeWindows,
           NEW B \in Application, NEW W \in Window,
           B.id = app[o].id, B.processId = app[o].processId, B.system = app[o].system,
           B.windows = app[o].windows \cup {w},
           W.state = "open", W.application = o,
           \/ B.main = app[o].main
           \/ B.main = w /\ (B.system => W.palmSystem = "relaunch"),
           app' = [app EXCEPT ![o] = B], win' = [win EXCEPT ![w] = W],
           mApplications' = mApplications
    PROVE  HeapInv'
<1>0. w \in Windows /\ win[w].state = "free"
  BY DEF FreeWindows
<1>1. HeapTyped'
  BY <1>0 DEF HeapInv, HeapTyped
<1>2. /\ app'[o] = B
      /\ \A x \in Objects \ {o} : app'[x] = app[x]
      /\ win'[w] = W
      /\ \A v \in Windows \ {w} : win'[v] = win[v]
  BY <1>0 DEF HeapInv, HeapTyped
<1>3. o # Null /\ o # Dangling /\ w # Null
  BY <1>0, NullAssumption
<1>4. \A x \in Objects : w \notin app[x].windows
  BY <1>0 DEF HeapInv, WindowsOwned
<1>5. \A x \in Objects : app'[x].id = app[x].id /\ app'[x].processId = app[x].processId
  BY <1>2
<1>6. LiveHasPid' /\ RegistryExact'
  <2>1. \A a \in AppIds : mApplications[a] # Null => mApplications[a] \in Objects
    BY DEF HeapInv, HeapTyped
  <2> QED
    BY <1>5, <2>1 DEF HeapInv, LiveHasPid, RegistryExact, Live, isAppRunning
<1>7. WindowsOwned'
  <2>1. ASSUME NEW v \in Windows
        PROVE  win'[v].state = "open" <=> \E x \in Objects : v \in app'[x].windows
    <3>1. CASE v = w
      BY <3>1, <1>2
    <3>2. CASE v # w
      <4>1. \A x \in Objects : v \in app'[x].windows <=> v \in app[x].windows
        BY <3>2, <1>2
      <4> QED
        BY <3>2, <4>1, <1>2 DEF HeapInv, WindowsOwned
    <3> QED
      BY <3>1, <3>2
  <2>2. ASSUME NEW x \in Objects, NEW v \in app'[x].windows
        PROVE  win'[v].application = x
    <3>1. CASE v = w
      BY <3>1, <1>2, <1>4
    <3>2. CASE v # w
      <4>1. v \in app[x].windows /\ v \in Windows
        BY <3>2, <1>2 DEF HeapInv, HeapTyped, Application
      <4> QED
        BY <3>2, <4>1, <1>2 DEF HeapInv, WindowsOwned
    <3> QED
      BY <3>1, <3>2
  <2>3. ASSUME NEW x \in Objects, app'[x].id # Null
        PROVE  app'[x].windows # {} /\ app'[x].main \in app'[x].windows \cup {Null}
    BY <2>3, <1>2 DEF HeapInv, WindowsOwned, Live
  <2> QED
    BY <2>1, <2>2, <2>3 DEF WindowsOwned, Live
<1>8. PointersSound'
  <2>1. ASSUME NEW v \in Windows
        PROVE  /\ win'[v].application \in Objects => app'[win'[v].application].id # Null
               /\ win'[v].application = Dangling => win'[v].state = "doomed"
    <3>1. CASE v = w
      BY <3>1, <1>2, <1>3, <1>5 DEF Live
    <3>2. CASE v # w
      BY <3>2, <1>2, <1>5 DEF HeapInv, PointersSound, Live
    <3> QED
      BY <3>1, <3>2
  <2> QED
    BY <2>1 DEF PointersSound, Live
<1>9. MainHearsRelaunch'
  <2>1. ASSUME NEW x \in Objects, app'[x].id # Null, app'[x].system, app'[x].main # Null
        PROVE  win'[app'[x].main].palmSystem = "relaunch"
    <3>1. CASE app'[x].main = w
      <4>1. x = o
        BY <3>1, <2>1, <1>2, <1>3, <1>4 DEF HeapInv, WindowsOwned, Live
      <4>2. app[o].main # w
        BY <1>3, <1>4 DEF HeapInv, WindowsOwned
      <4> QED
        BY <3>1, <4>1, <4>2, <2>1, <1>2
    <3>2. CASE app'[x].main # w
      <4>1. app'[x].main = app[x].main /\ app[x].system /\ Live(x)
        BY <3>2, <2>1, <1>2 DEF Live
      <4>2. app[x].main \in Windows
        BY <2>1, <4>1 DEF HeapInv, HeapTyped, Application
      <4> QED
        BY <3>2, <4>1, <4>2, <2>1, <1>2 DEF HeapInv, MainHearsRelaunch
    <3> QED
      BY <3>1, <3>2
  <2> QED
    BY <2>1 DEF MainHearsRelaunch, Live
<1> QED
  BY <1>1, <1>6, <1>7, <1>8, <1>9 DEF HeapInv

\* An application loses some of its windows, but not all.
LEMMA LoseWindowsKeepsHeap ==
    ASSUME HeapInv,
           NEW o \in Objects, Live(o), NEW closing \in SUBSET app[o].windows,
           closing # app[o].windows,
           LoseWindows(o, closing), mApplications' = mApplications
    PROVE  HeapInv'
<1> DEFINE B == [app[o] EXCEPT !.windows = @ \ closing, !.main = MainAfterClosing(o, closing)]
<1>0. app[o] \in Application /\ app[o].windows \subseteq Windows
  BY DEF HeapInv, HeapTyped, Application
<1>1. B \in Application
  BY <1>0 DEF Application, MainAfterClosing
<1>2. /\ B.id = app[o].id /\ B.processId = app[o].processId /\ B.system = app[o].system
      /\ B.windows = app[o].windows \ closing
      /\ B.main = IF app[o].main \in closing THEN Null ELSE app[o].main
  BY <1>0 DEF Application, MainAfterClosing
<1>3. app' = [app EXCEPT ![o] = B]
  BY DEF LoseWindows, HeapInv, HeapTyped
<1> HIDE DEF B
<1>4. win' = [w \in Windows |->
                IF w \in closing THEN [win[w] EXCEPT !.state = "doomed"] ELSE win[w]]
  BY DEF LoseWindows
<1>5. /\ app'[o] = B
      /\ \A x \in Objects \ {o} : app'[x] = app[x]
  BY <1>3 DEF HeapInv, HeapTyped
<1>6. \A w \in Windows : win'[w] \in Window
  BY <1>4 DEF HeapInv, HeapTyped, Window
<1>7. /\ \A w \in Windows \ closing : win'[w] = win[w]
      /\ \A w \in closing : win'[w].state = "doomed" /\ win'[w].application = win[w].application
  BY <1>0, <1>4 DEF HeapInv, HeapTyped, Window
<1>8. HeapTyped'
  <2>1. app' \in [Objects -> Application]
    BY <1>1, <1>3 DEF HeapInv, HeapTyped
  <2>2. win' \in [Windows -> Window]
    BY <1>4, <1>6
  <2> QED
    BY <2>1, <2>2 DEF HeapInv, HeapTyped
<1>9. \A x \in Objects : app'[x].id = app[x].id /\ app'[x].processId = app[x].processId
  BY <1>2, <1>5
<1>10. LiveHasPid' /\ RegistryExact'
  <2>1. \A a \in AppIds : mApplications[a] # Null => mApplications[a] \in Objects
    BY DEF HeapInv, HeapTyped
  <2> QED
    BY <1>9, <2>1 DEF HeapInv, LiveHasPid, RegistryExact, Live, isAppRunning
<1>11. \A w \in closing : \A x \in Objects : w \notin app'[x].windows
  <2> TAKE w \in closing
  <2>1. w \in app[o].windows /\ win[w].application = o
    BY DEF HeapInv, WindowsOwned
  <2>2. \A x \in Objects \ {o} : w \notin app[x].windows
    BY <2>1 DEF HeapInv, WindowsOwned
  <2> QED
    BY <2>2, <1>2, <1>5
<1>12. \A w \in Windows \ closing : \A x \in Objects :
          w \in app'[x].windows <=> w \in app[x].windows
  BY <1>2, <1>5
<1>13. WindowsOwned'
  <2>1. ASSUME NEW w \in Windows
        PROVE  win'[w].state = "open" <=> \E x \in Objects : w \in app'[x].windows
    <3>1. CASE w \in closing
      BY <3>1, <1>7, <1>11
    <3>2. CASE w \notin closing
      BY <3>2, <1>7, <1>12 DEF HeapInv, WindowsOwned
    <3> QED
      BY <3>1, <3>2
  <2>2. ASSUME NEW x \in Objects, NEW w \in app'[x].windows
        PROVE  win'[w].application = x
    <3>1. w \in app[x].windows /\ w \in Windows /\ w \notin closing
      <4>1. app'[x].windows \subseteq app[x].windows
        BY <1>2, <1>5
      <4> QED
        BY <4>1, <1>11 DEF HeapInv, HeapTyped, Application
    <3> QED
      BY <3>1, <1>7 DEF HeapInv, WindowsOwned
  <2>3. ASSUME NEW x \in Objects, app'[x].id # Null
        PROVE  app'[x].windows # {} /\ app'[x].main \in app'[x].windows \cup {Null}
    <3>1. CASE x = o
      <4>1. /\ app'[o].windows = app[o].windows \ closing
            /\ app'[o].main = IF app[o].main \in closing THEN Null ELSE app[o].main
        BY <1>2, <1>5
      <4>2. app[o].main \in app[o].windows \cup {Null}
        BY DEF HeapInv, WindowsOwned
      <4> QED
        BY <3>1, <4>1, <4>2
    <3>2. CASE x # o
      BY <3>2, <2>3, <1>5 DEF HeapInv, WindowsOwned, Live
    <3> QED
      BY <3>1, <3>2
  <2> QED
    BY <2>1, <2>2, <2>3 DEF WindowsOwned, Live
<1>14. PointersSound'
  <2>1. ASSUME NEW w \in Windows
        PROVE  /\ win'[w].application \in Objects => app'[win'[w].application].id # Null
               /\ win'[w].application = Dangling => win'[w].state = "doomed"
    BY <1>7, <1>9 DEF HeapInv, PointersSound, Live
  <2> QED
    BY <2>1 DEF PointersSound, Live
<1>15. MainHearsRelaunch'
  <2>1. ASSUME NEW x \in Objects, app'[x].id # Null, app'[x].system, app'[x].main # Null
        PROVE  win'[app'[x].main].palmSystem = "relaunch"
    <3>1. app'[x].main = app[x].main /\ app[x].system /\ Live(x)
      BY <2>1, <1>2, <1>5 DEF Live
    <3>2. app[x].main \in app[x].windows /\ app[x].main \in Windows
      BY <2>1, <3>1 DEF HeapInv, HeapTyped, WindowsOwned, Application
    <3>3. app[x].main \notin closing
      <4>1. CASE x = o
        BY <4>1, <2>1, <1>2, <1>5
      <4>2. CASE x # o
        BY <4>2, <3>2 DEF HeapInv, WindowsOwned
      <4> QED
        BY <4>1, <4>2
    <3> QED
      BY <2>1, <3>1, <3>2, <3>3, <1>7 DEF HeapInv, MainHearsRelaunch
  <2> QED
    BY <2>1 DEF MainHearsRelaunch, Live
<1> QED
  BY <1>8, <1>10, <1>13, <1>14, <1>15 DEF HeapInv

\* The last window or a kill: the application is unlisted and deleted.
LEMMA DeleteKeepsHeap ==
    ASSUME HeapInv,
           NEW o \in Objects, Live(o), NEW closing \in SUBSET app[o].windows,
           Delete(o, closing), mApplications' = Unlisted(app[o].id)
    PROVE  HeapInv'
<1>0. app[o].windows \subseteq Windows /\ app[o].id \in AppIds
  BY DEF HeapInv, HeapTyped, Application, Live
<1>1. NoApplication \in Application /\ NoWindow \in Window
  BY DEF NoApplication, Application, NoWindow, Window
<1>2. /\ app'[o].id = Null /\ app'[o].windows = {}
      /\ \A x \in Objects \ {o} : app'[x] = app[x]
      /\ mApplications'[app[o].id] = Null
      /\ \A a \in AppIds \ {app[o].id} : mApplications'[a] = mApplications[a]
  BY <1>0 DEF Delete, Unlisted, NoApplication, HeapInv, HeapTyped
<1>3. win' = [w \in Windows |->
                IF w \in app[o].windows \ closing THEN NoWindow
                ELSE IF win[w].application = o
                     THEN [win[w] EXCEPT !.state = "doomed", !.application = Dangling]
                     ELSE win[w]]
  BY DEF Delete
<1>4. \A w \in Windows : win'[w] \in Window
  <2> TAKE w \in Windows
  <2>1. win[w] \in Window
    BY DEF HeapInv, HeapTyped
  <2>2. [win[w] EXCEPT !.state = "doomed", !.application = Dangling] \in Window
    BY <2>1 DEF Window
  <2> QED
    BY <2>1, <2>2, <1>1, <1>3
<1>5. HeapTyped'
  <2>1. app' \in [Objects -> Application]
    BY <1>1 DEF Delete, HeapInv, HeapTyped
  <2>2. win' \in [Windows -> Window]
    BY <1>3, <1>4
  <2>3. mApplications' \in [AppIds -> Objects \cup {Null}]
    BY DEF Unlisted, HeapInv, HeapTyped
  <2> QED
    BY <2>1, <2>2, <2>3 DEF HeapTyped
<1>6. \A w \in Windows :
        \/ win'[w] = win[w] /\ win[w].application # o /\ w \notin app[o].windows
        \/ win'[w].state = "free" /\ win'[w].application = Null /\ w \in app[o].windows
        \/ win'[w].state = "doomed" /\ win'[w].application = Dangling /\ win[w].application = o
  <2> TAKE w \in Windows
  <2>1. CASE w \in app[o].windows \ closing
    BY <2>1, <1>3 DEF NoWindow
  <2>2. CASE w \notin app[o].windows \ closing /\ win[w].application = o
    <3>1. win[w] \in Window
      BY DEF HeapInv, HeapTyped
    <3>2. win'[w] = [win[w] EXCEPT !.state = "doomed", !.application = Dangling]
      BY <2>2, <1>3
    <3> QED
      BY <2>2, <3>1, <3>2 DEF Window
  <2>3. CASE w \notin app[o].windows \ closing /\ win[w].application # o
    <3>1. w \notin app[o].windows
      BY <2>3 DEF HeapInv, WindowsOwned
    <3> QED
      BY <2>3, <3>1, <1>3
  <2> QED
    BY <2>1, <2>2, <2>3
<1>7. \A x \in Objects : \A w \in app'[x].windows :
        w \in app[x].windows /\ x # o /\ w \in Windows /\ win[w].application = x
  BY <1>2 DEF HeapInv, HeapTyped, Application, WindowsOwned
<1>8. LiveHasPid'
  BY <1>2 DEF HeapInv, LiveHasPid, Live
<1>9. RegistryExact'
  <2>1. ASSUME NEW a \in AppIds, mApplications'[a] # Null
        PROVE  app'[mApplications'[a]].id = a
    <3>1. a # app[o].id /\ mApplications[a] = mApplications'[a] /\ mApplications[a] \in Objects
      BY <2>1, <1>2 DEF HeapInv, HeapTyped
    <3>2. app[mApplications[a]].id = a
      BY <2>1, <3>1 DEF HeapInv, RegistryExact, isAppRunning
    <3> QED
      BY <3>1, <3>2, <1>2
  <2>2. ASSUME NEW x \in Objects, app'[x].id # Null
        PROVE  mApplications'[app'[x].id] = x
    <3>1. x # o /\ app'[x] = app[x] /\ app[x].id \in AppIds
      BY <2>2, <1>2 DEF HeapInv, HeapTyped, Application
    <3>2. mApplications[app[x].id] = x /\ mApplications[app[o].id] = o
      BY <2>2, <3>1 DEF HeapInv, RegistryExact, Live
    <3> QED
      BY <3>1, <3>2, <1>2
  <2> QED
    BY <2>1, <2>2 DEF RegistryExact, isAppRunning, Live
<1>10. WindowsOwned'
  <2>1. ASSUME NEW w \in Windows
        PROVE  win'[w].state = "open" <=> \E x \in Objects : w \in app'[x].windows
    <3>1. CASE win'[w] = win[w] /\ win[w].application # o /\ w \notin app[o].windows
      BY <3>1, <1>2, <1>7 DEF HeapInv, WindowsOwned
    <3>2. CASE win[w].application = o
      BY <3>2, <1>6, <1>7
    <3> QED
      BY <3>1, <3>2, <1>6 DEF HeapInv, WindowsOwned
  <2>2. ASSUME NEW x \in Objects, NEW w \in app'[x].windows
        PROVE  win'[w].application = x
    <3>1. w \notin app[o].windows
      BY <1>7 DEF HeapInv, WindowsOwned
    <3> QED
      BY <3>1, <1>6, <1>7
  <2>3. ASSUME NEW x \in Objects, app'[x].id # Null
        PROVE  app'[x].windows # {} /\ app'[x].main \in app'[x].windows \cup {Null}
    BY <2>3, <1>2 DEF HeapInv, WindowsOwned, Live
  <2> QED
    BY <2>1, <2>2, <2>3 DEF WindowsOwned, Live
<1>11. PointersSound'
  <2>1. ASSUME NEW w \in Windows
        PROVE  /\ win'[w].application \in Objects => app'[win'[w].application].id # Null
               /\ win'[w].application = Dangling => win'[w].state = "doomed"
    BY <1>2, <1>6, NullAssumption DEF HeapInv, PointersSound, Live
  <2> QED
    BY <2>1 DEF PointersSound, Live
<1>12. MainHearsRelaunch'
  <2>1. ASSUME NEW x \in Objects, app'[x].id # Null, app'[x].system, app'[x].main # Null
        PROVE  win'[app'[x].main].palmSystem = "relaunch"
    <3>1. x # o /\ app'[x] = app[x] /\ Live(x)
      BY <2>1, <1>2 DEF Live
    <3>2. app[x].main \in app[x].windows /\ app[x].main \in Windows
      BY <2>1, <3>1 DEF HeapInv, HeapTyped, WindowsOwned, Application
    <3>3. win[app[x].main].application = x
      BY <3>2 DEF HeapInv, WindowsOwned
    <3>4. app[x].main \notin app[o].windows
      BY <3>1, <3>3 DEF HeapInv, WindowsOwned
    <3> QED
      BY <2>1, <3>1, <3>2, <3>3, <3>4, <1>6 DEF HeapInv, MainHearsRelaunch
  <2> QED
    BY <2>1 DEF MainHearsRelaunch, Live
<1> QED
  BY <1>5, <1>8, <1>9, <1>10, <1>11, <1>12 DEF HeapInv

-----------------------------------------------------------------------------
(* The actions                                                             *)

ListenerTyped ==
    /\ heard \in [AppIds -> Pids \cup {"unheard", "closed"}]
    /\ ~subscribed => heard = NothingHeard

Bus ==
    /\ up \in BOOLEAN
    /\ subscribed \in BOOLEAN
    /\ ListenerTyped
    /\ reply \in Replies

\* The invariant falls apart into the heap and the variables seen on the bus.
LEMMA Parts == IInv <=> HeapInv /\ Bus
  BY DEF IInv, TypeOK, HeapInv, HeapTyped, Bus, ListenerTyped

LEMMA EmptyHeap ==
    ASSUME mApplications = [a \in AppIds |-> Null],
           app = [o \in Objects |-> NoApplication],
           win = [w \in Windows |-> NoWindow]
    PROVE  HeapInv
<1>1. NoApplication \in Application /\ NoWindow \in Window
  BY DEF NoApplication, Application, NoWindow, Window
<1>2. /\ \A o \in Objects : app[o].id = Null /\ app[o].windows = {}
      /\ \A w \in Windows : win[w].state = "free" /\ win[w].application = Null
      /\ \A a \in AppIds : mApplications[a] = Null
  BY DEF NoApplication, NoWindow
<1>3. HeapTyped
  BY <1>1 DEF HeapTyped
<1>4. WindowsOwned
  BY <1>2 DEF WindowsOwned, Live
<1>5. PointersSound
  BY <1>2, NullAssumption DEF PointersSound
<1> QED
  BY <1>2, <1>3, <1>4, <1>5
     DEF HeapInv, LiveHasPid, RegistryExact, MainHearsRelaunch, Live, isAppRunning

LEMMA InitIInv == Init => IInv
<1> SUFFICES ASSUME Init PROVE IInv
  OBVIOUS
<1>1. HeapInv
  BY EmptyHeap DEF Init
<1>2. Bus
  BY DEF Init, Bus, ListenerTyped, NothingHeard, NothingHeard, NoReply, Replies, Methods
<1> QED
  BY <1>1, <1>2, Parts

LEMMA CrashKeeps ==
    ASSUME Crash PROVE IInv'
<1>1. HeapInv'
  <2>1. /\ mApplications' = [a \in AppIds |-> Null]
        /\ app' = [o \in Objects |-> NoApplication]
        /\ win' = [w \in Windows |-> NoWindow]
    BY DEF Crash
  <2>2. NoApplication \in Application /\ NoWindow \in Window
    BY DEF NoApplication, Application, NoWindow, Window
  <2>3. /\ \A o \in Objects : app'[o].id = Null /\ app'[o].windows = {}
        /\ \A w \in Windows : win'[w].state = "free" /\ win'[w].application = Null
        /\ \A a \in AppIds : mApplications'[a] = Null
    BY <2>1 DEF NoApplication, NoWindow
  <2>4. HeapTyped'
    BY <2>1, <2>2 DEF HeapTyped
  <2>5. WindowsOwned'
    BY <2>3 DEF WindowsOwned, Live
  <2>6. PointersSound'
    BY <2>3, NullAssumption DEF PointersSound
  <2> QED
    BY <2>3, <2>4, <2>5, <2>6
       DEF HeapInv, LiveHasPid, RegistryExact, MainHearsRelaunch, Live, isAppRunning
<1>2. Bus'
  BY DEF Crash, Bus, ListenerTyped, NothingHeard, NothingHeard, NoReply, Replies, Methods
<1> QED
  BY <1>1, <1>2, Parts, PTL

\* Events posted to the listener stay well typed, and nobody else hears them.
LEMMA PostTyped ==
    ASSUME Bus, UNCHANGED subscribed,
           NEW a \in AppIds, NEW e \in Pids \cup {"unheard", "closed"}, Post(a, e)
    PROVE  ListenerTyped'
  BY DEF Bus, ListenerTyped, Post, NothingHeard

\* A listed application is live and carries a process id.
LEMMA RunningIsLive ==
    ASSUME HeapInv, NEW a \in AppIds, isAppRunning(a)
    PROVE  /\ mApplications[a] \in Objects
           /\ Live(mApplications[a])
           /\ app[mApplications[a]].id = a
           /\ processIdOf(a) \in Pids
  BY NullAssumption
     DEF HeapInv, HeapTyped, RegistryExact, LiveHasPid, Live, isAppRunning, processIdOf

\* closed() with the windows in closing already given up: either way the heap
\* stays sound, because the application is always listed.
LEMMA ClosedKeeps ==
    ASSUME HeapInv, Bus, UNCHANGED subscribed, NEW o \in Objects, Live(o),
           NEW closing \in SUBSET app[o].windows, onApplicationClosed(o, closing)
    PROVE  HeapInv' /\ ListenerTyped'
<1>1. app[o].id \in AppIds /\ isAppRunning(app[o].id)
  BY NullAssumption DEF HeapInv, HeapTyped, Application, RegistryExact, Live, isAppRunning
<1>2. /\ mApplications' = Unlisted(app[o].id)
      /\ Post(app[o].id, "closed")
      /\ Delete(o, closing)
  BY <1>1 DEF onApplicationClosed, notifyAppHasFinished
<1>3. HeapInv'
  BY <1>2, DeleteKeepsHeap
<1>4. ListenerTyped'
  BY <1>1, <1>2, PostTyped
<1> QED
  BY <1>3, <1>4

LEMMA RelaunchKeeps ==
    ASSUME HeapInv, NEW o \in Objects, Live(o), RelaunchApplication(o),
           mApplications' = mApplications
    PROVE  HeapInv'
<1>1. CASE UNCHANGED <<app, win>>
  BY <1>1 DEF HeapInv, HeapTyped, LiveHasPid, RegistryExact, WindowsOwned, PointersSound,
              MainHearsRelaunch, Live, isAppRunning
<1>2. ASSUME NEW w \in FreeWindows,
             app' = [app EXCEPT ![o].main = w, ![o].windows = @ \cup {w}],
             win' = [win EXCEPT ![w] = MainWindow(o, app[o].id, app[o].system)]
      PROVE  HeapInv'
  <2> DEFINE B == [app[o] EXCEPT !.main = w, !.windows = @ \cup {w}]
             W == MainWindow(o, app[o].id, app[o].system)
  <2>1. app[o] \in Application /\ w \in Windows
    BY DEF HeapInv, HeapTyped, FreeWindows
  <2>2. B \in Application
    BY <2>1 DEF Application
  <2>3. /\ B.id = app[o].id /\ B.processId = app[o].processId /\ B.system = app[o].system
        /\ B.windows = app[o].windows \cup {w} /\ B.main = w
    BY <2>1 DEF Application
  <2>4. W \in Window
    BY DEF MainWindow, NewWindow, Extension, Window
  <2>5. W.state = "open" /\ W.application = o /\ (app[o].system => W.palmSystem = "relaunch")
    BY DEF MainWindow, NewWindow, Extension
  <2>6. app' = [app EXCEPT ![o] = B] /\ win' = [win EXCEPT ![w] = W]
    BY <1>2 DEF HeapInv, HeapTyped
  <2> HIDE DEF B, W
  <2> QED
    BY <2>2, <2>3, <2>4, <2>5, <2>6, AddWindowKeepsHeap
<1> QED
  BY <1>1, <1>2 DEF RelaunchApplication

LEMMA CreateWindowKeeps ==
    ASSUME HeapInv, NEW o \in Objects, Live(o), NEW w \in FreeWindows,
           NEW system \in BOOLEAN, CreateWindow(o, w, system),
           mApplications' = mApplications
    PROVE  HeapInv'
<1> DEFINE B == [app[o] EXCEPT !.windows = @ \cup {w}]
           W == ChildWindow(o, system)
<1>1. app[o] \in Application /\ w \in Windows
  BY DEF HeapInv, HeapTyped, FreeWindows
<1>2. B \in Application
  BY <1>1 DEF Application
<1>3. /\ B.id = app[o].id /\ B.processId = app[o].processId /\ B.system = app[o].system
      /\ B.windows = app[o].windows \cup {w} /\ B.main = app[o].main
  BY <1>1 DEF Application
<1>4. W \in Window
  BY DEF ChildWindow, NewWindow, Extension, Window
<1>5. W.state = "open" /\ W.application = o
  BY DEF ChildWindow, NewWindow
<1>6. app' = [app EXCEPT ![o] = B] /\ win' = [win EXCEPT ![w] = W]
  BY DEF HeapInv, HeapTyped, CreateWindow
<1> HIDE DEF B, W
<1> QED
  BY <1>2, <1>3, <1>4, <1>5, <1>6, AddWindowKeepsHeap

\* Fields of windows that the invariant does not constrain may change, and a
\* window in no list may be deleted.
LEMMA WindowFieldsKeep ==
    ASSUME HeapInv, UNCHANGED <<mApplications, app>>,
           win' \in [Windows -> Window],
           \A w \in Windows :
             \/ /\ win'[w].state = win[w].state
                /\ win'[w].application = win[w].application
                /\ win'[w].palmSystem = win[w].palmSystem
             \/ win[w].state = "doomed" /\ win'[w] = NoWindow
    PROVE  HeapInv'
<1>1. HeapTyped' /\ LiveHasPid' /\ RegistryExact'
  BY DEF HeapInv, HeapTyped, LiveHasPid, RegistryExact, Live, isAppRunning
<1>2. \A o \in Objects : \A w \in app[o].windows :
        /\ w \in Windows /\ win[w].state = "open"
        /\ win'[w].application = win[w].application
        /\ win'[w].palmSystem = win[w].palmSystem
  BY DEF HeapInv, HeapTyped, Application, WindowsOwned
<1>3. WindowsOwned'
  <2>1. \A w \in Windows : win'[w].state = "open" <=> win[w].state = "open"
    BY DEF NoWindow
  <2> QED
    BY <1>2, <2>1 DEF HeapInv, WindowsOwned, Live
<1>4. PointersSound'
  BY NullAssumption DEF HeapInv, PointersSound, NoWindow, Live
<1>5. MainHearsRelaunch'
  BY <1>2 DEF HeapInv, WindowsOwned, MainHearsRelaunch, Live
<1> QED
  BY <1>1, <1>3, <1>4, <1>5 DEF HeapInv

\* A step that leaves the heap and the listener's table alone.
LEMMA HeapUnchanged ==
    ASSUME HeapInv, UNCHANGED <<mApplications, app, win>>
    PROVE  HeapInv'
  BY DEF HeapInv, HeapTyped, LiveHasPid, RegistryExact, WindowsOwned, PointersSound,
         MainHearsRelaunch, Live, isAppRunning

LEMMA LaunchKeeps ==
    ASSUME IInv, NEW method \in Methods, NEW r \in Requests, NEW atBoot \in BOOLEAN,
           UNCHANGED up,
           LaunchRefused(method, r) \/ LaunchRunning(method, r) \/ LaunchNew(method, r, atBoot)
    PROVE  IInv'
<1>0. HeapInv /\ Bus
  BY Parts
<1>1. CASE LaunchRefused(method, r)
  <2>1. HeapInv'
    BY <1>0, <1>1, HeapUnchanged DEF LaunchRefused
  <2>2. Bus'
    BY <1>0, <1>1 DEF LaunchRefused, Bus, ListenerTyped, NothingHeard, Failed, Answer, Replies, Methods
  <2> QED
    BY <2>1, <2>2, Parts, PTL
<1>2. CASE LaunchRunning(method, r)
  <2>1. r.appId \in AppIds /\ isAppRunning(r.appId)
    BY <1>2 DEF LaunchRunning, Accepted, validateApplication, Requests
  <2>2. /\ mApplications[r.appId] \in Objects /\ Live(mApplications[r.appId])
        /\ processIdOf(r.appId) \in Pids
    BY <1>0, <2>1, RunningIsLive
  <2>3. HeapInv'
    BY <1>0, <1>2, <2>2, RelaunchKeeps DEF LaunchRunning
  <2>4. Bus'
    BY <1>0, <1>2, <2>1, <2>2 DEF LaunchRunning, Bus, ListenerTyped, NothingHeard, Answer, Replies, Methods
  <2> QED
    BY <2>3, <2>4, Parts, PTL
<1>3. CASE LaunchNew(method, r, atBoot)
  <2>1. r.appId \in AppIds /\ r.processId \in Pids /\ r.system \in BOOLEAN /\ ~isAppRunning(r.appId)
    BY <1>3 DEF LaunchNew, Accepted, validateApplication, Requests
  <2>2. PICK o \in Objects, w \in FreeWindows :
          /\ ~Live(o)
          /\ Construct(o, w, r.appId, r.processId, r.system, atBoot)
          /\ mApplications' = [mApplications EXCEPT ![r.appId] = o]
    BY <1>3 DEF LaunchNew
  <2>3. HeapInv'
    BY <1>0, <2>1, <2>2, ConstructKeepsHeap
  <2>4. Post(r.appId, r.processId) /\ reply' = Answer(method, r.processId, {r.appId}) /\ UNCHANGED subscribed
    BY <1>3 DEF LaunchNew, notifyAppHasStarted
  <2>5. ListenerTyped'
    BY <1>0, <2>1, <2>4, PostTyped
  <2>6. Bus'
    BY <1>0, <2>1, <2>4, <2>5 DEF Bus, ListenerTyped, NothingHeard, Answer, Replies, Methods
  <2> QED
    BY <2>3, <2>6, Parts, PTL
<1> QED
  BY <1>1, <1>2, <1>3

LEMMA RelaunchRequestKeeps ==
    ASSUME IInv, NEW a \in AppIds, Relaunch(a)
    PROVE  IInv'
<1>0. HeapInv /\ Bus
  BY Parts
<1>1. HeapInv'
  <2>1. CASE isAppRunning(a)
    BY <1>0, <2>1, RunningIsLive, RelaunchKeeps DEF Relaunch
  <2>2. CASE ~isAppRunning(a)
    BY <1>0, <2>2, HeapUnchanged DEF Relaunch
  <2> QED
    BY <2>1, <2>2
<1>2. Bus'
  BY <1>0 DEF Relaunch, Bus, ListenerTyped, NothingHeard, Answer, Failed, Replies, Methods
<1> QED
  BY <1>1, <1>2, Parts, PTL

LEMMA KillKeeps ==
    ASSUME IInv, NEW t \in Targets, KillApp(t)
    PROVE  IInv'
<1>0. HeapInv /\ Bus
  BY Parts
<1>1. ASSUME NEW a \in AppIds, isAppRunning(a), Kill(a)
      PROVE  IInv'
  <2>1. mApplications[a] \in Objects /\ Live(mApplications[a])
    BY <1>0, <1>1, RunningIsLive
  <2>2. HeapInv' /\ ListenerTyped'
    BY <1>0, <1>1, <2>1, ClosedKeeps DEF Kill, KillApp
  <2>3. Bus'
    BY <1>0, <1>1, <2>2 DEF Kill, KillApp, Bus, ListenerTyped, NothingHeard, Answer, Replies, Methods
  <2> QED
    BY <2>2, <2>3, Parts, PTL
<1>2. ASSUME NEW result \in {"ok", "error"}, KillNothing(result)
      PROVE  IInv'
  <2>1. HeapInv'
    BY <1>0, <1>2, HeapUnchanged DEF KillNothing
  <2>2. Bus'
    BY <1>0, <1>2 DEF KillNothing, KillApp, Bus, ListenerTyped, NothingHeard, Answer, Replies, Methods
  <2> QED
    BY <2>1, <2>2, Parts, PTL
<1>3. CASE t.processId # Null /\ killAppByPid(t.processId)
  BY <1>1, <1>2, <1>3 DEF killAppByPid, FirstWithPid
<1>4. CASE t.processId = Null /\ t.appId # Null /\ killAppById(t.appId)
  BY <1>1, <1>2, <1>4 DEF killAppById, Targets
<1>5. CASE t.processId = Null /\ t.appId = Null /\ KillNothing("error")
  BY <1>2, <1>5
<1> QED
  BY <1>3, <1>4, <1>5 DEF KillApp

LEMMA ClearKeeps ==
    ASSUME IInv, NEW t \in Targets, ClearMemoryCaches(t)
    PROVE  IInv'
<1>0. HeapInv /\ Bus
  BY Parts
<1>1. CASE Crash
  BY <1>1, CrashKeeps
<1>2. CASE /\ reply' = Answer("clearMemoryCaches", "ok", Cleared(t))
           /\ UNCHANGED <<up, mApplications, app, win, subscribed, heard>>
  <2>1. HeapInv'
    BY <1>0, <1>2, HeapUnchanged
  <2>2. Cleared(t) \subseteq AppIds
    BY DEF Cleared
  <2>3. Bus'
    BY <1>0, <1>2, <2>2 DEF Bus, ListenerTyped, NothingHeard, Answer, Replies, Methods
  <2> QED
    BY <2>1, <2>3, Parts, PTL
<1> QED
  BY <1>1, <1>2 DEF ClearMemoryCaches

LEMMA RegisterKeeps ==
    ASSUME IInv, NEW b \in BOOLEAN, RegisterForAppEvents(b)
    PROVE  IInv'
<1>0. HeapInv /\ Bus
  BY Parts
<1>1. HeapInv'
  BY <1>0, HeapUnchanged DEF RegisterForAppEvents
<1>2. reply' \in Replies
  BY DEF RegisterForAppEvents, Answer, Failed, Replies, Methods
<1>3. subscribed' \in BOOLEAN /\ up' \in BOOLEAN
  BY <1>0 DEF RegisterForAppEvents, Bus
<1>4. ListenerTyped'
  <2>1. CASE UNCHANGED <<subscribed, heard>>
    BY <1>0, <2>1 DEF Bus, ListenerTyped, NothingHeard
  <2>2. CASE subscribed' = TRUE /\ heard' = NothingHeard
    BY <2>2 DEF ListenerTyped, NothingHeard
  <2> QED
    BY <2>1, <2>2 DEF RegisterForAppEvents
<1>5. Bus'
  BY <1>2, <1>3, <1>4 DEF Bus
<1> QED
  BY <1>1, <1>5, Parts, PTL

LEMMA CreateNewPageKeeps ==
    ASSUME IInv, NEW w \in Windows, NEW b \in BOOLEAN, onCreateNewPage(w, b)
    PROVE  IInv'
<1>0. HeapInv /\ Bus
  BY Parts
<1>1. win[w].application \in Objects /\ Live(win[w].application)
  BY <1>0 DEF onCreateNewPage, HeapInv, PointersSound
<1>2. HeapInv'
  BY <1>0, <1>1, CreateWindowKeeps DEF onCreateNewPage
<1>3. Bus'
  BY <1>0 DEF onCreateNewPage, Bus, ListenerTyped, NothingHeard, NoReply, Replies, Methods
<1> QED
  BY <1>2, <1>3, Parts, PTL

LEMMA ClosePageKeeps ==
    ASSUME IInv, NEW w \in Windows, onClosePage(w)
    PROVE  IInv'
<1> DEFINE o == win[w].application
<1>0. HeapInv /\ Bus
  BY Parts
<1>1. o \in Objects /\ Live(o)
  BY <1>0 DEF onClosePage, HeapInv, PointersSound
<1> HIDE DEF o
<1>2. ASSUME Closable(o, w)
      PROVE  Closed(o, w) \in SUBSET app[o].windows
  BY <1>2 DEF Closable, Closed, LeftAlone
<1>3. closeWindow(o, w) /\ reply' = NoReply /\ UNCHANGED <<up, subscribed>>
  BY DEF onClosePage, o
<1>4. HeapInv' /\ ListenerTyped'
  <2>1. CASE UNCHANGED <<mApplications, app, win, heard>>
    BY <1>0, <1>3, <2>1, HeapUnchanged DEF Bus, ListenerTyped, NothingHeard
  <2>2. CASE /\ Closable(o, w) /\ ~LastWindow(o, w)
             /\ LoseWindows(o, Closed(o, w))
             /\ UNCHANGED <<mApplications, heard>>
    BY <1>0, <1>1, <1>2, <1>3, <2>2, LoseWindowsKeepsHeap
       DEF LastWindow, Bus, ListenerTyped, NothingHeard
  <2>3. CASE Closable(o, w) /\ onApplicationClosed(o, Closed(o, w))
    BY <1>0, <1>1, <1>2, <1>3, <2>3, ClosedKeeps
  <2> QED
    BY <1>3, <2>1, <2>2, <2>3 DEF closeWindow
<1>5. Bus'
  BY <1>0, <1>3, <1>4 DEF Bus, ListenerTyped, NothingHeard, NoReply, Replies, Methods
<1> QED
  BY <1>4, <1>5, Parts, PTL

LEMMA SetKeepAliveKeeps ==
    ASSUME IInv, NEW w \in Windows, NEW b \in BOOLEAN, SetKeepAlive(w, b)
    PROVE  IInv'
<1>0. HeapInv /\ Bus
  BY Parts
<1>1. win' = [win EXCEPT ![w].keepAlive = b] /\ UNCHANGED <<mApplications, app>>
  BY DEF SetKeepAlive
<1>2. win \in [Windows -> Window]
  BY <1>0 DEF HeapInv, HeapTyped
<1>3. \A v \in Windows :
        /\ win'[v] \in Window
        /\ win'[v].state = win[v].state
        /\ win'[v].application = win[v].application
        /\ win'[v].palmSystem = win[v].palmSystem
  BY <1>1, <1>2 DEF Window
<1>4. win' \in [Windows -> Window]
  BY <1>1, <1>2, <1>3
<1>5. HeapInv'
  BY <1>0, <1>1, <1>3, <1>4, WindowFieldsKeep
<1>6. Bus'
  BY <1>0 DEF SetKeepAlive, Bus, ListenerTyped, NothingHeard, NoReply, Replies, Methods
<1> QED
  BY <1>5, <1>6, Parts, PTL

LEMMA DeferredDeleteKeeps ==
    ASSUME IInv, NEW w \in Windows, DeferredDelete(w)
    PROVE  IInv'
<1>0. HeapInv /\ Bus
  BY Parts
<1>1. win' = [win EXCEPT ![w] = NoWindow] /\ UNCHANGED <<mApplications, app>>
  BY DEF DeferredDelete
<1>2. NoWindow \in Window /\ win \in [Windows -> Window]
  BY <1>0 DEF NoWindow, Window, HeapInv, HeapTyped
<1>3. win' \in [Windows -> Window]
  BY <1>1, <1>2
<1>4. \A v \in Windows :
        \/ win'[v] = win[v]
        \/ win[v].state = "doomed" /\ win'[v] = NoWindow
  BY <1>1, <1>2 DEF DeferredDelete
<1>5. HeapInv'
  BY <1>0, <1>1, <1>3, <1>4, WindowFieldsKeep
<1>6. Bus'
  BY <1>0 DEF DeferredDelete, Bus, ListenerTyped, NothingHeard, NoReply, Replies, Methods
<1> QED
  BY <1>5, <1>6, Parts, PTL

LEMMA StaleEventKeeps ==
    ASSUME IInv, NEW w \in Windows, StaleEvent(w)
    PROVE  IInv'
<1>0. HeapInv /\ Bus
  BY Parts
<1>1. CASE Crash
  BY <1>1, CrashKeeps
<1>2. CASE reply' = NoReply /\ UNCHANGED <<up, mApplications, app, win, subscribed, heard>>
  <2>1. HeapInv'
    BY <1>0, <1>2, HeapUnchanged
  <2>2. Bus'
    BY <1>0, <1>2 DEF Bus, ListenerTyped, NothingHeard, NoReply, Replies, Methods
  <2> QED
    BY <2>1, <2>2, Parts, PTL
<1> QED
  BY <1>1, <1>2 DEF StaleEvent

LEMMA RestartKeeps ==
    ASSUME IInv, Restart
    PROVE  IInv'
<1>0. HeapInv /\ Bus
  BY Parts
<1>1. HeapInv'
  BY <1>0, HeapUnchanged DEF Restart
<1>2. Bus'
  BY <1>0 DEF Restart, Bus, ListenerTyped, NothingHeard
<1> QED
  BY <1>1, <1>2, Parts, PTL

LEMMA StutterKeeps ==
    ASSUME IInv, UNCHANGED vars
    PROVE  IInv'
<1>0. HeapInv /\ Bus
  BY Parts
<1>1. HeapInv'
  BY <1>0, HeapUnchanged DEF vars
<1>2. Bus'
  BY <1>0 DEF vars, Bus, ListenerTyped, NothingHeard
<1> QED
  BY <1>1, <1>2, Parts, PTL

LEMMA NextIInv == IInv /\ [Next]_vars => IInv'
<1> SUFFICES ASSUME IInv, [Next]_vars PROVE IInv'
  OBVIOUS
<1>1. ASSUME NEW r \in Requests, LaunchApp(r) PROVE IInv'
  <2>1. UNCHANGED up /\ (r.boot # "absent") \in BOOLEAN /\ "launchApp" \in Methods
    BY <1>1 DEF LaunchApp, LaunchRefused, LaunchRunning, LaunchNew, Methods
  <2> QED
    BY <1>1, <2>1, LaunchKeeps DEF LaunchApp
<1>2. ASSUME NEW r \in Requests, LaunchUrl(r) PROVE IInv'
  <2>1. UNCHANGED up /\ (r.boot = "object") \in BOOLEAN /\ "launchUrl" \in Methods
    BY <1>2 DEF LaunchUrl, LaunchRefused, LaunchRunning, LaunchNew, Methods
  <2> QED
    BY <1>2, <2>1, LaunchKeeps DEF LaunchUrl
<1>3. ASSUME NEW w \in Windows, CloseEvent(w) PROVE IInv'
  BY <1>3, ClosePageKeeps DEF CloseEvent
<1> QED
  BY <1>1, <1>2, <1>3, RelaunchRequestKeeps, KillKeeps, ClearKeeps, RegisterKeeps,
     CreateNewPageKeeps, ClosePageKeeps, SetKeepAliveKeeps, DeferredDeleteKeeps,
     StaleEventKeeps, RestartKeeps, StutterKeeps
     DEF Next

-----------------------------------------------------------------------------
(* Results                                                                 *)

(* Every reachable state satisfies the inductive invariant.                 *)
THEOREM Invariance == Spec => []IInv
  BY InitIInv, NextIInv, PTL DEF Spec

(* Type correctness of the daemon's state.                                  *)
THEOREM TypeCorrect == Spec => []TypeOK
<1>1. IInv => TypeOK
  BY DEF IInv
<1> QED
  BY <1>1, Invariance, PTL

(* The table of running applications and the heap always agree, however     *)
(* many applications, windows and deferred deletions there are.             *)
THEOREM RegistryAlwaysExact == Spec => []RegistryExact
<1>1. IInv => RegistryExact
  BY DEF IInv
<1> QED
  BY <1>1, Invariance, PTL

(* Open windows belong to exactly one application, and no application is    *)
(* left without windows or with a main window it does not list.             *)
THEOREM WindowsAlwaysOwned == Spec => []WindowsOwned
<1>1. IInv => WindowsOwned
  BY DEF IInv
<1> QED
  BY <1>1, Invariance, PTL

(* No open window ever points to a deleted application.                     *)
THEOREM PointersAlwaysSound == Spec => []PointersSound
<1>1. IInv => PointersSound
  BY DEF IInv
<1> QED
  BY <1>1, Invariance, PTL

(* The main window of a local application always listens to relaunches.     *)
THEOREM MainAlwaysHears == Spec => []MainHearsRelaunch
<1>1. IInv => MainHearsRelaunch
  BY DEF IInv
<1> QED
  BY <1>1, Invariance, PTL

-----------------------------------------------------------------------------
(* The daemon implements RunningApps.  A step either leaves what is listed *)
(* alone, or starts one application, or finishes one, or is a subscription *)
(* or a crash.                                                             *)

AllListed == [a \in AppIds |-> Listed(a)]

LEMMA ListedUnchanged ==
    ASSUME HeapInv, UNCHANGED mApplications,
           \A o \in Objects : app'[o].processId = app[o].processId
    PROVE  AllListed' = AllListed
<1>1. \A a \in AppIds : isAppRunning(a) => mApplications[a] \in Objects
  BY RunningIsLive
<1>2. \A a \in AppIds : Listed(a)' = Listed(a)
  BY <1>1 DEF Listed, isAppRunning, processIdOf
<1> QED
  BY <1>2 DEF AllListed

LEMMA RelaunchLists ==
    ASSUME HeapInv, NEW o \in Objects, RelaunchApplication(o), UNCHANGED mApplications
    PROVE  AllListed' = AllListed
<1>1. CASE UNCHANGED app
  BY <1>1, ListedUnchanged
<1>2. ASSUME NEW w, app' = [app EXCEPT ![o].main = w, ![o].windows = @ \cup {w}]
      PROVE  AllListed' = AllListed
  <2>1. \A x \in Objects : app'[x].processId = app[x].processId
    BY <1>2 DEF HeapInv, HeapTyped, Application
  <2> QED
    BY <2>1, ListedUnchanged
<1> QED
  BY <1>1, <1>2 DEF RelaunchApplication

LEMMA LaunchNewStarts ==
    ASSUME HeapInv, NEW method \in Methods, NEW r \in Requests, NEW atBoot \in BOOLEAN,
           LaunchNew(method, r, atBoot)
    PROVE  Promise!Start(r.appId, r.processId) /\ r.appId \in AppIds /\ r.processId \in Pids
<1>1. r.appId \in AppIds /\ r.processId \in Pids /\ ~isAppRunning(r.appId)
  BY DEF LaunchNew, Accepted, validateApplication, Requests
<1>2. PICK o \in Objects, w \in FreeWindows :
        /\ ~Live(o)
        /\ Construct(o, w, r.appId, r.processId, r.system, atBoot)
        /\ mApplications' = [mApplications EXCEPT ![r.appId] = o]
  BY DEF LaunchNew
<1>3. /\ mApplications'[r.appId] = o /\ o # Null
      /\ app'[o].processId = r.processId
      /\ \A a \in AppIds \ {r.appId} : mApplications'[a] = mApplications[a]
      /\ \A x \in Objects \ {o} : app'[x] = app[x]
  BY <1>1, <1>2, NullAssumption DEF Construct, NewApplication, HeapInv, HeapTyped
<1>4. \A a \in AppIds \ {r.appId} : isAppRunning(a) =>
        mApplications[a] \in Objects /\ mApplications[a] # o
  BY <1>2, RunningIsLive
<1>5. \A a \in AppIds : Listed(a)' = IF a = r.appId THEN r.processId ELSE Listed(a)
  BY <1>3, <1>4 DEF Listed, isAppRunning, processIdOf
<1>6. AllListed' = [AllListed EXCEPT ![r.appId] = r.processId]
  BY <1>5 DEF AllListed
<1>7. AllListed[r.appId] = "notRunning"
  BY <1>1 DEF AllListed, Listed
<1>8. heard' = (IF subscribed THEN [heard EXCEPT ![r.appId] = r.processId] ELSE heard)
      /\ UNCHANGED subscribed
  BY DEF LaunchNew, notifyAppHasStarted, Post
<1> QED
  BY <1>1, <1>6, <1>7, <1>8 DEF Promise!Start, Promise!Told, AllListed

LEMMA ClosedFinishes ==
    ASSUME HeapInv, NEW o \in Objects, Live(o), NEW closing,
           onApplicationClosed(o, closing), UNCHANGED subscribed
    PROVE  Promise!Finish(app[o].id) /\ app[o].id \in AppIds
<1> DEFINE b == app[o].id
<1>1. b \in AppIds /\ isAppRunning(b) /\ mApplications[b] = o
  BY NullAssumption DEF HeapInv, HeapTyped, Application, RegistryExact, Live, isAppRunning
<1>2. /\ mApplications' = [mApplications EXCEPT ![b] = Null]
      /\ heard' = (IF subscribed THEN [heard EXCEPT ![b] = "closed"] ELSE heard)
      /\ \A x \in Objects \ {o} : app'[x] = app[x]
  BY <1>1 DEF onApplicationClosed, notifyAppHasFinished, Post, Unlisted, Delete, HeapInv, HeapTyped
<1> HIDE DEF b
<1>3. \A a \in AppIds \ {b} : isAppRunning(a) => mApplications[a] \in Objects \ {o}
  <2> SUFFICES ASSUME NEW a \in AppIds \ {b}, isAppRunning(a)
               PROVE  mApplications[a] \in Objects /\ mApplications[a] # o
    OBVIOUS
  <2>1. mApplications[a] \in Objects /\ app[mApplications[a]].id = a
    BY RunningIsLive
  <2> QED
    BY <2>1 DEF b
<1>4. \A a \in AppIds : Listed(a)' = IF a = b THEN "notRunning" ELSE Listed(a)
  <2>1. \A a \in AppIds : mApplications'[a] = IF a = b THEN Null ELSE mApplications[a]
    BY <1>2 DEF HeapInv, HeapTyped
  <2> QED
    BY <1>2, <1>3, <2>1 DEF Listed, isAppRunning, processIdOf
<1>5. AllListed' = [AllListed EXCEPT ![b] = "notRunning"]
  BY <1>4 DEF AllListed
<1>6. AllListed[b] # "notRunning"
  BY <1>1, RunningIsLive, PidsAssumption DEF AllListed, Listed
<1>7. Promise!Finish(b)
  BY <1>1, <1>2, <1>5, <1>6 DEF Promise!Finish, Promise!Told, AllListed
<1> QED
  BY <1>1, <1>7 DEF b

LEMMA CrashLosesAll == Crash => Promise!LoseAll
<1> SUFFICES ASSUME Crash PROVE Promise!LoseAll
  OBVIOUS
<1>1. \A a \in AppIds : Listed(a)' = "notRunning"
  BY DEF Crash, Listed, isAppRunning
<1>2. AllListed' = [a \in AppIds |-> "notRunning"]
  BY <1>1 DEF AllListed
<1> QED
  BY <1>2 DEF Crash, Promise!LoseAll, Promise!NothingHeard, NothingHeard, AllListed

Mapped == [Promise!AbstractNext]_(Promise!avars)

LEMMA SilentMaps ==
    ASSUME AllListed' = AllListed, UNCHANGED <<subscribed, heard>>
    PROVE  Mapped
  BY DEF Mapped, AllListed, Promise!avars

LEMMA LaunchMaps ==
    ASSUME HeapInv, NEW method \in Methods, NEW r \in Requests, NEW atBoot \in BOOLEAN,
           LaunchRefused(method, r) \/ LaunchRunning(method, r) \/ LaunchNew(method, r, atBoot)
    PROVE  Mapped
<1>1. CASE LaunchRefused(method, r)
  BY <1>1, ListedUnchanged, SilentMaps DEF LaunchRefused
<1>2. CASE LaunchRunning(method, r)
  <2>1. mApplications[r.appId] \in Objects
    BY <1>2, RunningIsLive DEF LaunchRunning, Accepted, validateApplication, Requests
  <2> QED
    BY <1>2, <2>1, RelaunchLists, SilentMaps DEF LaunchRunning
<1>3. CASE LaunchNew(method, r, atBoot)
  BY <1>3, LaunchNewStarts DEF Mapped, Promise!AbstractNext
<1> QED
  BY <1>1, <1>2, <1>3

LEMMA KillMaps ==
    ASSUME HeapInv, NEW t \in Targets, KillApp(t)
    PROVE  Mapped
<1>1. ASSUME NEW a \in AppIds, isAppRunning(a), Kill(a)
      PROVE  Mapped
  <2>1. mApplications[a] \in Objects /\ Live(mApplications[a])
    BY <1>1, RunningIsLive
  <2>2. UNCHANGED subscribed
    BY DEF KillApp
  <2> QED
    BY <1>1, <2>1, <2>2, ClosedFinishes DEF Kill, Mapped, Promise!AbstractNext
<1>2. ASSUME NEW result, KillNothing(result)
      PROVE  Mapped
  BY <1>2, ListedUnchanged, SilentMaps DEF KillNothing, KillApp
<1> QED
  BY <1>1, <1>2 DEF KillApp, killAppByPid, killAppById, FirstWithPid, Targets

LEMMA ClosePageMaps ==
    ASSUME HeapInv, NEW w \in Windows, onClosePage(w)
    PROVE  Mapped
<1> DEFINE o == win[w].application
<1>1. o \in Objects /\ Live(o) /\ UNCHANGED subscribed /\ closeWindow(o, w)
  BY DEF onClosePage, HeapInv, PointersSound
<1> HIDE DEF o
<1>2. CASE UNCHANGED <<mApplications, app, win, heard>>
  BY <1>1, <1>2, ListedUnchanged, SilentMaps
<1>3. CASE LoseWindows(o, Closed(o, w)) /\ UNCHANGED <<mApplications, heard>>
  <2>1. \A x \in Objects : app'[x].processId = app[x].processId
    BY <1>1, <1>3 DEF LoseWindows, HeapInv, HeapTyped, Application
  <2> QED
    BY <1>1, <1>3, <2>1, ListedUnchanged, SilentMaps
<1>4. CASE onApplicationClosed(o, Closed(o, w))
  BY <1>1, <1>4, ClosedFinishes DEF Mapped, Promise!AbstractNext
<1> QED
  BY <1>1, <1>2, <1>3, <1>4 DEF closeWindow

LEMMA StepMaps == IInv /\ [Next]_vars => Mapped
<1> SUFFICES ASSUME IInv, [Next]_vars PROVE Mapped
  OBVIOUS
<1>0. HeapInv
  BY Parts
<1>1. ASSUME NEW r \in Requests, LaunchApp(r) \/ LaunchUrl(r) PROVE Mapped
  <2>1. /\ (r.boot # "absent") \in BOOLEAN /\ (r.boot = "object") \in BOOLEAN
        /\ "launchApp" \in Methods /\ "launchUrl" \in Methods
    BY DEF Methods
  <2> QED
    BY <1>0, <1>1, <2>1, LaunchMaps DEF LaunchApp, LaunchUrl
<1>2. ASSUME NEW a \in AppIds, Relaunch(a) PROVE Mapped
  <2>1. CASE isAppRunning(a)
    BY <1>0, <1>2, <2>1, RunningIsLive, RelaunchLists, SilentMaps DEF Relaunch
  <2>2. CASE ~isAppRunning(a)
    BY <1>0, <1>2, <2>2, ListedUnchanged, SilentMaps DEF Relaunch
  <2> QED
    BY <2>1, <2>2
<1>3. ASSUME Crash PROVE Mapped
  BY <1>3, CrashLosesAll DEF Mapped, Promise!AbstractNext
<1>4. ASSUME UNCHANGED <<mApplications, app, subscribed, heard>> PROVE Mapped
  BY <1>0, <1>4, ListedUnchanged, SilentMaps
<1>5. ASSUME NEW t \in Targets, ClearMemoryCaches(t) PROVE Mapped
  BY <1>3, <1>4, <1>5 DEF ClearMemoryCaches
<1>6. ASSUME NEW b \in BOOLEAN, RegisterForAppEvents(b) PROVE Mapped
  <2>1. AllListed' = AllListed
    BY <1>0, <1>6, ListedUnchanged DEF RegisterForAppEvents
  <2>2. CASE b = FALSE
    <3>1. subscribed \in BOOLEAN
      BY DEF IInv, TypeOK
    <3> QED
      BY <1>6, <2>1, <2>2, <3>1, SilentMaps DEF RegisterForAppEvents
  <2>3. CASE b = TRUE
    BY <1>6, <2>1, <2>3
       DEF RegisterForAppEvents, NothingHeard, Mapped, Promise!AbstractNext,
           Promise!Subscribe, Promise!NothingHeard, AllListed
  <2> QED
    BY <2>2, <2>3
<1>7. ASSUME NEW w \in Windows, NEW b \in BOOLEAN, onCreateNewPage(w, b) PROVE Mapped
  <2>1. \A x \in Objects : app'[x].processId = app[x].processId
    BY <1>0, <1>7 DEF onCreateNewPage, CreateWindow, HeapInv, HeapTyped, Application
  <2> QED
    BY <1>0, <1>7, <2>1, ListedUnchanged, SilentMaps DEF onCreateNewPage
<1>8. ASSUME NEW w \in Windows, NEW b \in BOOLEAN, SetKeepAlive(w, b) PROVE Mapped
  BY <1>4, <1>8 DEF SetKeepAlive
<1>9. ASSUME NEW w \in Windows, DeferredDelete(w) PROVE Mapped
  BY <1>4, <1>9 DEF DeferredDelete
<1>10. ASSUME NEW w \in Windows, StaleEvent(w) PROVE Mapped
  BY <1>3, <1>4, <1>10 DEF StaleEvent
<1>11. ASSUME NEW w \in Windows, onClosePage(w) \/ CloseEvent(w) PROVE Mapped
  BY <1>0, <1>11, ClosePageMaps DEF CloseEvent
<1>12. ASSUME Restart PROVE Mapped
  BY <1>4, <1>12 DEF Restart
<1>13. CASE UNCHANGED vars
  BY <1>4, <1>13 DEF vars
<1> QED
  BY <1>0, <1>1, <1>2, <1>5, <1>6, <1>7, <1>8, <1>9, <1>10, <1>11, <1>12, <1>13, KillMaps
     DEF Next

(* What the daemon lists, and what it tells its listener, only ever changes *)
(* as RunningApps allows: one start or finish at a time, each told, process *)
(* ids stable, unless the daemon dies.                                      *)
THEOREM Refinement == Spec => ImplementsRunningApps
<1>1. Init => Promise!AbstractInit
  BY DEF Init, Promise!AbstractInit, Promise!NothingHeard, NothingHeard, Listed, isAppRunning
<1>2. IInv /\ [Next]_vars => [Promise!AbstractNext]_(Promise!avars)
  BY StepMaps DEF Mapped
<1> QED
  BY <1>1, <1>2, Invariance, PTL DEF Spec, ImplementsRunningApps, Promise!AbstractSpec

-----------------------------------------------------------------------------
(* The listener                                                            *)

\* Every abstract step keeps the listener right: this is where the refinement
\* pays off, the five kinds of step are all there is to look at.
LEMMA MappedKeepsListener ==
    ASSUME IInv, IInv', ListenerSound, Mapped
    PROVE  ListenerSound'
<1>0. /\ heard \in [AppIds -> Pids \cup {"unheard", "closed"}]
      /\ \A a \in AppIds : AllListed[a] = Listed(a) /\ AllListed'[a] = Listed(a)'
  BY DEF IInv, TypeOK, AllListed
<1>1. \A a \in AppIds : isAppRunning(a) <=> Listed(a) # "notRunning"
  BY RunningIsLive, Parts, PidsAssumption DEF Listed
<1>2. \A a \in AppIds : isAppRunning(a)' <=> Listed(a)' # "notRunning"
  <2>1. \A a \in AppIds : isAppRunning(a)' =>
          /\ mApplications'[a] \in Objects
          /\ app'[mApplications'[a]].processId \in Pids
    BY NullAssumption
       DEF IInv, TypeOK, RegistryExact, LiveHasPid, Live, isAppRunning
  <2> QED
    BY <2>1, PidsAssumption DEF Listed, isAppRunning, processIdOf
<1>3. CASE UNCHANGED <<AllListed, subscribed, heard>>
  <2>1. \A a \in AppIds : Listed(a)' = Listed(a)
    BY <1>0, <1>3
  <2> QED
    BY <1>1, <1>2, <1>3, <2>1 DEF ListenerSound
<1>4. ASSUME NEW b \in AppIds, NEW p \in Pids, Promise!Start(b, p)
      PROVE  ListenerSound'
  <2>1. /\ Listed(b) = "notRunning"
        /\ AllListed' = [AllListed EXCEPT ![b] = p]
        /\ heard' = IF subscribed THEN [heard EXCEPT ![b] = p] ELSE heard
    BY <1>4 DEF Promise!Start, Promise!Told, AllListed
  <2>2. \A a \in AppIds : Listed(a)' = IF a = b THEN p ELSE Listed(a)
    BY <1>0, <2>1 DEF AllListed
  <2>3. p # "closed" /\ p # "notRunning"
    BY PidsAssumption
  <2>4. heard[b] \notin Pids
    BY <2>1, PidsAssumption DEF ListenerSound
  <2>5. ~subscribed => heard[b] # "closed"
    <3>1. ~subscribed => heard = NothingHeard
      BY DEF IInv, TypeOK
    <3> QED
      BY <3>1 DEF NothingHeard
  <2> QED
    BY <1>0, <1>1, <1>2, <2>1, <2>2, <2>3, <2>4, <2>5 DEF ListenerSound
<1>5. ASSUME NEW b \in AppIds, Promise!Finish(b)
      PROVE  ListenerSound'
  <2>1. /\ AllListed' = [AllListed EXCEPT ![b] = "notRunning"]
        /\ heard' = IF subscribed THEN [heard EXCEPT ![b] = "closed"] ELSE heard
    BY <1>5 DEF Promise!Finish, Promise!Told, AllListed
  <2>2. \A a \in AppIds : Listed(a)' = IF a = b THEN "notRunning" ELSE Listed(a)
    BY <1>0, <2>1 DEF AllListed
  <2>3. ~subscribed => heard[b] \notin Pids
    <3>1. ~subscribed => heard = NothingHeard
      BY DEF IInv, TypeOK
    <3> QED
      BY <3>1, PidsAssumption DEF NothingHeard
  <2> QED
    BY <1>0, <1>1, <1>2, <2>1, <2>2, <2>3, PidsAssumption DEF ListenerSound
<1>6. CASE Promise!Subscribe \/ Promise!LoseAll
  BY <1>6, PidsAssumption
     DEF Promise!Subscribe, Promise!LoseAll, Promise!NothingHeard, ListenerSound
<1> QED
  BY <1>3, <1>4, <1>5, <1>6 DEF Mapped, Promise!AbstractNext, Promise!avars, AllListed

(* A listener is never told anything about an application that the list of  *)
(* running applications contradicts.                                        *)
THEOREM ListenerAlwaysSound == Spec => []ListenerSound
<1>1. Init => ListenerSound
  BY PidsAssumption DEF Init, ListenerSound, NothingHeard
<1>2. IInv /\ IInv' /\ ListenerSound /\ [Next]_vars => ListenerSound'
  BY StepMaps, MappedKeepsListener
<1> QED
  BY <1>1, <1>2, Invariance, PTL DEF Spec

-----------------------------------------------------------------------------
(* The answers                                                             *)

ReplySound == LaunchReplyTruthful /\ ReachedHaveMainWindow

\* An answer that names no process id and no application promises nothing.
LEMMA EmptyReply ==
    ASSUME reply'.result \notin Pids, reply'.touched = {}
    PROVE  ReplySound'
  BY DEF ReplySound, LaunchReplyTruthful, ReachedHaveMainWindow

LEMMA NoReplySound == reply' = NoReply => ReplySound'
  BY EmptyReply, PidsAssumption DEF NoReply

\* A relaunched application has a main window, the old one or a new one.
LEMMA RelaunchReaches ==
    ASSUME HeapInv, NEW a \in AppIds, isAppRunning(a),
           RelaunchApplication(mApplications[a]), UNCHANGED mApplications
    PROVE  app'[mApplications'[a]].main # Null /\ Listed(a)' = processIdOf(a)
<1>1. mApplications[a] \in Objects
  BY RunningIsLive
<1>2. app'[mApplications[a]].main # Null
  <2>1. CASE app[mApplications[a]].main # Null /\ UNCHANGED app
    BY <2>1
  <2>2. ASSUME NEW w \in FreeWindows,
               app' = [app EXCEPT ![mApplications[a]].main = w,
                                  ![mApplications[a]].windows = @ \cup {w}]
        PROVE  app'[mApplications[a]].main # Null
    <3>1. w # Null
      BY NullAssumption DEF FreeWindows
    <3>2. app \in [Objects -> Application]
      BY DEF HeapInv, HeapTyped
    <3> QED
      BY <1>1, <2>2, <3>1, <3>2 DEF Application
  <2> QED
    BY <2>1, <2>2 DEF RelaunchApplication
<1>3. AllListed'[a] = AllListed[a]
  BY <1>1, RelaunchLists
<1> QED
  BY <1>2, <1>3 DEF AllListed, Listed, isAppRunning

LEMMA LaunchAnswers ==
    ASSUME HeapInv, NEW method \in Methods, NEW r \in Requests, NEW atBoot \in BOOLEAN,
           LaunchRefused(method, r) \/ LaunchRunning(method, r) \/ LaunchNew(method, r, atBoot)
    PROVE  ReplySound'
<1>1. CASE LaunchRefused(method, r)
  BY <1>1, EmptyReply, PidsAssumption DEF LaunchRefused, Failed, Answer
<1>2. CASE LaunchRunning(method, r)
  <2>1. r.appId \in AppIds /\ isAppRunning(r.appId)
    BY <1>2 DEF LaunchRunning, Accepted, validateApplication, Requests
  <2>2. /\ reply'.result = processIdOf(r.appId) /\ reply'.touched = {r.appId}
        /\ RelaunchApplication(mApplications[r.appId]) /\ UNCHANGED mApplications
    BY <1>2 DEF LaunchRunning, Answer
  <2>3. app'[mApplications'[r.appId]].main # Null /\ Listed(r.appId)' = processIdOf(r.appId)
    BY <2>1, <2>2, RelaunchReaches
  <2> QED
    BY <2>1, <2>2, <2>3 DEF ReplySound, LaunchReplyTruthful, ReachedHaveMainWindow
<1>3. CASE LaunchNew(method, r, atBoot)
  <2>1. PICK o \in Objects, w \in FreeWindows :
          /\ Construct(o, w, r.appId, r.processId, r.system, atBoot)
          /\ mApplications' = [mApplications EXCEPT ![r.appId] = o]
    BY <1>3 DEF LaunchNew
  <2>2. r.appId \in AppIds /\ o # Null /\ w # Null
    BY <1>3, NullAssumption
       DEF LaunchNew, Accepted, validateApplication, Requests, FreeWindows
  <2>3. /\ mApplications'[r.appId] = o
        /\ app'[o].main = w /\ app'[o].processId = r.processId
    BY <2>1, <2>2 DEF Construct, NewApplication, HeapInv, HeapTyped
  <2>4. reply'.result = r.processId /\ reply'.touched = {r.appId}
    BY <1>3 DEF LaunchNew, Answer
  <2>5. Listed(r.appId)' = r.processId
    BY <2>2, <2>3 DEF Listed, isAppRunning, processIdOf
  <2> QED
    BY <2>2, <2>3, <2>4, <2>5 DEF ReplySound, LaunchReplyTruthful, ReachedHaveMainWindow
<1> QED
  BY <1>1, <1>2, <1>3

LEMMA RelaunchAnswers ==
    ASSUME HeapInv, NEW a \in AppIds, Relaunch(a)
    PROVE  ReplySound'
<1>1. CASE isAppRunning(a)
  <2>1. reply'.result \notin Pids /\ reply'.touched = {a}
    BY <1>1, PidsAssumption DEF Relaunch, Answer
  <2>2. app'[mApplications'[a]].main # Null
    BY <1>1, RelaunchReaches DEF Relaunch
  <2> QED
    BY <2>1, <2>2 DEF ReplySound, LaunchReplyTruthful, ReachedHaveMainWindow
<1>2. CASE ~isAppRunning(a)
  BY <1>2, EmptyReply, PidsAssumption DEF Relaunch, Failed, Answer
<1> QED
  BY <1>1, <1>2

\* What was killed no longer runs.
LEMMA KillAnswers ==
    ASSUME HeapInv, NEW t \in Targets, KillApp(t)
    PROVE  ReplySound'
<1>1. ASSUME NEW a \in AppIds, isAppRunning(a), Kill(a)
      PROVE  ReplySound'
  <2>1. app[mApplications[a]].id = a
    BY <1>1, RunningIsLive
  <2>2. ~isAppRunning(a)'
    BY <1>1, <2>1
       DEF Kill, onApplicationClosed, Unlisted, isAppRunning, HeapInv, HeapTyped
  <2>3. reply'.result \notin Pids /\ reply'.touched = {a}
    BY <1>1, PidsAssumption DEF Kill, Answer
  <2> QED
    BY <2>2, <2>3 DEF ReplySound, LaunchReplyTruthful, ReachedHaveMainWindow
<1>2. ASSUME NEW result \in {"ok", "error"}, KillNothing(result)
      PROVE  ReplySound'
  BY <1>2, EmptyReply, PidsAssumption DEF KillNothing, Answer
<1> QED
  BY <1>1, <1>2 DEF KillApp, killAppByPid, killAppById, FirstWithPid, Targets

\* The process survives only when every application reached has a main window.
LEMMA ClearAnswers ==
    ASSUME NEW t \in Targets, ClearMemoryCaches(t)
    PROVE  ReplySound'
<1>1. CASE Crash
  BY <1>1, NoReplySound DEF Crash
<1>2. CASE /\ \A a \in Cleared(t) : app[mApplications[a]].main # Null
           /\ reply' = Answer("clearMemoryCaches", "ok", Cleared(t))
           /\ UNCHANGED <<up, mApplications, app, win, subscribed, heard>>
  <2>1. reply'.result \notin Pids /\ reply'.touched = Cleared(t)
    BY <1>2, PidsAssumption DEF Answer
  <2> QED
    BY <1>2, <2>1 DEF ReplySound, LaunchReplyTruthful, ReachedHaveMainWindow
<1> QED
  BY <1>1, <1>2 DEF ClearMemoryCaches

LEMMA RegisterAnswers ==
    ASSUME NEW b \in BOOLEAN, RegisterForAppEvents(b)
    PROVE  ReplySound'
<1>1. reply' = Failed("registerForAppEvents") \/ reply' = Answer("registerForAppEvents", "ok", {})
  BY DEF RegisterForAppEvents
<1> QED
  BY <1>1, EmptyReply, PidsAssumption DEF Failed, Answer

LEMMA StepAnswers == IInv /\ ReplySound /\ [Next]_vars => ReplySound'
<1> SUFFICES ASSUME IInv, ReplySound, [Next]_vars PROVE ReplySound'
  OBVIOUS
<1>0. HeapInv
  BY Parts
<1>1. ASSUME NEW r \in Requests, LaunchApp(r) \/ LaunchUrl(r) PROVE ReplySound'
  <2>1. /\ (r.boot # "absent") \in BOOLEAN /\ (r.boot = "object") \in BOOLEAN
        /\ "launchApp" \in Methods /\ "launchUrl" \in Methods
    BY DEF Methods
  <2> QED
    BY <1>0, <1>1, <2>1, LaunchAnswers DEF LaunchApp, LaunchUrl
<1>2. ASSUME NEW w \in Windows,
             \/ \E b \in BOOLEAN : onCreateNewPage(w, b) \/ SetKeepAlive(w, b)
             \/ onClosePage(w) \/ CloseEvent(w) \/ DeferredDelete(w)
      PROVE  ReplySound'
  BY <1>2, NoReplySound
     DEF onCreateNewPage, SetKeepAlive, CloseEvent, onClosePage, DeferredDelete
<1>3. ASSUME NEW w \in Windows, StaleEvent(w) PROVE ReplySound'
  BY <1>3, NoReplySound DEF StaleEvent, Crash
<1>4. CASE Restart \/ UNCHANGED vars
  BY <1>4 DEF Restart, vars, ReplySound, LaunchReplyTruthful, ReachedHaveMainWindow,
              Listed, isAppRunning, processIdOf
<1> QED
  BY <1>0, <1>1, <1>2, <1>3, <1>4, RelaunchAnswers, KillAnswers, ClearAnswers, RegisterAnswers
     DEF Next

LEMMA AnswersSound == Spec => []ReplySound
<1>1. Init => ReplySound
  BY PidsAssumption DEF Init, NoReply, ReplySound, LaunchReplyTruthful, ReachedHaveMainWindow
<1> QED
  BY <1>1, StepAnswers, Invariance, PTL DEF Spec

(* A launch is always answered with the process id the application is       *)
(* listed under.                                                            *)
THEOREM LaunchAnswersTrue == Spec => []LaunchReplyTruthful
<1>1. ReplySound => LaunchReplyTruthful
  BY DEF ReplySound
<1> QED
  BY <1>1, AnswersSound, PTL

(* An application that a launch, a relaunch or a cache clearing reached has *)
(* a main window.                                                           *)
THEOREM ReachedShowMain == Spec => []ReachedHaveMainWindow
<1>1. ReplySound => ReachedHaveMainWindow
  BY DEF ReplySound
<1> QED
  BY <1>1, AnswersSound, PTL

-----------------------------------------------------------------------------
(* What steps may do to the windows of an application                      *)

\* An application that goes on loses windows only by closing one of them.
WindowsStay(o) ==
    \/ app[o].windows \subseteq app'[o].windows
    \/ \E w \in Windows : /\ Closable(o, w)
                          /\ app'[o].windows = app[o].windows \ Closed(o, w)

\* An application leaves the table by closing its last window, unless it is
\* killed or the daemon dies.
StaysRunning(a) ==
    isAppRunning(a) /\ ~isAppRunning(a)' =>
        \/ ~up' \/ reply'.method = "killApp"
        \/ \E w \in Windows : /\ Closable(mApplications[a], w)
                              /\ LastWindow(mApplications[a], w)

WellClosed == /\ \A o \in Objects : Live(o) /\ Live(o)' => WindowsStay(o)
              /\ \A a \in AppIds : StaysRunning(a)

LEMMA QuietlyClosed ==
    ASSUME UNCHANGED mApplications, \A o \in Objects : app[o].windows \subseteq app'[o].windows
    PROVE  WellClosed
  BY DEF WellClosed, WindowsStay, StaysRunning, isAppRunning

LEMMA RelaunchLoses ==
    ASSUME HeapInv, NEW o \in Objects, RelaunchApplication(o)
    PROVE  \A x \in Objects : app[x].windows \subseteq app'[x].windows
<1>1. CASE UNCHANGED app
  BY <1>1
<1>2. ASSUME NEW w, app' = [app EXCEPT ![o].main = w, ![o].windows = @ \cup {w}]
      PROVE  \A x \in Objects : app[x].windows \subseteq app'[x].windows
  BY <1>2 DEF HeapInv, HeapTyped, Application
<1> QED
  BY <1>1, <1>2 DEF RelaunchApplication

LEMMA LaunchLoses ==
    ASSUME HeapInv, NEW method \in Methods, NEW r \in Requests, NEW atBoot \in BOOLEAN,
           LaunchRefused(method, r) \/ LaunchRunning(method, r) \/ LaunchNew(method, r, atBoot)
    PROVE  WellClosed
<1>1. CASE LaunchRefused(method, r)
  BY <1>1, QuietlyClosed DEF LaunchRefused
<1>2. CASE LaunchRunning(method, r)
  <2>1. mApplications[r.appId] \in Objects
    BY <1>2, RunningIsLive DEF LaunchRunning, Accepted, validateApplication, Requests
  <2> QED
    BY <1>2, <2>1, RelaunchLoses, QuietlyClosed DEF LaunchRunning
<1>3. CASE LaunchNew(method, r, atBoot)
  <2>1. PICK o \in Objects, w \in FreeWindows :
          /\ ~Live(o)
          /\ Construct(o, w, r.appId, r.processId, r.system, atBoot)
          /\ mApplications' = [mApplications EXCEPT ![r.appId] = o]
    BY <1>3 DEF LaunchNew
  <2>2. \A x \in Objects : Live(x) => app'[x] = app[x]
    BY <2>1 DEF Construct, HeapInv, HeapTyped
  <2>3. \A a \in AppIds : isAppRunning(a) => isAppRunning(a)'
    BY <2>1, NullAssumption DEF isAppRunning, HeapInv, HeapTyped
  <2> QED
    BY <2>2, <2>3 DEF WellClosed, WindowsStay, StaysRunning
<1> QED
  BY <1>1, <1>2, <1>3

LEMMA ClosedLoses ==
    ASSUME HeapInv, NEW o \in Objects, Live(o), NEW closing, onApplicationClosed(o, closing)
    PROVE  /\ \A x \in Objects : Live(x) /\ Live(x)' => WindowsStay(x)
           /\ \A a \in AppIds : isAppRunning(a) /\ ~isAppRunning(a)' => mApplications[a] = o
<1> DEFINE b == app[o].id
<1>1. b \in AppIds /\ isAppRunning(b) /\ mApplications[b] = o
  BY NullAssumption DEF HeapInv, HeapTyped, Application, RegistryExact, Live, isAppRunning
<1>2. /\ mApplications' = [mApplications EXCEPT ![b] = Null]
      /\ app' = [app EXCEPT ![o] = NoApplication]
  BY <1>1 DEF onApplicationClosed, Unlisted, Delete
<1> HIDE DEF b
<1>3. /\ ~Live(o)'
      /\ \A x \in Objects \ {o} : app'[x] = app[x]
  BY <1>2 DEF Live, NoApplication, HeapInv, HeapTyped
<1>4. \A a \in AppIds \ {b} : mApplications'[a] = mApplications[a]
  BY <1>2 DEF HeapInv, HeapTyped
<1> QED
  BY <1>1, <1>3, <1>4 DEF WindowsStay, isAppRunning

LEMMA KillLoses ==
    ASSUME HeapInv, NEW t \in Targets, KillApp(t)
    PROVE  WellClosed
<1>1. ASSUME NEW a \in AppIds, isAppRunning(a), Kill(a)
      PROVE  WellClosed
  <2>1. mApplications[a] \in Objects /\ Live(mApplications[a])
    BY <1>1, RunningIsLive
  <2>2. reply'.method = "killApp"
    BY <1>1 DEF Kill, Answer
  <2> QED
    BY <1>1, <2>1, <2>2, ClosedLoses DEF Kill, WellClosed, StaysRunning
<1>2. ASSUME NEW result, KillNothing(result)
      PROVE  WellClosed
  BY <1>2, QuietlyClosed DEF KillNothing
<1> QED
  BY <1>1, <1>2 DEF KillApp, killAppByPid, killAppById, FirstWithPid, Targets

LEMMA ClosePageLoses ==
    ASSUME HeapInv, NEW w \in Windows, onClosePage(w)
    PROVE  WellClosed
<1> DEFINE o == win[w].application
<1>1. o \in Objects /\ Live(o) /\ closeWindow(o, w)
  BY DEF onClosePage, HeapInv, PointersSound
<1> HIDE DEF o
<1>2. CASE UNCHANGED <<mApplications, app>>
  BY <1>2, QuietlyClosed
<1>3. CASE Closable(o, w) /\ LoseWindows(o, Closed(o, w)) /\ UNCHANGED mApplications
  <2>1. /\ app'[o].windows = app[o].windows \ Closed(o, w)
        /\ \A x \in Objects \ {o} : app'[x] = app[x]
    BY <1>1, <1>3 DEF LoseWindows, HeapInv, HeapTyped, Application
  <2> QED
    BY <1>3, <2>1 DEF WellClosed, WindowsStay, StaysRunning, isAppRunning
<1>4. CASE Closable(o, w) /\ LastWindow(o, w) /\ onApplicationClosed(o, Closed(o, w))
  BY <1>1, <1>4, ClosedLoses DEF WellClosed, StaysRunning
<1> QED
  BY <1>1, <1>2, <1>3, <1>4 DEF closeWindow

LEMMA CrashLoses == Crash => WellClosed
  BY DEF Crash, WellClosed, StaysRunning, Live, NoApplication

LEMMA StepLoses == IInv /\ [Next]_vars => WellClosed
<1> SUFFICES ASSUME IInv, [Next]_vars PROVE WellClosed
  OBVIOUS
<1>0. HeapInv
  BY Parts
<1>1. ASSUME NEW r \in Requests, LaunchApp(r) \/ LaunchUrl(r) PROVE WellClosed
  <2>1. /\ (r.boot # "absent") \in BOOLEAN /\ (r.boot = "object") \in BOOLEAN
        /\ "launchApp" \in Methods /\ "launchUrl" \in Methods
    BY DEF Methods
  <2> QED
    BY <1>0, <1>1, <2>1, LaunchLoses DEF LaunchApp, LaunchUrl
<1>2. ASSUME NEW a \in AppIds, Relaunch(a) PROVE WellClosed
  <2>1. CASE isAppRunning(a)
    BY <1>0, <1>2, <2>1, RunningIsLive, RelaunchLoses, QuietlyClosed DEF Relaunch
  <2>2. CASE ~isAppRunning(a)
    BY <1>2, <2>2, QuietlyClosed DEF Relaunch
  <2> QED
    BY <2>1, <2>2
<1>3. ASSUME UNCHANGED <<mApplications, app>> PROVE WellClosed
  BY <1>3, QuietlyClosed
<1>4. ASSUME NEW w \in Windows, NEW b \in BOOLEAN, onCreateNewPage(w, b) PROVE WellClosed
  <2>1. \A x \in Objects : app[x].windows \subseteq app'[x].windows
    BY <1>0, <1>4 DEF onCreateNewPage, CreateWindow, HeapInv, HeapTyped, Application
  <2> QED
    BY <1>4, <2>1, QuietlyClosed DEF onCreateNewPage
<1>5. ASSUME NEW w \in Windows,
             (\E b \in BOOLEAN : SetKeepAlive(w, b)) \/ DeferredDelete(w) \/ StaleEvent(w)
      PROVE  WellClosed
  BY <1>3, <1>5, CrashLoses DEF SetKeepAlive, DeferredDelete, StaleEvent
<1>6. ASSUME NEW t \in Targets, ClearMemoryCaches(t) PROVE WellClosed
  BY <1>3, <1>6, CrashLoses DEF ClearMemoryCaches
<1>7. CASE Restart \/ UNCHANGED vars \/ \E b \in BOOLEAN : RegisterForAppEvents(b)
  BY <1>3, <1>7 DEF Restart, vars, RegisterForAppEvents
<1>8. ASSUME NEW w \in Windows, onClosePage(w) \/ CloseEvent(w) PROVE WellClosed
  BY <1>0, <1>8, ClosePageLoses DEF CloseEvent
<1> QED
  BY <1>0, <1>1, <1>2, <1>4, <1>5, <1>6, <1>7, <1>8, KillLoses DEF Next

\* If closing w left h alone and unseen, h would have been closed with w.
LEMMA UnseenIsClosed ==
    ASSUME NEW o \in Objects, NEW x \in Windows, Closable(o, x),
           NEW w \in app[o].windows, NEW h, w # h,
           app[o].windows \ Closed(o, x) = {h}, win[h].headless
    PROVE  win[h].keepAlive \/ app[o].launchedAtBoot
<1>1. h \in app[o].windows \ {x} /\ h \notin LeftAlone(o, x)
  BY DEF Closed
<1>2. ASSUME LeftAlone(o, x) # {} PROVE FALSE
  BY <1>1, <1>2 DEF LeftAlone, Closed
<1>3. app[o].windows = {h, x}
  BY <1>2 DEF Closed, Closable
<1> QED
  BY <1>1, <1>3 DEF LeftAlone

(* No step, whatever closes and in whatever order, leaves an application    *)
(* running behind one headless window that nobody can see.                  *)
THEOREM NeverLeftAlone == Spec => HeadlessNotLeftAlone
<1>1. ASSUME IInv, [Next]_vars, NEW o \in Objects, Live(o), Live(o)',
             NEW w \in app[o].windows, NEW h \in app'[o].windows,
             app'[o].windows = {h}, w # h, win[h].headless
      PROVE  win[h].keepAlive \/ app[o].launchedAtBoot
  <2>1. WindowsStay(o)
    BY <1>1, StepLoses DEF WellClosed
  <2>2. PICK x \in Windows : /\ Closable(o, x)
                             /\ app'[o].windows = app[o].windows \ Closed(o, x)
    BY <1>1, <2>1 DEF WindowsStay
  <2> QED
    BY <1>1, <2>2, UnseenIsClosed
<1>2. IInv /\ [Next]_vars =>
        [\A o \in Objects : Live(o) /\ Live(o)' =>
            \A w \in app[o].windows, h \in app'[o].windows :
                app'[o].windows = {h} /\ w # h /\ win[h].headless =>
                    win[h].keepAlive \/ app[o].launchedAtBoot]_vars
  BY <1>1
<1> QED
  BY <1>2, Invariance, PTL DEF Spec, HeadlessNotLeftAlone

(* An application with a window that is kept alive finishes only when it is *)
(* killed or the daemon dies.                                               *)
THEOREM KeptAliveStays == Spec => KeptAliveUntilKilled
<1>1. ASSUME IInv, [Next]_vars, NEW a \in AppIds, isAppRunning(a), ~isAppRunning(a)',
             \E w \in app[mApplications[a]].windows : win[w].keepAlive
      PROVE  ~up' \/ reply'.method = "killApp"
  <2>1. StaysRunning(a)
    BY <1>1, StepLoses DEF WellClosed
  <2>2. ASSUME NEW x \in Windows,
               Closable(mApplications[a], x), LastWindow(mApplications[a], x)
        PROVE  FALSE
    BY <1>1, <2>2 DEF Closable, LastWindow, Closed, LeftAlone
  <2> QED
    BY <1>1, <2>1, <2>2 DEF StaysRunning
<1>2. IInv /\ [Next]_vars =>
        [\A a \in AppIds :
            /\ isAppRunning(a) /\ ~isAppRunning(a)'
            /\ \E w \in app[mApplications[a]].windows : win[w].keepAlive
            => ~up' \/ reply'.method = "killApp"]_vars
  BY <1>1
<1> QED
  BY <1>2, Invariance, PTL DEF Spec, KeptAliveUntilKilled
=============================================================================
