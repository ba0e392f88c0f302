----------------------------- MODULE BdmProofs -----------------------------
(***************************************************************************)
(* Two facts about the pages of block devices (module Bdm), for every      *)
(* number of slots and devices, all settings and any number of presses:    *)
(* rows belong to the view in force, and a device that is not shown, or    *)
(* was turned off, is not written to while its page went through the gates.*)
(***************************************************************************)
EXTENDS Bdm, FiniteSetTheorems, TLAPS

Labels == {"idle", "sdc", "usb", "ask", "open", "identity", "same", "folders",
           "done", "clear", "commit", "read", "rows"}

\* The labels of a poll between its gate and the folders.
Deciding == {"ask", "open", "identity", "same", "folders"}

\* The types of what the two facts are about.
JobType  == job \in [pc : Labels, slot : Slots, vis : BOOLEAN, transition : BOOLEAN]
ListType ==
  /\ mounted \in [Slots -> Devices \cup {NoDev}]
  /\ bdmGames \in [Slots -> Devices \cup {NoDev}]
  /\ bdmPs1Games \in [Slots -> Devices \cup {NoDev}]
  /\ rows \in [Slots -> [dev : Devices \cup {NoDev}, view : {"iso", "ps1"}]]
  /\ view \in [Slots -> {"iso", "ps1"}]
  /\ pendingView \in [Slots -> {"iso", "ps1", NoView}]
PageType ==
  /\ visible \in [Slots -> BOOLEAN] /\ current \in [Slots -> BOOLEAN]
  /\ FoldersCreated \in [Slots -> BOOLEAN]
  /\ bdmDeviceType \in [Slots -> Types \cup {None, Unknown}]
ModeType == gBDMStartMode \in Modes

\* A page has no rows from the moment the old ones go until the new ones are
\* built: that is when the view changes.
RowsGone == job.pc \in {"commit", "read", "rows"} => rows[job.slot] = NoRows

\* The poll began with the block devices started and not off; if that changed, it
\* was in Game Sources, whose settings move the generation when applied.
PollStarted ==
  job.pc \in Deciding =>
    /\ bdmDeviceModeStarted = TRUE
    /\ bdmEffectiveStartMode # "off" \/ gui = "sources" \/ current[job.slot] = FALSE

\* The way to the folders leads past a device with an identity and a page that is
\* shown, unless it was hidden meanwhile, with the generation.
FoldersWanted ==
  job.pc = "folders" =>
    /\ bdmDeviceType[job.slot] # None
    /\ visible[job.slot] = TRUE \/ current[job.slot] = FALSE

\* A page that the poll found hidden stays hidden until Publish shows it.
StaysAway ==
  job.pc \in {"open", "identity", "same"} /\ job.vis = FALSE
    => visible[job.slot] = FALSE

\* Behind a page that the poll found hidden is a transport the user has on, as
\* long as the settings are what they were when the identity came.
GatesPassed ==
  job.pc = "folders" =>
    \/ ~Withheld(bdmDeviceType[job.slot]) \/ job.vis = TRUE
    \/ gui = "sources" \/ current[job.slot] = FALSE

\* No slot is polled before itemInit ran, which runs for all of them.
PollsEnabled ==
  /\ enabled \in [Slots -> BOOLEAN]
  /\ \/ enabled[0] = TRUE
     \/ /\ enabled = [s \in Slots |-> FALSE]
        /\ queue \in Seq({Load})
        /\ job.pc \in {"idle", "sdc", "usb"}

IInv == JobType /\ ListType /\ PageType /\ ModeType /\ RowsGone /\ RowsMatchView
        /\ PollStarted /\ FoldersWanted /\ PollsEnabled /\ StaysAway /\ GatesPassed

----------------------------------------------------------------------------

\* There is a slot.
LEMMA SlotZero == 0 \in Slots
BY SlotsAssumption DEF Slots

\* The worker without a request.
LEMMA IdleJob == Idle \in [pc : Labels, slot : Slots, vis : BOOLEAN, transition : BOOLEAN]
BY SlotZero DEF Idle, Labels

\* At boot no slot has been polled.
LEMMA InitIInv == Init => IInv
<1> SUFFICES ASSUME Init PROVE IInv
  OBVIOUS
<1>1. JobType
  BY IdleJob DEF Init, JobType
<1>2. ListType
  BY DEF Init, ListType, NoRows
<1>3. PageType
  BY DEF Init, PageType
<1>6. ModeType
  BY SettingsAssumption DEF Init, ModeType
<1>4. RowsGone /\ PollStarted /\ FoldersWanted /\ StaysAway /\ GatesPassed
  BY DEF Init, Idle, RowsGone, PollStarted, FoldersWanted, StaysAway, GatesPassed,
     Deciding
<1>7. PollsEnabled
  BY DEF Init, Idle, PollsEnabled
<1>5. RowsMatchView
  BY DEF Init, RowsMatchView, NoRows
<1> QED BY <1>1, <1>2, <1>3, <1>4, <1>5, <1>6, <1>7 DEF IInv

\* Every operation on a page changes flags and asks for a poll.
PageOps == \E s \in Slots : itemExecRefresh(s) \/ folderDescend(s)
                            \/ itemExecToggleView(s) \/ bdmDeleteGame(s)
Ticks   == \E idle, eighth \in BOOLEAN, S \in SUBSET Slots : menuUpdateHook(idle, eighth, S)

\* What the worker is doing keeps its type.
LEMMA JobTypeNext ==
  ASSUME JobType, PageType, [Next]_vars
  PROVE  JobType'
<1> USE DEF JobType, Labels, Goto, Decided
<1>1. CASE World
  BY <1>1 DEF World, Mount, Unmount, Identified
<1>2. CASE guiShowDeviceConfig \/ applyConfig \/ itemInitSupport
  BY <1>2 DEF guiShowDeviceConfig, applyConfig, itemInitSupport
<1>3. CASE PageOps
  BY <1>3
     DEF PageOps, itemExecRefresh, folderDescend, itemExecToggleView, bdmDeleteGame,
         Asks
<1>4. CASE Ticks
  BY <1>4 DEF Ticks, menuUpdateHook
<1>5. CASE bdmLoadBlockDeviceModules \/ Mx4sioSecondProbe
  BY <1>5 DEF bdmLoadBlockDeviceModules, Mx4sioSecondProbe
<1>6. CASE UsbSecondProbe \/ NothingToUpdate \/ AppendRows
  BY <1>6, IdleJob DEF UsbSecondProbe, NothingToUpdate, AppendRows
<1>7. ASSUME NEW s \in Slots, NeedsUpdateGate(s) PROVE JobType'
  BY <1>7, IdleJob DEF NeedsUpdateGate, Idle
<1>8. ASSUME NEW taken \in BOOLEAN, NeedsUpdateLoad(taken) PROVE JobType'
  BY <1>8 DEF NeedsUpdateLoad, PageType
<1>9. CASE Restore \/ Connect \/ Missed \/ NoChange
  BY <1>9 DEF Restore, Connect, Missed, NoChange
<1>10. CASE NoIdentity \/ Publish \/ Unchanged \/ CreateFolders
  BY <1>10 DEF NoIdentity, Publish, Unchanged, CreateFolders
<1>11. CASE clearMenuGameList
  BY <1>11 DEF clearMenuGameList
<1>12. CASE CommitView
  BY <1>12 DEF CommitView
<1>13. ASSUME NEW ok \in BOOLEAN, bdmUpdateGameList(ok) PROVE JobType'
  BY <1>13 DEF bdmUpdateGameList
<1>14. CASE UNCHANGED vars
  BY <1>14 DEF vars
<1> QED BY <1>1, <1>2, <1>3, <1>4, <1>5, <1>6, <1>7, <1>8, <1>9, <1>10, <1>11,
           <1>12, <1>13, <1>14 DEF Next, Worker, Gui, PageOps, Ticks

\* Lists, rows and views keep their types.
LEMMA ListTypeNext ==
  ASSUME JobType, ListType, [Next]_vars
  PROVE  ListType'
<1> USE DEF ListType
<1>1. CASE World
  <2>1. ASSUME NEW d \in Devices, Mount(d) PROVE ListType'
    BY <2>1 DEF Mount, listVars, viewVars
  <2>2. ASSUME NEW s \in Slots, Unmount(s) \/ Identified(s) PROVE ListType'
    BY <2>2 DEF Unmount, Identified, listVars, viewVars
  <2> QED BY <1>1, <2>1, <2>2 DEF World
<1>2. CASE guiShowDeviceConfig
  BY <1>2 DEF guiShowDeviceConfig, worldVars, listVars, viewVars
<1>3. CASE applyConfig \/ itemInitSupport
  <2>1. PICK S : bdmInit(S)
    BY <1>3 DEF applyConfig, itemInitSupport
  <2>2. UNCHANGED <<mounted, rows, view, pendingView>>
    BY <1>3 DEF applyConfig, itemInitSupport, worldVars, viewVars
  <2>3. bdmGames' \in [Slots -> Devices \cup {NoDev}] /\ bdmPs1Games' \in [Slots -> Devices \cup {NoDev}]
    BY <2>1 DEF bdmInit
  <2> QED BY <2>2, <2>3
<1>4. ASSUME NEW s \in Slots,
             itemExecRefresh(s) \/ folderDescend(s) \/ itemExecToggleView(s) \/ bdmDeleteGame(s)
      PROVE  ListType'
  BY <1>4 DEF itemExecRefresh, folderDescend, itemExecToggleView, bdmDeleteGame,
     Asks, Other, worldVars, listVars
<1>5. CASE Ticks
  BY <1>5 DEF Ticks, menuUpdateHook, worldVars, listVars, viewVars
<1>6. CASE bdmLoadBlockDeviceModules \/ Mx4sioSecondProbe \/ UsbSecondProbe
  BY <1>6 DEF bdmLoadBlockDeviceModules, Mx4sioSecondProbe, UsbSecondProbe,
     worldVars, listVars, viewVars
<1>7. ASSUME NEW s \in Slots, NeedsUpdateGate(s) PROVE ListType'
  BY <1>7 DEF NeedsUpdateGate, worldVars, listVars
<1>8. ASSUME NEW taken \in BOOLEAN, NeedsUpdateLoad(taken) PROVE ListType'
  BY <1>8 DEF NeedsUpdateLoad, worldVars, listVars, viewVars
<1>9. CASE Restore \/ Connect \/ Missed \/ NoChange
  BY <1>9 DEF Restore, Connect, Missed, NoChange, worldVars, listVars, viewVars
<1>10. CASE NoIdentity \/ Publish \/ Unchanged \/ CreateFolders
  BY <1>10
     DEF NoIdentity, Publish, Unchanged, CreateFolders, worldVars, listVars,
         viewVars
<1>11. CASE NothingToUpdate
  BY <1>11
     DEF NothingToUpdate, Retired, libViewCommitPending, NoRows, JobType, worldVars
<1>12. CASE clearMenuGameList
  BY <1>12 DEF clearMenuGameList, NoRows, JobType, worldVars, viewVars
<1>13. CASE CommitView
  BY <1>13 DEF CommitView, libViewCommitPending, JobType, worldVars, listVars
<1>14. ASSUME NEW ok \in BOOLEAN, bdmUpdateGameList(ok) PROVE ListType'
  BY <1>14 DEF bdmUpdateGameList, sbReadList, JobType, worldVars, viewVars
<1>15. CASE AppendRows
  BY <1>15 DEF AppendRows, JobType, worldVars
<1>16. CASE UNCHANGED vars
  BY <1>16 DEF vars, worldVars, listVars, viewVars
<1> QED BY <1>1, <1>2, <1>3, <1>4, <1>5, <1>6, <1>7, <1>8, <1>9, <1>10, <1>11,
           <1>12, <1>13, <1>14, <1>15, <1>16 DEF Next, Worker, Gui, Ticks

\* What is known of a page keeps its type.
LEMMA PageTypeNext ==
  ASSUME JobType, ListType, PageType, [Next]_vars
  PROVE  PageType'
<1> USE DEF PageType
<1>1. CASE World
  BY <1>1 DEF World, Mount, Unmount, Identified, Bumped, pageVars, genVars
<1>2. CASE guiShowDeviceConfig
  BY <1>2 DEF guiShowDeviceConfig, pageVars, genVars
<1>3. CASE applyConfig
  <2>1. visible' \in [Slots -> BOOLEAN] /\ FoldersCreated' \in [Slots -> BOOLEAN]
    BY <1>3, Zenon DEF applyConfig, bdmInit
  <2>2. current' \in [Slots -> BOOLEAN]
    BY <1>3, Zenon DEF applyConfig, Bumped
  <2>3. bdmDeviceType' \in [Slots -> Types \cup {None, Unknown}]
    BY <1>3 DEF applyConfig, bdmInit
  <2> QED BY <2>1, <2>2, <2>3
<1>4. CASE itemInitSupport
  <2>1. FoldersCreated' \in [Slots -> BOOLEAN]
    BY <1>4, Zenon DEF itemInitSupport, bdmInit
  <2>2. bdmDeviceType' \in [Slots -> Types \cup {None, Unknown}]
    BY <1>4 DEF itemInitSupport, bdmInit
  <2> QED BY <1>4, <2>1, <2>2 DEF itemInitSupport, genVars
<1>5. CASE PageOps
  BY <1>5
     DEF PageOps, itemExecRefresh, folderDescend, itemExecToggleView, bdmDeleteGame,
         Asks, pageVars, genVars
<1>6. CASE Ticks
  BY <1>6 DEF Ticks, menuUpdateHook, pageVars
<1>7. CASE bdmLoadBlockDeviceModules \/ Mx4sioSecondProbe \/ UsbSecondProbe
  BY <1>7 DEF bdmLoadBlockDeviceModules, Mx4sioSecondProbe, UsbSecondProbe,
     Bumped, pageVars, genVars
<1>8. ASSUME NEW s \in Slots, NeedsUpdateGate(s) PROVE PageType'
  <2>1. visible' \in [Slots -> BOOLEAN]
    <3>1. \E b \in BOOLEAN : visible' = [visible EXCEPT ![s] = b]
      <4>1. (visible[s] /\ ~bdmTransportDisabled(bdmDeviceType[s])) \in BOOLEAN /\ visible[s] \in BOOLEAN
        BY <1>8
      <4> QED BY <1>8, <4>1, Zenon DEF NeedsUpdateGate
    <3> QED BY <3>1
  <2> QED BY <1>8, <2>1 DEF NeedsUpdateGate
<1>9. ASSUME NEW taken \in BOOLEAN, NeedsUpdateLoad(taken) PROVE PageType'
  BY <1>9 DEF NeedsUpdateLoad, pageVars
<1>10. CASE Restore \/ Connect \/ NoChange
  BY <1>10 DEF Restore, Connect, NoChange, JobType, genVars
<1>11. CASE Missed
  <2>1. job.slot \in Slots
    BY DEF JobType
  <2>2. PICK b \in BOOLEAN : visible' = [visible EXCEPT ![job.slot] = b]
    BY <1>11, <2>1, Zenon DEF Missed
  <2>3. PICK f \in BOOLEAN : FoldersCreated' = [FoldersCreated EXCEPT ![job.slot] = f]
    BY <1>11, <2>1, Zenon DEF Missed
  <2> QED BY <1>11, <2>2, <2>3 DEF Missed, genVars
<1>12. CASE NoIdentity \/ Unchanged
  BY <1>12 DEF NoIdentity, Unchanged, pageVars, genVars
<1>13. CASE Publish
  <2>1. job.slot \in Slots
    BY DEF JobType
  <2>2. PICK b \in BOOLEAN : visible' = [visible EXCEPT ![job.slot] = b]
    BY <1>13, <2>1, Zenon DEF Publish
  <2>3. TypeOf[mounted[job.slot]] \in Types \cup {Unknown}
    BY <1>13, <2>1, DevicesAssumption DEF Publish, ListType
  <2> QED BY <1>13, <2>2, <2>3 DEF Publish, genVars
<1>14. CASE CreateFolders
  <2>1. job.slot \in Slots
    BY DEF JobType
  <2>2. PICK b \in BOOLEAN : FoldersCreated' = [FoldersCreated EXCEPT ![job.slot] = b]
    BY <1>14, <2>1, Zenon DEF CreateFolders
  <2> QED BY <1>14, <2>2 DEF CreateFolders, genVars
<1>15. CASE NothingToUpdate \/ clearMenuGameList \/ CommitView \/ AppendRows
  BY <1>15
     DEF NothingToUpdate, clearMenuGameList, CommitView, AppendRows, pageVars,
         genVars
<1>16. ASSUME NEW ok \in BOOLEAN, bdmUpdateGameList(ok) PROVE PageType'
  BY <1>16 DEF bdmUpdateGameList, genVars
<1>17. CASE UNCHANGED vars
  BY <1>17 DEF vars, pageVars, genVars
<1> QED BY <1>1, <1>2, <1>3, <1>4, <1>5, <1>6, <1>7, <1>8, <1>9, <1>10, <1>11,
           <1>12, <1>13, <1>14, <1>15, <1>16, <1>17 DEF Next, Worker, Gui, PageOps, Ticks

\* Only the dialog changes the start mode, to one it offers.
LEMMA ModeTypeNext == ModeType /\ [Next]_vars => ModeType'
<1> SUFFICES ASSUME ModeType, [Next]_vars PROVE ModeType'
  OBVIOUS
<1>1. CASE guiShowDeviceConfig
  BY <1>1, SettingsAssumption DEF guiShowDeviceConfig, ModeType
<1>2. ASSUME UNCHANGED gBDMStartMode PROVE ModeType'
  BY <1>2 DEF ModeType
<1>3. CASE World
  BY <1>2, <1>3 DEF World, Mount, Unmount, Identified, setVars
<1>4. CASE applyConfig \/ itemInitSupport \/ PageOps \/ Ticks
  BY <1>2, <1>4 DEF applyConfig, itemInitSupport, PageOps, Ticks, itemExecRefresh,
     folderDescend, itemExecToggleView, bdmDeleteGame, Asks, menuUpdateHook, setVars
<1>5. CASE Worker
  BY <1>2, <1>5
     DEF Worker, bdmLoadBlockDeviceModules, Mx4sioSecondProbe, UsbSecondProbe,
         NeedsUpdateGate, NeedsUpdateLoad, Restore, Connect, Missed, NoChange,
         NoIdentity, Publish, Unchanged, CreateFolders, NothingToUpdate,
         clearMenuGameList, CommitView, bdmUpdateGameList, AppendRows, setVars
<1>6. CASE UNCHANGED vars
  BY <1>2, <1>6 DEF vars, setVars
<1> QED BY <1>1, <1>3, <1>4, <1>5, <1>6 DEF Next, Gui, PageOps, Ticks

----------------------------------------------------------------------------
(* Rows and views *)

\* The view changes only under a page without rows.
LEMMA RowsNext ==
  ASSUME JobType, ListType, RowsGone, RowsMatchView, [Next]_vars
  PROVE  RowsGone' /\ RowsMatchView'
<1>1. ASSUME UNCHANGED <<rows, view>>, UNCHANGED job \/ job'.pc \notin {"commit", "read", "rows"}
      PROVE  RowsGone' /\ RowsMatchView'
  BY <1>1 DEF RowsGone, RowsMatchView
<1>2. CASE World
  BY <1>1, <1>2 DEF World, Mount, Unmount, Identified, listVars, viewVars
<1>3. CASE guiShowDeviceConfig \/ applyConfig \/ itemInitSupport
  BY <1>1, <1>3
     DEF guiShowDeviceConfig, applyConfig, itemInitSupport, listVars, viewVars
<1>4. CASE PageOps \/ Ticks
  BY <1>1, <1>4
     DEF PageOps, Ticks, itemExecRefresh, folderDescend, itemExecToggleView,
         bdmDeleteGame, Asks, menuUpdateHook, listVars, viewVars
<1>5. CASE bdmLoadBlockDeviceModules \/ Mx4sioSecondProbe \/ UsbSecondProbe
  BY <1>1, <1>5 DEF bdmLoadBlockDeviceModules, Mx4sioSecondProbe, UsbSecondProbe,
     Goto, Idle, JobType, listVars, viewVars
<1>6. ASSUME NEW s \in Slots, NeedsUpdateGate(s) PROVE RowsGone' /\ RowsMatchView'
  <2>1. job'.pc \in {"done", "clear", "ask"}
    BY <1>6 DEF NeedsUpdateGate, Idle
  <2> QED BY <1>1, <1>6, <2>1 DEF NeedsUpdateGate, listVars
<1>7. ASSUME NEW taken \in BOOLEAN, NeedsUpdateLoad(taken)
      PROVE  RowsGone' /\ RowsMatchView'
  <2>1. job'.pc \in {"same", "open"}
    BY <1>7 DEF NeedsUpdateLoad, JobType
  <2> QED BY <1>1, <1>7, <2>1 DEF NeedsUpdateLoad, listVars, viewVars
<1>8. CASE Restore \/ Connect \/ Missed \/ NoChange
  <2>1. job'.pc \in {"same", "identity", "clear"}
    BY <1>8 DEF Restore, Connect, Missed, NoChange, Goto, Decided, JobType
  <2> QED BY <1>1, <1>8, <2>1 DEF Restore, Connect, Missed, NoChange, listVars, viewVars
<1>9. CASE NoIdentity \/ Publish \/ Unchanged \/ CreateFolders
  <2>1. job'.pc \in {"same", "folders", "done", "clear"}
    BY <1>9
       DEF NoIdentity, Publish, Unchanged, CreateFolders, Goto, Decided, JobType
  <2> QED BY <1>1, <1>9, <2>1 DEF NoIdentity, Publish, Unchanged, CreateFolders, listVars, viewVars
<1>10. CASE NothingToUpdate
  <2>1. RowsGone'
    BY <1>10 DEF NothingToUpdate, RowsGone, Idle
  <2>2. RowsMatchView'
    BY <1>10
       DEF NothingToUpdate, Retired, libViewCommitPending, RowsMatchView, ListType,
           JobType, NoRows
  <2> QED BY <2>1, <2>2
<1>11. CASE clearMenuGameList
  <2>1. job.slot \in Slots /\ job'.slot = job.slot /\ rows' = [rows EXCEPT ![job.slot] = NoRows]
        /\ UNCHANGED view
    BY <1>11 DEF clearMenuGameList, JobType, viewVars
  <2> QED BY <2>1 DEF RowsGone, RowsMatchView, ListType, NoRows
<1>12. CASE CommitView
  <2>1. /\ job.pc = "commit" /\ job'.slot = job.slot /\ job.slot \in Slots
        /\ UNCHANGED rows
        /\ \A s \in Slots : s # job.slot => view'[s] = view[s]
    BY <1>12 DEF CommitView, libViewCommitPending, Goto, JobType, ListType, listVars
  <2> QED BY <2>1 DEF RowsGone, RowsMatchView, NoRows
<1>13. ASSUME NEW ok \in BOOLEAN, bdmUpdateGameList(ok) PROVE RowsGone' /\ RowsMatchView'
  <2>1. job.pc = "read" /\ job'.slot = job.slot /\ UNCHANGED <<rows, view>>
    BY <1>13 DEF bdmUpdateGameList, Goto, JobType, viewVars
  <2> QED BY <2>1 DEF RowsGone, RowsMatchView
<1>14. CASE AppendRows
  <2>1. RowsGone'
    BY <1>14 DEF AppendRows, RowsGone, Idle
  <2>2. RowsMatchView'
    BY <1>14 DEF AppendRows, RowsMatchView, ListType, JobType
  <2> QED BY <2>1, <2>2
<1>15. CASE UNCHANGED vars
  BY <1>1, <1>15 DEF vars, listVars, viewVars
<1> QED BY <1>2, <1>3, <1>4, <1>5, <1>6, <1>7, <1>8, <1>9, <1>10, <1>11, <1>12,
           <1>13, <1>14, <1>15 DEF Next, Worker, Gui, PageOps, Ticks

----------------------------------------------------------------------------
(* The way to the folders *)

\* Settings applied under a poll leave its slot due for another look.
LEMMA AppliedMoves ==
  ASSUME JobType, ModeType, PollStarted, applyConfig, job.pc \in Deciding
  PROVE  current'[job.slot] = FALSE
<1>1. job.slot \in Slots
  BY DEF JobType
<1>2. CASE gui = "sources" /\ Bumped
  BY <1>1, <1>2 DEF Bumped
<1>3. CASE /\ gui = "config"
           /\ current' = [s \in Slots |-> current[s] /\
                ~(\/ bdmEffectiveStartMode = "auto"
                  \/ (bdmEffectiveStartMode = "manual" /\ bdmDeviceModeStarted))]
  <2>1. current'[job.slot] = (current[job.slot] /\
                ~(\/ bdmEffectiveStartMode = "auto"
                  \/ (bdmEffectiveStartMode = "manual" /\ bdmDeviceModeStarted)))
    BY <1>1, <1>3
  <2>2. bdmDeviceModeStarted = TRUE /\ (bdmEffectiveStartMode # "off" \/ current[job.slot] = FALSE)
    BY <1>3 DEF PollStarted
  <2>3. bdmEffectiveStartMode \in {"off", "manual", "auto"}
    BY DEF ModeType, Modes, bdmEffectiveStartMode
  <2> QED BY <2>1, <2>2, <2>3, Zenon
<1> QED BY <1>2, <1>3, Zenon DEF applyConfig

\* No setting is applied under a poll without moving the generation, unless it
\* leaves the poll's page as it was.
LEMMA PollNext ==
  ASSUME JobType, ListType, PageType, ModeType, PollStarted, FoldersWanted, [Next]_vars
  PROVE  PollStarted' /\ FoldersWanted'
<1> DEFINE Kept == UNCHANGED <<bdmDeviceModeStarted, on, gBDMStartMode, gui>>
<1>1. ASSUME job'.pc \notin Deciding PROVE PollStarted' /\ FoldersWanted'
  BY <1>1 DEF PollStarted, FoldersWanted, Deciding
<1>2. ASSUME Kept, UNCHANGED <<job, visible, bdmDeviceType>>, UNCHANGED current \/ Bumped
      PROVE  PollStarted' /\ FoldersWanted'
  <2>1. current'[job.slot] = current[job.slot] \/ current'[job.slot] = FALSE
    BY <1>2 DEF Bumped, JobType
  <2>2. bdmEffectiveStartMode' = bdmEffectiveStartMode
    BY <1>2 DEF bdmEffectiveStartMode
  <2> QED BY <1>2, <2>1, <2>2 DEF PollStarted, FoldersWanted
\* a step of the poll inside bdmUpdateDeviceData
<1>3. ASSUME Kept, UNCHANGED current, job.pc \in Deciding, job'.slot = job.slot,
             job'.pc = "folders" => bdmDeviceType'[job.slot] # None /\ visible'[job.slot] = TRUE
      PROVE  PollStarted' /\ FoldersWanted'
  <2>1. bdmEffectiveStartMode' = bdmEffectiveStartMode
    BY <1>3 DEF bdmEffectiveStartMode
  <2> QED BY <1>3, <2>1 DEF PollStarted, FoldersWanted
<1>4. CASE World
  BY <1>2, <1>4 DEF World, Mount, Unmount, Identified, setVars, pageVars, genVars
<1>5. CASE guiShowDeviceConfig
  <2>1. UNCHANGED <<job, visible, bdmDeviceType, current, bdmDeviceModeStarted>>
    BY <1>5 DEF guiShowDeviceConfig, pageVars, genVars
  <2>2. CASE gui' = "sources"
    BY <2>1, <2>2 DEF PollStarted, FoldersWanted
  <2>3. CASE gui = "menu" /\ UNCHANGED <<on, gBDMStartMode>>
    BY <2>1, <2>3 DEF PollStarted, FoldersWanted, bdmEffectiveStartMode
  <2> QED BY <1>5, <2>2, <2>3 DEF guiShowDeviceConfig
<1>6. CASE applyConfig
  <2>1. UNCHANGED <<job, bdmDeviceModeStarted, on, gBDMStartMode>> /\ job.slot \in Slots
    BY <1>6 DEF applyConfig, JobType
  <2>2. bdmEffectiveStartMode' = bdmEffectiveStartMode
    BY <2>1 DEF bdmEffectiveStartMode
  <2>3. bdmDeviceType[job.slot] # None => bdmDeviceType'[job.slot] # None
    BY <1>6, <2>1 DEF applyConfig, bdmInit, None, Unknown
  <2>4. ASSUME job.pc \in Deciding PROVE current'[job.slot] = FALSE
    BY <1>6, <2>4, AppliedMoves
  <2>5. job.pc = "folders" => job.pc \in Deciding
    BY DEF Deciding
  <2> QED BY <2>1, <2>2, <2>3, <2>4, <2>5 DEF PollStarted, FoldersWanted
<1>7. CASE itemInitSupport
  <2>1. Kept /\ UNCHANGED <<job, visible, current>> /\ job.slot \in Slots
    BY <1>7 DEF itemInitSupport, setVars, genVars, JobType
  <2>2. bdmEffectiveStartMode' = bdmEffectiveStartMode
    BY <2>1 DEF bdmEffectiveStartMode
  <2>3. bdmDeviceType[job.slot] # None => bdmDeviceType'[job.slot] # None
    BY <1>7, <2>1 DEF itemInitSupport, bdmInit, None, Unknown
  <2> QED BY <2>1, <2>2, <2>3 DEF PollStarted, FoldersWanted
<1>8. CASE PageOps \/ Ticks
  BY <1>2, <1>8
     DEF PageOps, Ticks, itemExecRefresh, folderDescend, itemExecToggleView,
         bdmDeleteGame, Asks, menuUpdateHook, setVars, pageVars, genVars
<1>9. CASE bdmLoadBlockDeviceModules \/ Mx4sioSecondProbe \/ UsbSecondProbe
  BY <1>1, <1>9 DEF bdmLoadBlockDeviceModules, Mx4sioSecondProbe, UsbSecondProbe,
     Goto, Idle, JobType, Deciding
<1>10. ASSUME NEW s \in Slots, NeedsUpdateGate(s) PROVE PollStarted' /\ FoldersWanted'
  <2>1. CASE job'.pc = "ask"
    <3>1. bdmEffectiveStartMode # "off"
      BY <1>10, <2>1 DEF NeedsUpdateGate, Idle
    <3>2. bdmEffectiveStartMode' = bdmEffectiveStartMode
      BY <1>10 DEF NeedsUpdateGate, setVars, bdmEffectiveStartMode
    <3> QED BY <1>10, <2>1, <3>1, <3>2 DEF NeedsUpdateGate, PollStarted, FoldersWanted
  <2>2. CASE job'.pc \in {"done", "clear"}
    BY <1>1, <2>2 DEF Deciding
  <2> QED BY <1>10, <2>1, <2>2 DEF NeedsUpdateGate, Idle
<1>11. ASSUME NEW taken \in BOOLEAN, NeedsUpdateLoad(taken)
       PROVE  PollStarted' /\ FoldersWanted'
  <2>1. /\ job.pc = "ask" /\ job'.pc \in {"same", "open"} /\ job'.slot = job.slot
        /\ Kept /\ UNCHANGED current
    BY <1>11 DEF NeedsUpdateLoad, JobType, setVars, pageVars
  <2> QED BY <1>3, <2>1 DEF Deciding
<1>12. CASE Restore \/ Connect \/ Missed \/ NoChange
  <2>1. /\ job.pc = "open" /\ job'.pc \in {"same", "identity", "clear"} /\ job'.slot = job.slot
        /\ Kept /\ UNCHANGED current
    BY <1>12
       DEF Restore, Connect, Missed, NoChange, Goto, Decided, JobType, setVars,
           genVars
  <2> QED BY <1>3, <2>1 DEF Deciding
<1>13. CASE NoIdentity
  <2>1. /\ job.pc = "identity" /\ job'.pc = "same" /\ job'.slot = job.slot
        /\ Kept /\ UNCHANGED current
    BY <1>13 DEF NoIdentity, Goto, JobType, setVars, genVars, pageVars
  <2> QED BY <1>3, <2>1 DEF Deciding
<1>14. CASE Publish
  <2>1. /\ job.pc = "identity" /\ job'.slot = job.slot /\ job.slot \in Slots
        /\ Kept /\ UNCHANGED current
    BY <1>14 DEF Publish, Goto, JobType, setVars, genVars
  <2>2. bdmDeviceType'[job.slot] # None
    <3>1. TypeOf[mounted[job.slot]] \in Types \cup {Unknown}
      BY <1>14, <2>1, DevicesAssumption DEF Publish, ListType
    <3>2. bdmDeviceType'[job.slot] = TypeOf[mounted[job.slot]]
      BY <1>14, <2>1 DEF Publish, PageType
    <3> QED BY <3>1, <3>2 DEF Types, None, Unknown
  <2>3. job'.pc = "folders" => visible'[job.slot] = TRUE
    <3>1. job'.pc = "folders" => ~Withheld(TypeOf[mounted[job.slot]])
      BY <1>14 DEF Publish, Goto, JobType
    <3>2. visible'[job.slot] = (visible[job.slot] \/ ~Withheld(TypeOf[mounted[job.slot]]))
      BY <1>14, <2>1 DEF Publish, PageType
    <3> QED BY <3>1, <3>2, Zenon
  <2> QED BY <1>3, <2>1, <2>2, <2>3 DEF Deciding
<1>15. CASE Unchanged
  <2>1. /\ job.pc = "same" /\ job'.slot = job.slot /\ job.slot \in Slots
        /\ Kept /\ UNCHANGED <<current, visible, bdmDeviceType>>
        /\ job'.pc = "folders" => FallsThrough(job.slot)
    BY <1>15 DEF Unchanged, Goto, Decided, JobType, setVars, genVars, pageVars
  <2>2. visible[job.slot] \in BOOLEAN
    BY <2>1 DEF PageType
  <2> QED BY <1>3, <2>1, <2>2 DEF Deciding, FallsThrough
<1>16. CASE CreateFolders
  <2>1. job'.pc \in {"done", "clear"}
    BY <1>16 DEF CreateFolders, Decided, JobType
  <2> QED BY <1>1, <2>1 DEF Deciding
<1>17. CASE NothingToUpdate \/ clearMenuGameList \/ CommitView \/ AppendRows
  <2>1. CASE NothingToUpdate \/ AppendRows
    BY <1>1, <2>1 DEF NothingToUpdate, AppendRows, Idle, Deciding
  <2>2. CASE clearMenuGameList
    BY <1>1, <2>2 DEF clearMenuGameList, JobType, Deciding
  <2>3. CASE CommitView
    BY <1>1, <2>3 DEF CommitView, Goto, JobType, Deciding
  <2> QED BY <1>17, <2>1, <2>2, <2>3
<1>18. ASSUME NEW ok \in BOOLEAN, bdmUpdateGameList(ok) PROVE PollStarted' /\ FoldersWanted'
  <2>1. job'.pc = "rows"
    BY <1>18 DEF bdmUpdateGameList, Goto, JobType
  <2> QED BY <1>1, <2>1 DEF Deciding
<1>19. CASE UNCHANGED vars
  BY <1>2, <1>19 DEF vars, setVars, pageVars, genVars
<1> QED BY <1>4, <1>5, <1>6, <1>7, <1>8, <1>9, <1>10, <1>11, <1>12, <1>13, <1>14,
           <1>15, <1>16, <1>17, <1>18, <1>19 DEF Next, Worker, Gui, PageOps, Ticks

----------------------------------------------------------------------------
(* Hidden pages *)

\* No slots, no requests but one.
LEMMA NoRequests == Requests({}, TRUE) = <<>>
<1>1. Cardinality({}) = 0
  BY FS_EmptySet
<1>2. InOrder({}) \in [1..0 -> {}]
  <2> DEFINE Sorted(q) == \A i, j \in DOMAIN q : i < j => q[i] < q[j]
  <2>1. [i \in 1..0 |-> 0] \in [1..0 -> {}]
    OBVIOUS
  <2>2. Sorted([i \in 1..0 |-> 0])
    OBVIOUS
  <2>3. \E q \in [1..0 -> {}] : Sorted(q)
    BY <2>1, <2>2
  <2>4. InOrder({}) = CHOOSE q \in [1..0 -> {}] : Sorted(q)
    BY <1>1 DEF InOrder
  <2> HIDE DEF Sorted
  <2> QED BY <2>3, <2>4
<1>3. InOrder({}) = <<>> /\ Len(InOrder({})) = 0
  BY <1>2
<1> QED BY <1>3 DEF Requests

\* bdmInit only ever enables slots.
LEMMA EnabledStays ==
  ASSUME PollsEnabled, NEW S \in SUBSET Slots, bdmInit(S)
  PROVE  /\ enabled' \in [Slots -> BOOLEAN]
         /\ enabled[0] = TRUE \/ 0 \in S => enabled'[0] = TRUE
<1>1. enabled' = [s \in Slots |-> enabled[s] \/ s \in S]
  BY DEF bdmInit
<1>2. enabled' \in [Slots -> BOOLEAN]
  BY <1>1, Zenon
<1>3. enabled'[0] = (enabled[0] \/ 0 \in S)
  BY <1>1, SlotZero
<1> QED BY <1>2, <1>3, Zenon

\* Polls are asked for by bdmInit, which enables all slots, and on enabled ones.
LEMMA EnabledNext ==
  ASSUME JobType, PollsEnabled, [Next]_vars
  PROVE  PollsEnabled'
<1>1. ASSUME UNCHANGED <<enabled, queue, job>> PROVE PollsEnabled'
  BY <1>1 DEF PollsEnabled
<1>2. ASSUME UNCHANGED enabled, enabled[0] = TRUE PROVE PollsEnabled'
  BY <1>2 DEF PollsEnabled
<1>3. CASE World \/ guiShowDeviceConfig
  BY <1>1, <1>3 DEF World, Mount, Unmount, Identified, guiShowDeviceConfig, pageVars
<1>4. CASE applyConfig
  <2> DEFINE S == {s \in Slots : bdmEffectiveStartMode = "auto" /\ ~enabled[s]}
  <2>1. bdmInit(S) /\ queue' = queue \o Requests(S, TRUE) \o <<Load>> /\ UNCHANGED job
    BY <1>4, Zenon DEF applyConfig
  <2>2. CASE enabled[0] = TRUE \/ 0 \in S
    <3>1. S \in SUBSET Slots
      OBVIOUS
    <3> HIDE DEF S
    <3> QED BY <2>1, <2>2, <3>1, EnabledStays DEF PollsEnabled
  <2>3. CASE ~(enabled[0] = TRUE \/ 0 \in S)
    <3>1. /\ enabled = [s \in Slots |-> FALSE] /\ queue \in Seq({Load})
          /\ job.pc \in {"idle", "sdc", "usb"}
      BY <2>3 DEF PollsEnabled
    <3>2. S = {}
      BY <2>3, <3>1, SlotZero
    <3>3. queue' \in Seq({Load})
      <4>1. queue' = (queue \o <<>>) \o <<Load>>
        BY <2>1, <3>2, NoRequests
      <4>2. queue \o <<>> \in Seq({Load}) /\ <<Load>> \in Seq({Load})
        BY <3>1
      <4> QED BY <4>1, <4>2
    <3>4. enabled' = [s \in Slots |-> FALSE]
      BY <2>1, <3>1, <3>2 DEF bdmInit
    <3> QED BY <2>1, <3>1, <3>3, <3>4 DEF PollsEnabled
  <2> QED BY <2>2, <2>3
<1>5. CASE itemInitSupport
  BY <1>5, SlotZero, EnabledStays DEF itemInitSupport, PollsEnabled
<1>6. CASE PageOps
  <2>1. PICK s \in Slots : enabled[s] /\ UNCHANGED enabled
    BY <1>6
       DEF PageOps, itemExecRefresh, folderDescend, itemExecToggleView,
           bdmDeleteGame, Asks, pageVars
  <2>2. enabled # [u \in Slots |-> FALSE]
    BY <2>1
  <2> QED BY <1>2, <2>1, <2>2 DEF PollsEnabled
<1>7. CASE Ticks
  <2>1. PICK idle \in BOOLEAN, eighth \in BOOLEAN, S \in SUBSET Slots :
               menuUpdateHook(idle, eighth, S)
    BY <1>7 DEF Ticks
  <2>2. UNCHANGED <<enabled, job>>
    BY <2>1 DEF menuUpdateHook, pageVars
  <2>3. CASE enabled = [s \in Slots |-> FALSE]
    <3>1. S = {}
      BY <2>1, <2>3 DEF menuUpdateHook, Due
    <3>2. queue' = [i \in 1..0 |-> Poll(InOrder(S)[i])]
      BY <2>1, <3>1, FS_EmptySet DEF menuUpdateHook
    <3>3. queue' \in Seq({Load})
      BY <3>2
    <3> QED BY <2>2, <3>3 DEF PollsEnabled
  <2> QED BY <1>2, <2>2, <2>3 DEF PollsEnabled
<1>8. CASE bdmLoadBlockDeviceModules
  <2>1. /\ UNCHANGED enabled /\ queue # <<>> /\ queue' = Tail(queue) /\ job'.pc = "sdc"
    BY <1>8 DEF bdmLoadBlockDeviceModules, Takes, Goto, JobType, pageVars
  <2> QED BY <2>1 DEF PollsEnabled
<1>9. CASE Mx4sioSecondProbe \/ UsbSecondProbe
  <2>1. UNCHANGED <<enabled, queue>> /\ job'.pc \in {"idle", "usb"}
    BY <1>9 DEF Mx4sioSecondProbe, UsbSecondProbe, Goto, Idle, JobType, pageVars
  <2> QED BY <2>1 DEF PollsEnabled
<1>10. ASSUME NEW s \in Slots, NeedsUpdateGate(s) PROVE PollsEnabled'
  <2>1. UNCHANGED enabled /\ queue # <<>> /\ Head(queue) = Poll(s)
    BY <1>10 DEF NeedsUpdateGate, Takes
  <2>2. queue \notin Seq({Load})
    <3> SUFFICES ASSUME queue \in Seq({Load}) PROVE FALSE
      OBVIOUS
    <3>1. Head(queue) = Load
      BY <2>1
    <3>2. Poll(s).what = "poll" /\ Load.what = "load"
      BY DEF Poll, Load
    <3> QED BY <2>1, <3>1, <3>2
  <2> QED BY <1>2, <2>1, <2>2 DEF PollsEnabled
<1>11. ASSUME job.pc \notin {"idle", "sdc", "usb"}, UNCHANGED enabled PROVE PollsEnabled'
  BY <1>2, <1>11 DEF PollsEnabled
<1>12. ASSUME NEW taken \in BOOLEAN, NeedsUpdateLoad(taken) PROVE PollsEnabled'
  BY <1>11, <1>12 DEF NeedsUpdateLoad, pageVars
<1>13. CASE Restore \/ Connect \/ Missed \/ NoChange
  BY <1>11, <1>13 DEF Restore, Connect, Missed, NoChange
<1>14. CASE NoIdentity \/ Publish \/ Unchanged \/ CreateFolders
  BY <1>11, <1>14 DEF NoIdentity, Publish, Unchanged, CreateFolders, pageVars
<1>15. CASE NothingToUpdate \/ clearMenuGameList \/ CommitView \/ AppendRows
  BY <1>11, <1>15
     DEF NothingToUpdate, clearMenuGameList, CommitView, AppendRows, pageVars
<1>16. ASSUME NEW ok \in BOOLEAN, bdmUpdateGameList(ok) PROVE PollsEnabled'
  BY <1>11, <1>16 DEF bdmUpdateGameList
<1>17. CASE UNCHANGED vars
  BY <1>1, <1>17 DEF vars, pageVars
<1> QED BY <1>3, <1>4, <1>5, <1>6, <1>7, <1>8, <1>9, <1>10, <1>12, <1>13, <1>14,
           <1>15, <1>16, <1>17 DEF Next, Worker, Gui, PageOps, Ticks

\* The page of the poll's slot is shown by the poll alone, and what Publish let
\* through stays wanted until settings are chosen.
LEMMA GatesNext ==
  ASSUME JobType, ListType, PageType, ModeType, PollStarted, PollsEnabled, StaysAway,
         GatesPassed, [Next]_vars
  PROVE  StaysAway' /\ GatesPassed'
<1> DEFINE Kept == UNCHANGED <<on, gBDMStartMode, gui>>
<1>0. job.slot \in Slots
  BY DEF JobType
<1>1. ASSUME job'.pc \notin {"open", "identity", "same", "folders"}
      PROVE  StaysAway' /\ GatesPassed'
  BY <1>1 DEF StaysAway, GatesPassed
<1>2. ASSUME Kept, UNCHANGED <<job, visible, bdmDeviceType>>, UNCHANGED current \/ Bumped
      PROVE  StaysAway' /\ GatesPassed'
  <2>1. current'[job.slot] = current[job.slot] \/ current'[job.slot] = FALSE
    BY <1>0, <1>2 DEF Bumped
  <2>2. Withheld(bdmDeviceType[job.slot])' = Withheld(bdmDeviceType[job.slot])
    BY <1>2 DEF Withheld, bdmTransportDisabled
  <2> QED BY <1>2, <2>1, <2>2 DEF StaysAway, GatesPassed
<1>4. CASE World
  BY <1>2, <1>4 DEF World, Mount, Unmount, Identified, setVars, pageVars, genVars
<1>5. CASE guiShowDeviceConfig
  <2>1. UNCHANGED <<job, visible, bdmDeviceType, current>>
    BY <1>5 DEF guiShowDeviceConfig, pageVars, genVars
  <2>2. CASE gui' = "sources"
    BY <2>1, <2>2 DEF StaysAway, GatesPassed
  <2>3. CASE gui = "menu" /\ UNCHANGED <<on, gBDMStartMode>>
    <3>1. Withheld(bdmDeviceType[job.slot])' = Withheld(bdmDeviceType[job.slot])
      BY <2>1, <2>3 DEF Withheld, bdmTransportDisabled
    <3> QED BY <2>1, <2>3, <3>1 DEF StaysAway, GatesPassed
  <2> QED BY <1>5, <2>2, <2>3 DEF guiShowDeviceConfig
<1>6. CASE applyConfig
  <2>1. UNCHANGED job
    BY <1>6 DEF applyConfig
  <2>2. CASE job.pc \in Deciding
    <3>1. current'[job.slot] = FALSE
      BY <1>6, <2>2, AppliedMoves
    <3>2. visible'[job.slot] = FALSE
      <4>1. bdmDeviceModeStarted = TRUE
        BY <2>2 DEF PollStarted
      <4>2. visible'[job.slot] = (/\ bdmEffectiveStartMode = "manual"
                                  /\ ~(\/ bdmEffectiveStartMode = "auto"
                                       \/ (bdmEffectiveStartMode = "manual" /\ bdmDeviceModeStarted))
                                  /\ job.slot = 0)
        BY <1>0, <1>6 DEF applyConfig
      <4> QED BY <4>1, <4>2, Zenon
    <3> QED BY <2>1, <3>1, <3>2 DEF StaysAway, GatesPassed
  <2>3. CASE job.pc \notin Deciding
    BY <1>1, <2>1, <2>3 DEF Deciding
  <2> QED BY <2>2, <2>3
<1>7. CASE itemInitSupport
  <2>1. UNCHANGED job /\ ~enabled[0]
    BY <1>7 DEF itemInitSupport
  <2>2. job.pc \in {"idle", "sdc", "usb"}
    BY <2>1 DEF PollsEnabled
  <2> QED BY <1>1, <2>1, <2>2
<1>8. CASE PageOps \/ Ticks
  BY <1>2, <1>8
     DEF PageOps, Ticks, itemExecRefresh, folderDescend, itemExecToggleView,
         bdmDeleteGame, Asks, menuUpdateHook, setVars, pageVars, genVars
<1>9. CASE bdmLoadBlockDeviceModules \/ Mx4sioSecondProbe \/ UsbSecondProbe
  BY <1>1, <1>9 DEF bdmLoadBlockDeviceModules, Mx4sioSecondProbe, UsbSecondProbe,
     Goto, Idle, JobType
<1>10. ASSUME NEW s \in Slots, NeedsUpdateGate(s) PROVE StaysAway' /\ GatesPassed'
  BY <1>1, <1>10 DEF NeedsUpdateGate, Idle
<1>11. ASSUME NEW taken \in BOOLEAN, NeedsUpdateLoad(taken)
       PROVE  StaysAway' /\ GatesPassed'
  <2>1. /\ job'.pc \in {"same", "open"} /\ job'.slot = job.slot
        /\ job'.vis = visible[job.slot] /\ UNCHANGED visible
    BY <1>11 DEF NeedsUpdateLoad, JobType, pageVars
  <2> QED BY <2>1 DEF StaysAway, GatesPassed
<1>12. CASE Restore
  <2>1. job'.pc = "same" /\ job'.vis = TRUE
    BY <1>12 DEF Restore, JobType
  <2> QED BY <2>1 DEF StaysAway, GatesPassed
<1>13. CASE Connect \/ NoChange \/ NoIdentity
  <2>1. /\ job.pc \in {"open", "identity"} /\ job'.pc \in {"same", "identity"}
        /\ job'.vis = job.vis /\ job'.slot = job.slot /\ UNCHANGED visible
    BY <1>13 DEF Connect, NoChange, NoIdentity, Goto, JobType, pageVars
  <2> QED BY <2>1 DEF StaysAway, GatesPassed
<1>14. CASE Missed
  <2>1. job.vis = TRUE
    BY <1>14 DEF Missed, JobType
  <2>2. job'.pc = "clear" \/ (job'.pc = "same" /\ job'.vis = job.vis)
    BY <1>14 DEF Missed, Goto, Decided, JobType
  <2> QED BY <2>1, <2>2 DEF StaysAway, GatesPassed
<1>15. CASE Publish
  <2>1. /\ job.pc = "identity" /\ job'.vis = job.vis /\ job'.slot = job.slot /\ Kept
        /\ job'.pc = IF Withheld(TypeOf[mounted[job.slot]]) THEN "same" ELSE "folders"
    BY <1>15 DEF Publish, Goto, JobType, setVars
  <2>2. /\ visible'[job.slot] = (visible[job.slot] \/ ~Withheld(TypeOf[mounted[job.slot]]))
        /\ bdmDeviceType'[job.slot] = TypeOf[mounted[job.slot]]
    BY <1>0, <1>15 DEF Publish, PageType
  <2>3. CASE Withheld(TypeOf[mounted[job.slot]])
    <3>1. visible[job.slot] \in BOOLEAN
      BY <1>0 DEF PageType
    <3>2. visible[job.slot] = FALSE => visible'[job.slot] = FALSE
      BY <2>2, <2>3, <3>1, Zenon
    <3> QED BY <2>1, <2>3, <3>2 DEF StaysAway, GatesPassed
  <2>4. CASE ~Withheld(TypeOf[mounted[job.slot]])
    <3>1. Withheld(bdmDeviceType[job.slot])' = Withheld(TypeOf[mounted[job.slot]])
      BY <2>1, <2>2 DEF Withheld, bdmTransportDisabled
    <3> QED BY <2>1, <2>4, <3>1 DEF StaysAway, GatesPassed
  <2> QED BY <2>3, <2>4
<1>16. CASE Unchanged
  <2>1. job.pc = "same"
    BY <1>16 DEF Unchanged
  <2>2. CASE FallsThrough(job.slot)
    <3>1. job.vis = TRUE
      BY <1>0, <2>1, <2>2 DEF FallsThrough, StaysAway, PageType, JobType
    <3>2. job'.pc = "folders" /\ job'.vis = TRUE
      BY <1>16, <2>2, <3>1 DEF Unchanged, Goto, JobType
    <3> QED BY <3>2 DEF StaysAway, GatesPassed
  <2>3. CASE ~FallsThrough(job.slot)
    <3>1. job'.pc = "done"
      BY <1>16, <2>3 DEF Unchanged, Decided, JobType
    <3> QED BY <1>1, <3>1
  <2> QED BY <2>2, <2>3
<1>17. CASE CreateFolders \/ NothingToUpdate \/ AppendRows \/ clearMenuGameList \/ CommitView
  <2>1. CASE CreateFolders \/ clearMenuGameList \/ CommitView
    BY <1>1, <2>1
       DEF CreateFolders, clearMenuGameList, CommitView, Goto, Decided, JobType
  <2>2. CASE NothingToUpdate \/ AppendRows
    BY <1>1, <2>2 DEF NothingToUpdate, AppendRows, Idle
  <2> QED BY <1>17, <2>1, <2>2
<1>18. ASSUME NEW ok \in BOOLEAN, bdmUpdateGameList(ok) PROVE StaysAway' /\ GatesPassed'
  BY <1>1, <1>18 DEF bdmUpdateGameList, Goto, JobType
<1>19. CASE UNCHANGED vars
  BY <1>2, <1>19 DEF vars, setVars, pageVars, genVars
<1> QED BY <1>4, <1>5, <1>6, <1>7, <1>8, <1>9, <1>10, <1>11, <1>12, <1>13, <1>14,
           <1>15, <1>16, <1>17, <1>18, <1>19 DEF Next, Worker, Gui, PageOps, Ticks

----------------------------------------------------------------------------

\* The inductive invariant of the pages.
THEOREM InductiveInvariant == Spec => []IInv
<1>1. IInv /\ [Next]_vars => IInv'
  BY JobTypeNext, ListTypeNext, PageTypeNext, ModeTypeNext, RowsNext, PollNext,
     EnabledNext, GatesNext DEF IInv
<1> QED BY <1>1, InitIInv, PTL DEF Spec

\* For every number of slots and devices, and wherever L3 falls between the steps
\* of updateMenuFromGameList, a row belongs to the view under which it is read.
THEOREM RowsBelongToView == Spec => []RowsMatchView
<1>1. IInv => RowsMatchView
  BY DEF IInv
<1> QED BY <1>1, InductiveInvariant, PTL

\* bdmNeedsUpdate makes folders only on a device that has an identity, whose page
\* is shown and whose transport the user has on, unless that changed while the
\* poll was running or the page was shown without the gates of Publish.
THEOREM FoldersOnlyWhereShown == Spec => WithheldUntouched
<1> DEFINE Allowed(s) == /\ bdmDeviceType[s] # None
                         /\ visible[s] \/ ~current[s]
                         /\ \/ ~Withheld(bdmDeviceType[s]) \/ job.vis
                            \/ gui = "sources" \/ ~current[s]
           Untouched == \A s \in Slots : FoldersCreated'[s] /\ ~FoldersCreated[s]
                          => Allowed(s)
<1>1. IInv /\ [Next]_vars => [Untouched]_vars
  <2> SUFFICES ASSUME IInv, Next PROVE Untouched
    OBVIOUS
  <2>0. JobType /\ PageType /\ FoldersWanted /\ GatesPassed
    BY DEF IInv
  <2>2. ASSUME UNCHANGED FoldersCreated PROVE Untouched
    BY <2>2
  <2>3. CASE CreateFolders
    <3>1. \A s \in Slots : s # job.slot => FoldersCreated'[s] = FoldersCreated[s]
      BY <2>0, <2>3 DEF CreateFolders, PageType
    <3>2. job.pc = "folders"
      BY <2>3 DEF CreateFolders
    <3>3. Allowed(job.slot)
      BY <2>0, <3>2 DEF FoldersWanted, GatesPassed
    <3> QED BY <3>1, <3>3
  <2>4. CASE World \/ guiShowDeviceConfig \/ PageOps \/ Ticks
    BY <2>2, <2>4
       DEF World, Mount, Unmount, Identified, guiShowDeviceConfig, PageOps, Ticks,
           itemExecRefresh, folderDescend, itemExecToggleView, bdmDeleteGame, Asks,
           menuUpdateHook, pageVars
  <2>5. CASE applyConfig \/ itemInitSupport
    <3>1. PICK S : bdmInit(S)
      BY <2>5 DEF applyConfig, itemInitSupport
    <3> QED BY <3>1, Zenon DEF bdmInit
  <2>6. CASE Missed
    <3>1. job.slot \in Slots
      BY <2>0 DEF JobType
    <3>2. ASSUME NEW s \in Slots, FoldersCreated'[s] PROVE FoldersCreated[s]
      <4>1. CASE s # job.slot
        BY <2>0, <2>6, <3>2, <4>1 DEF Missed, PageType
      <4>2. CASE s = job.slot
        <5>1. FoldersCreated'[s] = (FoldersCreated[s] /\ ~Gone(s))
          BY <2>0, <2>6, <3>1, <4>2 DEF Missed, PageType
        <5> QED BY <3>2, <5>1, Zenon
      <4> QED BY <4>1, <4>2
    <3> QED BY <3>2
  <2>7. CASE Publish
    <3>1. \A s \in Slots : FoldersCreated'[s] = FoldersCreated[s] \/ FoldersCreated'[s] = FALSE
      BY <2>0, <2>7 DEF Publish, PageType, JobType
    <3> QED BY <3>1, Zenon
  <2>8. CASE \/ bdmLoadBlockDeviceModules \/ Mx4sioSecondProbe \/ UsbSecondProbe
             \/ (\E s \in Slots : NeedsUpdateGate(s))
             \/ (\E taken \in BOOLEAN : NeedsUpdateLoad(taken))
             \/ Restore \/ Connect \/ NoChange \/ NoIdentity \/ Unchanged
             \/ NothingToUpdate \/ clearMenuGameList \/ CommitView
             \/ (\E ok \in BOOLEAN : bdmUpdateGameList(ok)) \/ AppendRows
    BY <2>2, <2>8 DEF bdmLoadBlockDeviceModules, Mx4sioSecondProbe, UsbSecondProbe,
       NeedsUpdateGate, NeedsUpdateLoad, Restore, Connect, NoChange, NoIdentity,
       Unchanged, NothingToUpdate, clearMenuGameList, CommitView, bdmUpdateGameList,
       AppendRows, pageVars
  <2> QED BY <2>3, <2>4, <2>5, <2>6, <2>7, <2>8 DEF Next, Worker, Gui, PageOps, Ticks
<1> QED BY <1>1, InductiveInvariant, PTL DEF Spec, WithheldUntouched
=============================================================================
