-------------------------------- MODULE Bdm --------------------------------
(***************************************************************************)
(* The pages of hot-plugged block devices (src/src/bdmsupport.c, and the   *)
(* deferred menu updates of src/src/opl.c and src/src/libview.c).          *)
(*                                                                         *)
(* There is a page for every massN: slot.  BdmGeneration counts what may   *)
(* have changed the devices: the SIF interrupt of a mount or unmount,      *)
(* settings that were applied, a driver that came late.  The GUI thread's  *)
(* menuUpdateHook asks the I/O worker to poll the slots when the           *)
(* generation moved or the user is idle; the worker's poll opens the slot, *)
(* shows or hides the page, creates folders and rebuilds the list.  The    *)
(* GUI thread is above the worker: it runs between any two steps of a      *)
(* poll, which waits for the IOP in several places.                        *)
(*                                                                         *)
(* The generation is only ever compared with copies of itself, so the      *)
(* model keeps which copies are equal to it and no number.  The file       *)
(* dates are left out: wherever they are looked at the list is read anyway *)
(* (a connect, or a first scan whose size is -2).                          *)
(***************************************************************************)
EXTENDS Naturals, Sequences, FiniteSets

CONSTANTS
  NSlots,        \* MAX_BDM_DEVICES
  Devices,       \* what can be plugged in
  TypeOf,        \* device -> its transport
  Home,          \* device -> the slots it may be mounted in
  Settings,      \* what the user may choose: [mode, on]
  gAutoRefresh,
  NicTaken,      \* ethGetModulesLoaded() || udpfsGetModulesLoaded()
  NetHideMisses, \* BDM_NET_HIDE_MISSES
  MaxDialogs,    \* bound: dialogs of settings in a behaviour
  MaxPresses     \* bound: operations on a page in a behaviour

Types   == {"usb", "ilink", "sdc", "ata", "udp"}
Modes   == {"off", "manual", "auto"}
NoDev   == "nodev"
None    == "none"           \* no identity yet: bdmPrefix and bdmDriver empty
Unknown == "unknown"        \* BDM_TYPE_UNKNOWN
Slots   == 0..(NSlots - 1)

ASSUME SlotsAssumption  == NSlots \in Nat \ {0} /\ NetHideMisses \in Nat \ {0}
ASSUME BoundsAssumption == MaxDialogs \in Nat /\ MaxPresses \in Nat
ASSUME DevicesAssumption ==
  /\ NoDev \notin Devices
  /\ TypeOf \in [Devices -> Types \cup {Unknown}]
  /\ Home \in [Devices -> SUBSET Slots]
ASSUME SettingsAssumption ==
  /\ Settings \subseteq [mode : Modes, on : SUBSET Types]
  /\ gAutoRefresh \in BOOLEAN /\ NicTaken \in BOOLEAN

VARIABLES
  mounted,        \* slot -> the device that answers fileXioDopen, or NoDev
  ready,          \* slot -> its driver answers the identity ioctl
  on,             \* gEnableUSB, gEnableILK, gEnableMX4SIO, gEnableBdmHDD,
                  \* gEnableUDPBD
  gBDMStartMode,
  gui,            \* "menu", or settings not yet applied: "sources" after the
                  \* Game Sources dialog, "config" after others and at boot
  loaded,         \* the transports whose modules are loaded
  moduleLoadFirstPassDone,
  usbSecondProbeDone,
  mx4sioSecondProbeDone,
  current,        \* slot -> bdmDeviceTick = BdmGeneration
  noticed,        \* lastSeenBdmGeneration = BdmGeneration
  tried,          \* lastModuleLoadGen = BdmGeneration
  ran,            \* history: a load ran since the generation moved
  bdmDeviceModeStarted,
  enabled,        \* slot -> itemInit ran
  visible,        \* slot -> menuItem.visible
  bdmDeviceType,  \* slot -> None, Unknown or a transport
  scanned,        \* slot -> bdmULSizePrev # -2
  bdmMissCount,
  bdmSeenMounted,
  FoldersCreated,
  bdmGames,       \* slot -> the device whose games are listed, or NoDev
  bdmPs1Games,
  rows,           \* slot -> the submenu: of which device, for which view
  flags,          \* slot -> ForceRefresh, libDirty, folderDirtyFlag
  view,           \* slot -> libViewActive
  pendingView,    \* slot -> the view L3 staged, or NoView
  queue,          \* of the I/O worker
  job,            \* what the worker is doing
  dialogs,
  presses,
  refused         \* history: a request for a load was refused, none ran since

worldVars == <<mounted, ready>>
setVars   == <<on, gBDMStartMode, gui>>
drvVars   == <<loaded, moduleLoadFirstPassDone, usbSecondProbeDone,
               mx4sioSecondProbeDone>>
genVars   == <<current, noticed, tried, ran>>
pageVars  == <<enabled, visible, bdmDeviceType, scanned, bdmMissCount,
               bdmSeenMounted, FoldersCreated, bdmDeviceModeStarted>>
listVars  == <<bdmGames, bdmPs1Games, rows>>
viewVars  == <<flags, view, pendingView>>
counts    == <<dialogs, presses, refused>>
vars == <<worldVars, setVars, drvVars, genVars, pageVars, listVars, viewVars,
          queue, job, counts>>

Load    == [what |-> "load"]
Poll(s) == [what |-> "poll", slot |-> s]
Idle    == [pc |-> "idle", slot |-> 0, vis |-> FALSE, transition |-> FALSE]
NoView  == "noview"
NoRows  == [dev |-> NoDev, view |-> "iso"]
Other(v) == IF v = "iso" THEN "ps1" ELSE "iso"

\* the slots of S in ascending order
InOrder(S) == CHOOSE q \in [1..Cardinality(S) -> S] :
                \A i, j \in DOMAIN q : i < j => q[i] < q[j]

----------------------------------------------------------------------------
(* Settings *)

\* A selected network transport lifts the start mode to automatic.
bdmEffectiveStartMode ==
  IF "udp" \in on /\ gBDMStartMode # "auto" THEN "auto" ELSE gBDMStartMode

\* A transport that is not classified is never hidden.
bdmTransportDisabled(t) == t \in Types \ on

\* An explicit Off is only lifted for the network transport itself.
Withheld(t) == bdmTransportDisabled(t) \/ (gBDMStartMode = "off" /\ t # "udp")

----------------------------------------------------------------------------
(* The generation *)

\* Mutant: a load is not tried again in a new generation.
BumpedKeepsTried == /\ current' = [s \in Slots |-> FALSE]
                    /\ noticed' = FALSE /\ tried' = tried /\ ran' = FALSE

Bumped == /\ current' = [s \in Slots |-> FALSE]
          /\ noticed' = FALSE /\ tried' = FALSE /\ ran' = FALSE

----------------------------------------------------------------------------
Init ==
  /\ mounted = [s \in Slots |-> NoDev] /\ ready = [s \in Slots |-> FALSE]
  /\ \E c \in Settings : on = c.on /\ gBDMStartMode = c.mode
  /\ gui = "config"
  /\ loaded = {} /\ moduleLoadFirstPassDone = FALSE
  /\ usbSecondProbeDone = FALSE /\ mx4sioSecondProbeDone = FALSE
  /\ current = [s \in Slots |-> TRUE]
  /\ noticed = TRUE /\ tried = FALSE /\ ran = FALSE
  /\ bdmDeviceModeStarted = FALSE
  /\ enabled = [s \in Slots |-> FALSE] /\ visible = [s \in Slots |-> FALSE]
  /\ bdmDeviceType = [s \in Slots |-> None]
  /\ scanned = [s \in Slots |-> TRUE]
  /\ bdmMissCount = [s \in Slots |-> 0]
  /\ bdmSeenMounted = [s \in Slots |-> FALSE]
  /\ FoldersCreated = [s \in Slots |-> FALSE]
  /\ bdmGames = [s \in Slots |-> NoDev] /\ bdmPs1Games = [s \in Slots |-> NoDev]
  /\ rows = [s \in Slots |-> NoRows]
  /\ flags = [s \in Slots |-> {}]
  /\ view = [s \in Slots |-> "iso"] /\ pendingView = [s \in Slots |-> NoView]
  /\ queue = <<>> /\ job = Idle /\ dialogs = 0 /\ presses = 0
  /\ refused = FALSE

----------------------------------------------------------------------------
(* The devices: external, seen through massN: and the events of bdmevent,   *)
(* which bdmEventHandler takes from an interrupt at once.                  *)

Mount(d) ==
  /\ TypeOf[d] \in loaded \cup {Unknown}
  /\ \A s \in Slots : mounted[s] # d
  /\ \E s \in Home[d] : /\ mounted[s] = NoDev
                        /\ mounted' = [mounted EXCEPT ![s] = d]
                        /\ ready' = [ready EXCEPT ![s] = FALSE]
  /\ Bumped
  /\ UNCHANGED <<setVars, drvVars, pageVars, listVars, viewVars, queue, job,
                 counts>>

Unmount(s) ==
  /\ mounted[s] # NoDev
  /\ mounted' = [mounted EXCEPT ![s] = NoDev]
  /\ ready' = [ready EXCEPT ![s] = FALSE]
  /\ Bumped
  /\ UNCHANGED <<setVars, drvVars, pageVars, listVars, viewVars, queue, job,
                 counts>>

\* The driver of a mounted device begins to answer the identity ioctl.
Identified(s) ==
  /\ mounted[s] # NoDev /\ ~ready[s]
  /\ ready' = [ready EXCEPT ![s] = TRUE]
  /\ UNCHANGED <<mounted, setVars, drvVars, genVars, pageVars,
                 listVars, viewVars, queue, job, counts>>

----------------------------------------------------------------------------
(* GUI thread: settings *)

\* bdmInit of the slots S, and the requests it and initSupport put in: a load
\* for each slot, and its first poll.
Requests(S, polls) ==
  LET q == InOrder(S)
  IN  IF polls
      THEN [i \in 1..(2 * Len(q)) |->
              IF i % 2 = 1 THEN Load ELSE Poll(q[i \div 2])]
      ELSE [i \in 1..Len(q) |-> Load]

bdmInit(S) ==
  /\ enabled' = [s \in Slots |-> enabled[s] \/ s \in S]
  /\ scanned' = [s \in Slots |-> scanned[s] /\ s \notin S]
  /\ FoldersCreated' = [s \in Slots |-> FoldersCreated[s] /\ s \notin S]
  /\ bdmDeviceType' = [s \in Slots |-> IF s \in S /\ bdmDeviceType[s] # None
                                        THEN Unknown ELSE bdmDeviceType[s]]
  /\ bdmGames' = [s \in Slots |-> IF s \in S THEN NoDev ELSE bdmGames[s]]
  /\ bdmPs1Games' = [s \in Slots |-> IF s \in S THEN NoDev ELSE bdmPs1Games[s]]

\* bdmLoadCoreModules loads the USB driver at once, and may fail.
LoadCore(S) ==
  loaded' \in {loaded} \cup
              (IF S # {} /\ "usb" \in on THEN {loaded \cup {"usb"}} ELSE {})

\* The user leaves a dialog of settings.  The flags of Game Sources change at
\* once, and are applied after the dialog's messages.
guiShowDeviceConfig ==
  /\ gui = "menu" /\ dialogs < MaxDialogs /\ dialogs' = dialogs + 1
  /\ \/ /\ gui' = "sources"
        /\ \E c \in Settings : on' = c.on /\ gBDMStartMode' = c.mode
     \/ /\ gui' = "config"
        /\ UNCHANGED <<on, gBDMStartMode>>
  /\ UNCHANGED <<worldVars, drvVars, genVars, pageVars, listVars, viewVars,
                 queue, job, presses, refused>>

\* bdmForceDeviceRefresh after Game Sources, then applyConfig:
\* bdmInitDevicesData resets the pages, bdmEnumerateDevices asks for the
\* modules.  The same calls bring the pages up at boot.
applyConfig ==
  LET m == bdmEffectiveStartMode
      S == {s \in Slots : m = "auto" /\ ~enabled[s]}
      again == m = "auto" \/ (m = "manual" /\ bdmDeviceModeStarted)
  IN  /\ gui # "menu" /\ gui' = "menu"
      /\ \/ gui = "sources" /\ Bumped
         \/ /\ gui = "config"
            /\ current' = [s \in Slots |-> current[s] /\ ~again]
            /\ UNCHANGED <<noticed, tried, ran>>
      /\ bdmInit(S) /\ LoadCore(S)
      /\ visible' = [s \in Slots |-> m = "manual" /\ ~again /\ s = 0]
      /\ queue' = queue \o Requests(S, TRUE) \o <<Load>>
      /\ UNCHANGED <<worldVars, on, gBDMStartMode, moduleLoadFirstPassDone,
                     usbSecondProbeDone, mx4sioSecondProbeDone, bdmMissCount,
                     bdmSeenMounted, bdmDeviceModeStarted, rows, viewVars, job,
                     counts>>

\* Manual start: entering the placeholder page brings up every slot.
itemInitSupport ==
  /\ gui = "menu" /\ visible[0] /\ ~enabled[0]
  /\ bdmInit(Slots) /\ LoadCore(Slots)
  /\ queue' = queue \o Requests(Slots, ~gAutoRefresh)
  /\ UNCHANGED <<worldVars, setVars, moduleLoadFirstPassDone,
                 usbSecondProbeDone, mx4sioSecondProbeDone, genVars, visible,
                 bdmMissCount, bdmSeenMounted, bdmDeviceModeStarted, rows,
                 viewVars, job, counts>>

----------------------------------------------------------------------------
(* GUI thread: the page the user is on *)

\* Every operation asks for a poll and leaves the flag its poll consumes.
Asks(s, f) ==
  /\ gui = "menu" /\ visible[s] /\ enabled[s] /\ presses < MaxPresses
  /\ presses' = presses + 1
  /\ queue' = Append(queue, Poll(s))
  /\ flags' = [flags EXCEPT ![s] = @ \cup {f}]
  /\ UNCHANGED <<worldVars, setVars, drvVars, genVars, listVars, view, job,
                 dialogs, refused>>

itemExecRefresh(s) ==
  /\ Asks(s, "view") /\ UNCHANGED <<pageVars, pendingView>>

\* into a folder or out of it
folderDescend(s) ==
  /\ view[s] = "iso" /\ rows[s].dev # NoDev
  /\ Asks(s, "folder") /\ UNCHANGED <<pageVars, pendingView>>

\* L3: the other view is staged; the worker switches to it.
itemExecToggleView(s) ==
  /\ pendingView[s] = NoView
  /\ Asks(s, "view")
  /\ pendingView' = [pendingView EXCEPT ![s] = Other(view[s])]
  /\ UNCHANGED pageVars

\* Deleting or renaming a game.
bdmDeleteGame(s) ==
  /\ view[s] = "iso" /\ rows[s].dev # NoDev /\ bdmGames[s] # NoDev
  /\ Asks(s, "force")
  /\ scanned' = [scanned EXCEPT ![s] = FALSE]
  /\ UNCHANGED <<enabled, visible, bdmDeviceType, bdmMissCount, bdmSeenMounted,
                 FoldersCreated, bdmDeviceModeStarted, pendingView>>

----------------------------------------------------------------------------
(* GUI thread: the frame hook *)

\* The slots a tick of the hook polls: all of them when the generation moved;
\* else, with the user idle, those that ever held a device, and every so
\* often the others.
Due(idle, eighth) ==
  {s \in Slots : enabled[s] /\ (~noticed \/ (idle /\ (bdmSeenMounted[s] \/ eighth)))}

\* A tick with an empty queue.  Requests may be refused (no memory), and a
\* slot polled less than two seconds ago is left out: S is what is put in.
\* The generation is consumed only when nothing was refused.
menuUpdateHook(idle, eighth, S) ==
  /\ gui = "menu" /\ queue = <<>> /\ job = Idle
  /\ S \subseteq Due(idle, eighth) /\ (noticed => S # {})
  /\ queue' = [i \in 1..Cardinality(S) |-> Poll(InOrder(S)[i])]
  /\ noticed' = (noticed \/ S = Due(idle, eighth))
  /\ UNCHANGED <<worldVars, setVars, drvVars, current, tried, ran, pageVars,
                 listVars, viewVars, job, counts>>

----------------------------------------------------------------------------
(* I/O worker: bdmLoadBlockDeviceModules *)

Goto(label) == job' = [job EXCEPT !.pc = label]

\* The poll has no more use for the visibility it read.
Decided(label) == job' = [job EXCEPT !.pc = label, !.vis = FALSE]

\* the worker takes the request r
Takes(r) == job = Idle /\ queue # <<>> /\ Head(queue) = r /\ queue' = Tail(queue)

\* The selected transports that are not loaded.  The network one waits for ever
\* if another stack has the network adapter.
Loadable == {t \in on \ loaded : t = "udp" => ~NicTaken}

\* Each enabled transport loads or fails.  A driver that came after the first
\* pass moves the generation.
bdmLoadBlockDeviceModules ==
  /\ Takes(Load) /\ Goto("sdc")
  /\ loaded' \in {loaded \cup L : L \in SUBSET Loadable}
  /\ moduleLoadFirstPassDone' = TRUE
  /\ IF loaded' # loaded /\ moduleLoadFirstPassDone
     THEN Bumped
     ELSE ran' = TRUE /\ UNCHANGED <<current, noticed, tried>>
  /\ refused' = FALSE
  /\ UNCHANGED <<worldVars, setVars, usbSecondProbeDone, mx4sioSecondProbeDone,
                 pageVars, listVars, viewVars, dialogs, presses>>

\* One second look, after a delay, for a card that was not found at once.
Mx4sioSecondProbe ==
  LET asks  == "sdc" \in on \cap loaded /\ ~mx4sioSecondProbeDone
      found == \E s \in Slots : /\ mounted[s] # NoDev /\ ready[s]
                                /\ TypeOf[mounted[s]] = "sdc"
  IN  /\ job.pc = "sdc" /\ Goto("usb")
      /\ mx4sioSecondProbeDone' = ("sdc" \in on /\ (mx4sioSecondProbeDone \/ asks))
      /\ IF asks /\ ~found THEN Bumped ELSE UNCHANGED genVars
      /\ UNCHANGED <<worldVars, setVars, loaded, moduleLoadFirstPassDone,
                     usbSecondProbeDone, pageVars, listVars, viewVars, queue,
                     counts>>

\* One second look for the sticks, whatever was found.
UsbSecondProbe ==
  LET asks == "usb" \in loaded /\ ~usbSecondProbeDone
  IN  /\ job.pc = "usb" /\ job' = Idle
      /\ usbSecondProbeDone' = (usbSecondProbeDone \/ asks)
      /\ IF asks THEN Bumped ELSE UNCHANGED genVars
      /\ UNCHANGED <<worldVars, setVars, loaded, moduleLoadFirstPassDone,
                     mx4sioSecondProbeDone, pageVars, listVars, viewVars, queue,
                     counts>>

----------------------------------------------------------------------------
(* I/O worker: menuDeferredUpdate of a slot, bdmNeedsUpdate *)

bdmShouldQueueModuleLoad == "usb" \notin loaded \/ Loadable \ {"usb"} # {}

\* Mutant: a page waiting to be hidden is not looked at again.
SettledOnceScanned(s, shown) == current[s] /\ scanned[s]

\* A slot already looked at in this generation is left alone once it has been
\* scanned, unless its page is waiting to be hidden.
Settled(s, shown) ==
  current[s] /\ scanned[s] /\ (~shown \/ bdmMissCount[s] = 0)

\* The first of the flags that is set makes the poll rebuild the list.
FirstFlag(s) ==
  IF "force" \in flags[s] THEN "force"
  ELSE IF "view" \in flags[s] THEN "view" ELSE "folder"

NeedsUpdateGate(s) ==
  LET off   == bdmEffectiveStartMode = "off"
      shown == visible[s] /\ ~bdmTransportDisabled(bdmDeviceType[s])
      checks == ~off /\ "force" \notin flags[s]
      Start(label) == job' = [Idle EXCEPT !.pc = label, !.slot = s]
  IN  /\ Takes(Poll(s))
      /\ bdmDeviceModeStarted' = TRUE
      /\ visible' = [visible EXCEPT ![s] = IF checks THEN shown ELSE @]
      /\ \/ /\ off /\ Start("done")
            /\ UNCHANGED <<flags, current>>
         \/ /\ ~off /\ flags[s] # {}
            /\ flags' = [flags EXCEPT ![s] = @ \ {FirstFlag(s)}]
            /\ Start("clear") /\ UNCHANGED current
         \/ /\ ~off /\ flags[s] = {} /\ Settled(s, shown)
            /\ Start("done") /\ UNCHANGED <<flags, current>>
         \/ /\ ~off /\ flags[s] = {} /\ ~Settled(s, shown)
            /\ current' = [current EXCEPT ![s] = TRUE]
            /\ Start("ask") /\ UNCHANGED flags
      /\ UNCHANGED <<worldVars, setVars, drvVars, noticed, tried, ran, enabled,
                     bdmDeviceType, scanned, bdmMissCount, bdmSeenMounted,
                     FoldersCreated, listVars, view, pendingView, counts>>

\* One load of the missing modules in each generation, if its request is taken
\* (bound: one refusal before a load runs); then bdmUpdateDeviceData notes
\* whether the page is shown and opens the slot.
NeedsUpdateLoad(taken) ==
  LET asks == bdmShouldQueueModuleLoad /\ ~tried
  IN  /\ job.pc = "ask" /\ (taken \/ (asks /\ ~refused))
      /\ queue' = IF asks /\ taken THEN Append(queue, Load) ELSE queue
      /\ tried' = (tried \/ (asks /\ taken))
      /\ refused' = (refused \/ ~taken)
      /\ job' = [job EXCEPT !.pc = IF bdmEffectiveStartMode = "off" THEN "same" ELSE "open",
                            !.vis = visible[job.slot]]
      /\ UNCHANGED <<worldVars, setVars, drvVars, current, noticed, ran, pageVars,
                     listVars, viewVars, dialogs, presses>>

----------------------------------------------------------------------------
(* I/O worker: bdmUpdateDeviceData.  A result of 0 goes on at "same", 1 at   *)
(* "folders", and -1 rebuilds the list.                                    *)

HideMisses(s) == IF bdmDeviceType[s] = "udp" THEN NetHideMisses ELSE 2

HasIdentity(s) == bdmDeviceType[s] \notin {None, Unknown}

\* The root answered: the slot has held a device.
Answered(s) ==
  /\ bdmMissCount' = [bdmMissCount EXCEPT ![s] = 0]
  /\ bdmSeenMounted' = [bdmSeenMounted EXCEPT ![s] = TRUE]

\* A device that is back: the page is restored, and nothing is read.
Restore ==
  LET s == job.slot
  IN  /\ job.pc = "open" /\ mounted[s] # NoDev
      /\ ~job.vis /\ HasIdentity(s) /\ scanned[s]
      /\ Answered(s)
      /\ visible' = [visible EXCEPT ![s] = TRUE]
      /\ job' = [job EXCEPT !.pc = "same", !.vis = TRUE]
      /\ UNCHANGED <<worldVars, setVars, drvVars, genVars, enabled, bdmDeviceType,
                     scanned, FoldersCreated, bdmDeviceModeStarted, listVars,
                     viewVars, queue, counts>>

\* A device that is new to the page: its identity is asked for.
Connect ==
  LET s == job.slot
  IN  /\ job.pc = "open" /\ mounted[s] # NoDev
      /\ ~job.vis \/ ~HasIdentity(s)
      /\ job.vis \/ ~(HasIdentity(s) /\ scanned[s])
      /\ Answered(s)
      /\ Goto("identity")
      /\ UNCHANGED <<worldVars, setVars, drvVars, genVars, enabled, visible,
                     bdmDeviceType, scanned, FoldersCreated,
                     bdmDeviceModeStarted, listVars, viewVars, queue, counts>>

Gone(s) == bdmMissCount[s] + 1 >= HideMisses(s)

\* A shown page whose device does not answer is hidden after several polls.
Missed ==
  LET s == job.slot
      gone == Gone(s)
  IN  /\ job.pc = "open" /\ mounted[s] = NoDev /\ job.vis
      /\ bdmMissCount' = [bdmMissCount EXCEPT ![s] = IF gone THEN 0 ELSE @ + 1]
      /\ visible' = [visible EXCEPT ![s] = @ /\ ~gone]
      /\ FoldersCreated' = [FoldersCreated EXCEPT ![s] = @ /\ ~gone]
      /\ IF gone THEN Decided("clear") ELSE Goto("same")
      /\ UNCHANGED <<worldVars, setVars, drvVars, genVars, enabled, bdmDeviceType,
                     scanned, bdmSeenMounted, bdmDeviceModeStarted, listVars,
                     viewVars, queue, counts>>

NoChange ==
  LET s == job.slot
  IN  /\ job.pc = "open"
      /\ \/ mounted[s] # NoDev /\ job.vis /\ HasIdentity(s) /\ Answered(s)
         \/ mounted[s] = NoDev /\ ~job.vis /\ UNCHANGED <<bdmMissCount, bdmSeenMounted>>
      /\ Goto("same")
      /\ UNCHANGED <<worldVars, setVars, drvVars, genVars, enabled, visible,
                     bdmDeviceType, scanned, FoldersCreated,
                     bdmDeviceModeStarted, listVars, viewVars, queue, counts>>

\* The driver does not answer yet: the page is left for a later poll.
NoIdentity ==
  LET s == job.slot
  IN  /\ job.pc = "identity" /\ ~(mounted[s] # NoDev /\ ready[s])
      /\ Goto("same")
      /\ UNCHANGED <<worldVars, setVars, drvVars, genVars, pageVars, listVars,
                     viewVars, queue, counts>>

\* The identity is taken; the page is shown unless the user has turned the
\* transport off.
Publish ==
  LET s == job.slot
      t == TypeOf[mounted[s]]
  IN  /\ job.pc = "identity" /\ mounted[s] # NoDev /\ ready[s]
      /\ bdmDeviceType' = [bdmDeviceType EXCEPT ![s] = t]
      /\ FoldersCreated' = [FoldersCreated EXCEPT ![s] = FALSE]
      /\ visible' = [visible EXCEPT ![s] = @ \/ ~Withheld(t)]
      /\ Goto(IF Withheld(t) THEN "same" ELSE "folders")
      /\ UNCHANGED <<worldVars, setVars, drvVars, genVars, enabled, scanned,
                     bdmMissCount, bdmSeenMounted, bdmDeviceModeStarted,
                     listVars, viewVars, queue, counts>>

\* Mutant: every device never scanned falls through, shown or not.
FallsThroughAlways(s) == ~scanned[s]

\* Mutant: a poll without a change never falls through.
FallsThroughNever(s) == FALSE

\* No change: a page that is shown and was never scanned is scanned now.
FallsThrough(s) == ~scanned[s] /\ bdmDeviceType[s] # None /\ visible[s]

Unchanged ==
  /\ job.pc = "same"
  /\ IF FallsThrough(job.slot) THEN Goto("folders") ELSE Decided("done")
  /\ UNCHANGED <<worldVars, setVars, drvVars, genVars, pageVars, listVars,
                 viewVars, queue, counts>>

\* The folders are made once; the PS1 view is not read again.
CreateFolders ==
  LET s == job.slot
  IN  /\ job.pc = "folders"
      /\ FoldersCreated' = [FoldersCreated EXCEPT ![s] = @ \/ bdmDeviceType[s] # None]
      /\ Decided(IF view[s] = "ps1" THEN "done" ELSE "clear")
      /\ UNCHANGED <<worldVars, setVars, drvVars, genVars, enabled, visible,
                     bdmDeviceType, scanned, bdmMissCount, bdmSeenMounted,
                     bdmDeviceModeStarted, listVars, viewVars, queue, counts>>

----------------------------------------------------------------------------
(* I/O worker: the end of menuDeferredUpdate, and updateMenuFromGameList *)

libViewCommitPending(s) ==
  view' = [view EXCEPT ![s] = IF pendingView[s] # NoView THEN pendingView[s] ELSE @]

\* Mutant: the view staged by L3 stays pending when there is nothing to do.
RetiredKept(s) == UNCHANGED <<rows, view, pendingView>>

\* Mutant: the rows of the view that is left stay.
RetiredKeepsRows(s) ==
  /\ libViewCommitPending(s)
  /\ pendingView' = [pendingView EXCEPT ![s] = NoView]
  /\ UNCHANGED rows

\* Nothing to update: a view that is pending is switched to all the same.
Retired(s) ==
  /\ rows' = [rows EXCEPT ![s] = IF pendingView[s] # NoView THEN NoRows ELSE @]
  /\ libViewCommitPending(s)
  /\ pendingView' = [pendingView EXCEPT ![s] = NoView]

NothingToUpdate ==
  /\ job.pc = "done" /\ job' = Idle
  /\ Retired(job.slot)
  /\ UNCHANGED <<worldVars, setVars, drvVars, genVars, pageVars, bdmGames,
                 bdmPs1Games, flags, queue, counts>>

\* The rows go, and whether L3 has staged a view is noted.
clearMenuGameList ==
  LET s == job.slot
  IN  /\ job.pc = "clear"
      /\ rows' = [rows EXCEPT ![s] = NoRows]
      /\ job' = [job EXCEPT !.pc = "commit", !.transition = pendingView[s] # NoView]
      /\ UNCHANGED <<worldVars, setVars, drvVars, genVars, pageVars, bdmGames,
                     bdmPs1Games, viewVars, queue, counts>>

CommitView ==
  /\ job.pc = "commit" /\ Goto("read")
  /\ libViewCommitPending(job.slot)
  /\ UNCHANGED <<worldVars, setVars, drvVars, genVars, pageVars, listVars,
                 flags, pendingView, queue, counts>>

\* A scan that reaches the device replaces the list; one that fails leaves the
\* list, and a page that was never scanned unscanned.
sbReadList(s, ok) ==
  /\ bdmGames' = [bdmGames EXCEPT ![s] = IF ok THEN mounted[s] ELSE @]
  /\ scanned' = [scanned EXCEPT ![s] = @ \/ ok]

\* The list of the active view is read.  Without an identity the prefix is empty
\* and the PS2 scan looks in the boot folder, which holds no library.
bdmUpdateGameList(ok) ==
  LET s == job.slot
  IN  /\ job.pc = "read" /\ Goto("rows")
      /\ ok => mounted[s] # NoDev /\ (view[s] = "ps1" \/ bdmDeviceType[s] # None)
      /\ sbReadList(s, ok /\ view[s] = "iso")
      /\ bdmPs1Games' = [bdmPs1Games EXCEPT ![s] =
                          IF ok /\ view[s] = "ps1" THEN mounted[s] ELSE @]
      /\ UNCHANGED <<worldVars, setVars, drvVars, genVars, enabled, visible,
                     bdmDeviceType, bdmMissCount, bdmSeenMounted, FoldersCreated,
                     bdmDeviceModeStarted, rows, viewVars, queue, counts>>

\* The rows are built from the list of the active view.
AppendRows ==
  LET s == job.slot
  IN  /\ job.pc = "rows" /\ job' = Idle
      /\ rows' = [rows EXCEPT ![s] =
                    [view |-> view[s],
                     dev  |-> IF view[s] = "iso" THEN bdmGames[s] ELSE bdmPs1Games[s]]]
      /\ pendingView' = [pendingView EXCEPT ![s] = IF job.transition THEN NoView ELSE @]
      /\ UNCHANGED <<worldVars, setVars, drvVars, genVars, pageVars, bdmGames,
                     bdmPs1Games, flags, view, queue, counts>>

----------------------------------------------------------------------------
Worker ==
  \/ bdmLoadBlockDeviceModules \/ Mx4sioSecondProbe \/ UsbSecondProbe
  \/ (\E s \in Slots : NeedsUpdateGate(s))
  \/ (\E taken \in BOOLEAN : NeedsUpdateLoad(taken))
  \/ Restore \/ Connect \/ Missed \/ NoChange
  \/ NoIdentity \/ Publish \/ Unchanged \/ CreateFolders
  \/ NothingToUpdate
  \/ clearMenuGameList \/ CommitView
  \/ \E ok \in BOOLEAN : bdmUpdateGameList(ok)
  \/ AppendRows

Gui ==
  \/ guiShowDeviceConfig \/ applyConfig \/ itemInitSupport
  \/ \E s \in Slots : \/ itemExecRefresh(s) \/ folderDescend(s)
                      \/ itemExecToggleView(s) \/ bdmDeleteGame(s)
  \/ \E idle, eighth \in BOOLEAN, S \in SUBSET Slots : menuUpdateHook(idle, eighth, S)

World ==
  \/ \E d \in Devices : Mount(d)
  \/ \E s \in Slots : Unmount(s) \/ Identified(s)

Next == Worker \/ Gui \/ World

Spec == Init /\ [][Next]_vars

\* A tick with the user idle, at which every slot is due and nothing is refused.
FullTick == \E S \in SUBSET Slots : /\ S = Due(TRUE, TRUE)
                                    /\ menuUpdateHook(TRUE, TRUE, S)

\* The worker runs; frames are drawn, and again and again the user sits still
\* for a second at a tick; a dialog's settings are applied; a device that stays
\* mounted answers in the end; a list is not unreadable for ever.
Fairness ==
  /\ WF_vars(Worker) /\ WF_vars(applyConfig)
  /\ SF_vars(FullTick)
  /\ \A s \in Slots : WF_vars(Identified(s))
  /\ \A s \in Slots : SF_vars(job.slot = s /\ bdmUpdateGameList(TRUE))

FairSpec == Spec /\ Fairness

----------------------------------------------------------------------------
(* Properties *)

\* The types of the devices, the settings, the pages and the request queue.
TypeOK ==
  /\ mounted \in [Slots -> Devices \cup {NoDev}]
  /\ ready \in [Slots -> BOOLEAN]
  /\ on \subseteq Types /\ gBDMStartMode \in Modes
  /\ gui \in {"menu", "sources", "config"}
  /\ loaded \subseteq Types
  /\ moduleLoadFirstPassDone \in BOOLEAN /\ usbSecondProbeDone \in BOOLEAN
  /\ mx4sioSecondProbeDone \in BOOLEAN
  /\ current \in [Slots -> BOOLEAN] /\ noticed \in BOOLEAN
  /\ tried \in BOOLEAN /\ ran \in BOOLEAN /\ bdmDeviceModeStarted \in BOOLEAN
  /\ enabled \in [Slots -> BOOLEAN] /\ visible \in [Slots -> BOOLEAN]
  /\ bdmDeviceType \in [Slots -> Types \cup {None, Unknown}]
  /\ scanned \in [Slots -> BOOLEAN]
  /\ \A s \in Slots : bdmMissCount[s] \in 0..(HideMisses(s) - 1)
  /\ bdmSeenMounted \in [Slots -> BOOLEAN] /\ FoldersCreated \in [Slots -> BOOLEAN]
  /\ bdmGames \in [Slots -> Devices \cup {NoDev}]
  /\ bdmPs1Games \in [Slots -> Devices \cup {NoDev}]
  /\ rows \in [Slots -> [dev : Devices \cup {NoDev}, view : {"iso", "ps1"}]]
  /\ flags \in [Slots -> SUBSET {"force", "view", "folder"}]
  /\ view \in [Slots -> {"iso", "ps1"}]
  /\ pendingView \in [Slots -> {"iso", "ps1", NoView}]
  /\ job \in [pc : {"idle", "sdc", "usb", "ask", "open", "identity", "same",
                   "folders", "done", "clear", "commit", "read", "rows"},
              slot : Slots, vis : BOOLEAN, transition : BOOLEAN]
  /\ queue \in Seq([what : {"load"}] \cup [what : {"poll"}, slot : Slots])
  /\ dialogs \in 0..MaxDialogs /\ presses \in 0..MaxPresses
  /\ refused \in BOOLEAN

\* Every row on a page belongs to the view under which the callbacks of the
\* page read its number: L3 and the worker's rebuild never let a row of one
\* list name an entry of the other.
RowsMatchView ==
  \A s \in Slots : rows[s].dev # NoDev => rows[s].view = view[s]

\* Folders are made only on a device whose identity is known, and not on one the
\* user turned off or whose page is hidden, unless that happened while the poll
\* was running.  The exceptions are the pages shown without the gates of Publish:
\* the placeholder of manual start, which is written to whatever transport turns
\* out to be behind it, and a page that Restore put back.
WithheldUntouched ==
  [][\A s \in Slots : FoldersCreated'[s] /\ ~FoldersCreated[s] =>
       /\ bdmDeviceType[s] # None
       /\ visible[s] \/ ~current[s]
       /\ \/ ~Withheld(bdmDeviceType[s]) \/ job.vis
          \/ gui = "sources" \/ ~current[s]]_vars

\* A slot should be shown: its device answers and the user wants its transport.
Wanted(s) ==
  mounted[s] # NoDev /\ ~Withheld(TypeOf[mounted[s]])

\* Once its device stays, or stays away, the page of a slot agrees again and
\* again with the device and the settings: shown for a device that is there,
\* hidden for one that is gone or whose transport is turned off.  Under the
\* start mode Off no poll looks at a page.
PageFollows ==
  \A s \in Slots :
    <>[][mounted'[s] = mounted[s]]_vars
      => []<>(enabled[s] /\ bdmEffectiveStartMode # "off"
                => (visible[s] <=> Wanted(s)))

\* A page that stays shown in the PS2 view gets the list of its device, however
\* late the device became readable and wherever the first read failed.  Only a
\* page with the complete list of the device that was in the slot before keeps
\* that list: neither Restore nor a swap within the debounce reads anything.
ListComes ==
  \A s \in Slots : []<>(\/ ~(enabled[s] /\ visible[s] /\ view[s] = "iso")
                        \/ bdmGames[s] = mounted[s] \/ ~Wanted(s)
                        \/ scanned[s] /\ bdmGames[s] # NoDev)

\* After each change of the generation the missing modules are tried once more.
\* A request that was refused is put again by the next poll that gets that far,
\* so only a refusal at the last slot that still had something to look at costs
\* the try.
LoadFollows ==
  []<>(\/ ran \/ ~bdmShouldQueueModuleLoad
       \/ refused /\ \A s \in Slots : enabled[s] => Settled(s, visible[s])
       \/ bdmEffectiveStartMode = "off" \/ \A s \in Slots : ~enabled[s])

\* The switch of the view that L3 staged ends: input is not locked for ever.
ViewSettles == \A s \in Slots : pendingView[s] # NoView ~> pendingView[s] = NoView

\* A page is only ever shown for a transport the user has on: with the start
\* mode Off, every transport but the selected network one stays hidden.
StaysHidden ==
  [][\A s \in Slots : visible'[s] /\ ~visible[s] /\ enabled[s]
       => ~Withheld(bdmDeviceType'[s])]_vars
=============================================================================
