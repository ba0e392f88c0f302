------------------------------- MODULE Sound -------------------------------
(***************************************************************************)
(* Background music (src/src/sound.c) and the calls that start and stop it *)
(* (src/src/gui.c, src/src/opl.c).                                         *)
(*                                                                         *)
(* bgmIoThread decodes chunks of the track into a ring, bgmThread plays    *)
(* them; inSema counts the free chunks and outSema the decoded ones.  The  *)
(* GUI thread starts a session of the two threads, stops it and waits for  *)
(* it, or only tells it to stop.  A session also ends by itself: the user  *)
(* turned the music off, or the track cannot be read.                      *)
(*                                                                         *)
(* bgmStop waits for the threads for a limited time.  A thread inside a    *)
(* call of the IOP may outlast it; it is then left alone (abandoned), and  *)
(* the next session may be started over it, on the same stacks.  What      *)
(* happens after that is undefined, and the model ends there (overrun).    *)
(*                                                                         *)
(* The playing thread (priority 30) is above the decoding thread and the   *)
(* GUI thread (31), which run until they wait: an action goes from one     *)
(* wait of a thread to its next one.                                       *)
(***************************************************************************)
EXTENDS Naturals

CONSTANTS
  N,           \* BGM_RING_BUFFER_COUNT
  MaxChanges   \* bound: what the user does in a behaviour

ASSUME RingAssumption    == N \in Nat \ {0, 1}
ASSUME ChangesAssumption == MaxChanges \in Nat

VARIABLES
  audio_initialized,
  gEnableBGM,
  terminateFlag,
  bgmIsPlaying,
  bgmThreadRunning,
  bgmIoThreadRunning,
  inSema, outSema,     \* counts
  rdPtr, wrPtr,
  bgmBuffer,           \* ring: the number of the chunk in it, or Partial
  bgmBufferedChunks,
  vorbisFile,          \* the track is open
  gui, play, dec,      \* where the threads are
  stopFor,             \* why the GUI thread is in bgmStop
  abandoned,           \* history: the last stop gave up on a thread
  decoded, played,     \* history: how many chunks, modulo Numbers
  changes

flagVars == <<audio_initialized, gEnableBGM, bgmIsPlaying, bgmThreadRunning,
              bgmIoThreadRunning>>
ringVars == <<inSema, outSema, rdPtr, wrPtr, bgmBuffer, bgmBufferedChunks,
              decoded, played>>
guiVars  == <<gui, stopFor, abandoned, changes>>
vars == <<flagVars, terminateFlag, ringVars, vorbisFile, guiVars, play, dec>>

Slots   == 0..(N - 1)
Numbers == 2 * N + 1
Partial == Numbers
Exiting == stopFor = "exit"

Init ==
  /\ audio_initialized = TRUE /\ gEnableBGM \in BOOLEAN
  /\ terminateFlag = FALSE /\ bgmIsPlaying = FALSE
  /\ bgmThreadRunning = FALSE /\ bgmIoThreadRunning = FALSE
  /\ inSema = 0 /\ outSema = 0 /\ rdPtr = 0 /\ wrPtr = 0
  /\ bgmBuffer = [s \in Slots |-> Partial]
  /\ bgmBufferedChunks = 0 /\ vorbisFile = FALSE
  /\ gui = "start" /\ play = "dormant" /\ dec = "dormant"
  /\ stopFor = "none" /\ abandoned = FALSE /\ decoded = 0
  /\ played = 0 /\ changes = 0

\* The semaphores' maximum is the size of the ring; a signal above it fails.
Signalled(count) == IF count < N THEN count + 1 ELSE count

\* No thread above the caller, or ahead of it, can run.
PlayRests == play # "ready" /\ ~(play = "wait" /\ outSema > 0)
GuiRuns   == PlayRests /\ dec \notin {"ready", "loop"}

----------------------------------------------------------------------------
(* bgmThread *)

\* Mutant: a played chunk is not given back.
PlayedKept == UNCHANGED inSema

\* The chunk is free again.
PlayedFreed == inSema' = Signalled(inSema)

PlayBegin ==
  /\ play = "ready"
  /\ bgmThreadRunning' = TRUE
  /\ play' = IF terminateFlag THEN "stop" ELSE "wait"
  /\ UNCHANGED <<audio_initialized, gEnableBGM, bgmIsPlaying,
                 bgmIoThreadRunning, terminateFlag, ringVars, vorbisFile,
                 guiVars, dec>>

\* WaitSema(outSema); a chunk is taken, and audsrv asked for room for it.
PlayTake ==
  /\ play = "wait" /\ outSema > 0
  /\ outSema' = outSema - 1
  /\ \/ terminateFlag /\ play' = "stop" /\ UNCHANGED bgmBufferedChunks
     \/ /\ ~terminateFlag /\ play' = "audio"
        /\ bgmBufferedChunks' = IF bgmBufferedChunks > 0
                                THEN bgmBufferedChunks - 1 ELSE 0
  /\ UNCHANGED <<flagVars, terminateFlag, inSema, rdPtr, wrPtr, bgmBuffer,
                 decoded, played, vorbisFile, guiVars, dec>>

PlayChunk ==
  /\ play = "audio"
  /\ played' = (played + 1) % Numbers
  /\ rdPtr' = (rdPtr + 1) % N
  /\ PlayedFreed
  /\ play' = IF terminateFlag THEN "stop" ELSE "wait"
  /\ UNCHANGED <<flagVars, terminateFlag, outSema, wrPtr, bgmBuffer,
                 bgmBufferedChunks, decoded, vorbisFile, guiVars, dec>>

\* audsrv_stop_audio, and the end of the thread.
PlayEnd ==
  /\ play = "stop" /\ play' = "dormant"
  /\ rdPtr' = 0 /\ wrPtr' = 0
  /\ bgmThreadRunning' = FALSE /\ bgmIsPlaying' = FALSE
  /\ UNCHANGED <<audio_initialized, gEnableBGM, bgmIoThreadRunning,
                 terminateFlag, inSema, outSema, bgmBuffer, bgmBufferedChunks,
                 decoded, played, vorbisFile, guiVars, dec>>

----------------------------------------------------------------------------
(* bgmIoThread *)

\* Mutant: the playing thread is not woken.
DecodeEndsSilently ==
  /\ dec' = "dormant"
  /\ bgmIoThreadRunning' = FALSE /\ terminateFlag' = TRUE
  /\ UNCHANGED <<outSema, bgmIsPlaying>>

\* Mutant: the decoding thread reports the end of the session.
DecodeEndsSession ==
  /\ dec' = "dormant"
  /\ bgmIoThreadRunning' = FALSE /\ terminateFlag' = TRUE
  /\ outSema' = Signalled(outSema) /\ bgmIsPlaying' = FALSE

\* The end of the thread, which ends the session.
DecodeEnds ==
  /\ dec' = "dormant"
  /\ bgmIoThreadRunning' = FALSE /\ terminateFlag' = TRUE
  /\ outSema' = Signalled(outSema) /\ UNCHANGED bgmIsPlaying

DecodeBegin ==
  /\ dec = "ready" /\ PlayRests
  /\ bgmIoThreadRunning' = TRUE /\ dec' = "wait"
  /\ UNCHANGED <<audio_initialized, gEnableBGM, bgmIsPlaying,
                 bgmThreadRunning, terminateFlag, ringVars, vorbisFile,
                 guiVars, play>>

\* WaitSema(inSema); a free chunk is taken, and the read of it begins.
DecodeTake ==
  /\ dec = "wait" /\ inSema > 0 /\ PlayRests
  /\ inSema' = inSema - 1
  /\ \/ /\ terminateFlag \/ ~gEnableBGM
        /\ DecodeEnds /\ UNCHANGED bgmBuffer
     \/ /\ ~terminateFlag /\ gEnableBGM
        /\ dec' = "read"
        /\ bgmBuffer' = [bgmBuffer EXCEPT ![wrPtr] = Partial]
        /\ UNCHANGED <<bgmIoThreadRunning, bgmIsPlaying, terminateFlag, outSema>>
  /\ UNCHANGED <<audio_initialized, gEnableBGM, bgmThreadRunning, rdPtr, wrPtr,
                 bgmBufferedChunks, decoded, played, vorbisFile, guiVars, play>>

\* A full chunk is handed over; holes and the end of the track are read over.
DecodeChunk ==
  /\ dec = "read" /\ PlayRests /\ ~terminateFlag
  /\ bgmBuffer' = [bgmBuffer EXCEPT ![wrPtr] = decoded]
  /\ decoded' = (decoded + 1) % Numbers
  /\ wrPtr' = (wrPtr + 1) % N
  /\ bgmBufferedChunks' = Signalled(bgmBufferedChunks)
  /\ outSema' = Signalled(outSema)
  /\ dec' = "loop"
  /\ UNCHANGED <<flagVars, terminateFlag, inSema, rdPtr, played, vorbisFile,
                 guiVars, play>>

DecodeLoop ==
  /\ dec = "loop" /\ PlayRests
  /\ \/ /\ ~terminateFlag /\ gEnableBGM /\ dec' = "wait"
        /\ UNCHANGED <<bgmIoThreadRunning, bgmIsPlaying, terminateFlag, outSema>>
     \/ (terminateFlag \/ ~gEnableBGM) /\ DecodeEnds
  /\ UNCHANGED <<audio_initialized, gEnableBGM, bgmThreadRunning, inSema, rdPtr,
                 wrPtr, bgmBuffer, bgmBufferedChunks, decoded, played,
                 vorbisFile, guiVars, play>>

\* The read fails, the track cannot be rewound, or the session was stopped
\* while the chunk was read.
DecodeStops ==
  /\ dec = "read" /\ PlayRests
  /\ DecodeEnds
  /\ UNCHANGED <<audio_initialized, gEnableBGM, bgmThreadRunning, inSema, rdPtr,
                 wrPtr, bgmBuffer, bgmBufferedChunks, decoded, played,
                 vorbisFile, guiVars, play>>

----------------------------------------------------------------------------
(* GUI thread: bgmStart *)

\* Mutant: one chunk too many is free.
RingSizeOffByOne == N + 1

RingSize == N

\* Mutant: the count of decoded chunks is the one of the last session.
BufferedKept == UNCHANGED bgmBufferedChunks

BufferedReset == bgmBufferedChunks' = 0

bgmInit ==
  /\ terminateFlag' = FALSE
  /\ rdPtr' = 0 /\ wrPtr' = 0
  /\ bgmThreadRunning' = FALSE /\ bgmIoThreadRunning' = FALSE
  /\ BufferedReset
  /\ inSema' = RingSize /\ outSema' = 0
  /\ bgmBuffer' = [s \in Slots |-> Partial] /\ decoded' = 0 /\ played' = 0

\* At the first frame and after the network server the setting decides; after
\* a dialog also whether the session is still there.
Starts == gEnableBGM /\ (gui = "start" \/ (gui = "restart" /\ ~bgmIsPlaying))

NotStarted ==
  /\ gui \in {"start", "restart"} /\ ~Starts /\ GuiRuns /\ gui' = "menu"
  /\ UNCHANGED <<flagVars, terminateFlag, ringVars, vorbisFile, stopFor,
                 abandoned, changes, play, dec>>

ThreadsGone == play = "dormant" /\ dec = "dormant"

\* The session is made, unless a semaphore or a thread cannot be created.
BeginStart ==
  /\ Starts /\ GuiRuns /\ ThreadsGone
  /\ bgmInit /\ gui' \in {"load", "menu"}
  /\ abandoned' = FALSE
  /\ UNCHANGED <<audio_initialized, gEnableBGM, bgmIsPlaying, vorbisFile,
                 stopFor, changes, play, dec>>

\* The same call while a thread of the last session is alive: bgmInit clears the
\* flags that thread works with, and makes two threads on the stacks in use.
StartOver ==
  /\ Starts /\ GuiRuns /\ ~ThreadsGone
  /\ gui' = "overrun" /\ play' = "lost" /\ dec' = "lost"
  /\ UNCHANGED <<flagVars, terminateFlag, ringVars, vorbisFile, stopFor,
                 abandoned, changes>>

\* A usable track is found, of the theme, configured or built in, or none is.
bgmLoad == {TRUE, FALSE}

\* The rest of bgmStart: the track is loaded and the threads start.
bgmStart(found) ==
  /\ gui = "load" /\ GuiRuns /\ gui' = "menu"
  /\ vorbisFile' = found /\ bgmIsPlaying' = (bgmIsPlaying \/ found)
  /\ play' = IF found THEN "ready" ELSE play
  /\ dec'  = IF found THEN "ready" ELSE dec
  /\ UNCHANGED <<audio_initialized, gEnableBGM, bgmThreadRunning,
                 bgmIoThreadRunning, terminateFlag, ringVars, stopFor,
                 abandoned, changes>>

----------------------------------------------------------------------------
(* GUI thread: bgmStop, bgmQuiesce, audioEnd *)

\* Both threads are told, wherever they wait.
bgmQuiesce ==
  /\ terminateFlag' = TRUE
  /\ inSema' = Signalled(inSema) /\ outSema' = Signalled(outSema)
  /\ UNCHANGED <<rdPtr, wrPtr, bgmBuffer, bgmBufferedChunks, decoded, played>>

AfterStop == IF stopFor = "theme" THEN "restart" ELSE "quit"

\* Mutant: the wait for a thread has no limit.
MayLeaveJoined(running, inCall) == ~running

\* The wait for a thread is limited, at every stop; a call of the IOP that the
\* thread is in, a read of the device or one of audsrv, may outlast it.
MayLeave(running, inCall) == ~running \/ inCall

JoinIo ==
  /\ gui = "join_io" /\ GuiRuns /\ MayLeave(bgmIoThreadRunning, dec = "read")
  /\ gui' = "join_play"
  /\ UNCHANGED <<flagVars, terminateFlag, ringVars, vorbisFile, stopFor,
                 abandoned, changes, play, dec>>

\* Mutant: only the playing thread is looked at.
StillPlaying == bgmThreadRunning

\* A thread outlasted the waits: the session is abandoned.
StillThere == bgmIoThreadRunning \/ bgmThreadRunning

\* bgmDeinit closes the track, unless a thread is still there.
JoinPlay ==
  /\ gui = "join_play" /\ GuiRuns
  /\ MayLeave(bgmThreadRunning, play \in {"audio", "stop"})
  /\ vorbisFile' = (vorbisFile /\ StillThere)
  /\ abandoned' = StillThere
  /\ gui' = AfterStop
  /\ UNCHANGED <<flagVars, terminateFlag, ringVars, stopFor, changes, play, dec>>

\* audioEnd stops a session that shows itself, then leaves audsrv.
audioEnd ==
  IF bgmIsPlaying \/ bgmIoThreadRunning \/ bgmThreadRunning
  THEN bgmQuiesce /\ gui' = "join_io"
  ELSE gui' = "quit" /\ UNCHANGED <<terminateFlag, ringVars>>

Quit ==
  /\ gui = "quit" /\ GuiRuns
  /\ audio_initialized' = FALSE
  /\ gui' = IF Exiting THEN "ended" ELSE "serving"
  /\ UNCHANGED <<gEnableBGM, bgmIsPlaying, bgmThreadRunning, bgmIoThreadRunning,
                 terminateFlag, ringVars, vorbisFile, stopFor, abandoned, changes,
                 play, dec>>

----------------------------------------------------------------------------
(* GUI thread: what the user does *)

UserActs(why) ==
  /\ gui = "menu" /\ GuiRuns
  /\ changes < MaxChanges /\ changes' = changes + 1
  /\ stopFor' = why /\ UNCHANGED abandoned

\* The music is turned on or off in the dialog.
guiSetAudioSettingsState ==
  /\ UserActs("none") /\ gEnableBGM' \in BOOLEAN /\ gui' = "restart"
  /\ UNCHANGED <<audio_initialized, bgmIsPlaying, bgmThreadRunning,
                 bgmIoThreadRunning, terminateFlag, ringVars, vorbisFile, play,
                 dec>>

\* Another theme, with another track.
ChangeTheme ==
  /\ UserActs("theme")
  /\ \/ bgmIsPlaying /\ bgmQuiesce /\ gui' = "join_io"
     \/ ~bgmIsPlaying /\ gui' = "restart" /\ UNCHANGED <<terminateFlag, ringVars>>
  /\ UNCHANGED <<flagVars, vorbisFile, play, dec>>

\* The network server takes the console, and gives it back.
loadLwnbdSvr ==
  /\ UserActs("server") /\ audioEnd
  /\ UNCHANGED <<flagVars, vorbisFile, play, dec>>

unloadLwnbdSvr ==
  /\ gui = "serving" /\ GuiRuns /\ gui' = "start"
  /\ audio_initialized' = TRUE
  /\ UNCHANGED <<gEnableBGM, bgmIsPlaying, bgmThreadRunning, bgmIoThreadRunning,
                 terminateFlag, ringVars, vorbisFile, stopFor, abandoned, changes,
                 play, dec>>

\* The exit: the music is told to stop, the I/O is drained, audioEnd.
deinit ==
  \/ /\ gui = "menu" /\ GuiRuns /\ bgmQuiesce
     /\ stopFor' = "exit" /\ gui' = "drain"
     /\ UNCHANGED <<flagVars, vorbisFile, abandoned, changes, play, dec>>
  \/ /\ gui = "drain" /\ GuiRuns /\ audioEnd
     /\ UNCHANGED <<flagVars, vorbisFile, stopFor, abandoned, changes, play, dec>>

----------------------------------------------------------------------------
PlaySteps   == PlayBegin \/ PlayTake \/ PlayChunk \/ PlayEnd
DecodeSteps == DecodeBegin \/ DecodeTake \/ DecodeLoop
ReadEnds    == DecodeChunk \/ DecodeStops
GuiSteps    == \/ NotStarted \/ BeginStart \/ StartOver
               \/ (\E found \in bgmLoad : bgmStart(found))
               \/ JoinIo \/ JoinPlay \/ Quit \/ unloadLwnbdSvr
User        == guiSetAudioSettingsState \/ ChangeTheme \/ loadLwnbdSvr

Next == \/ PlaySteps \/ DecodeSteps \/ ReadEnds \/ GuiSteps \/ User \/ deinit
        \/ gui \in {"ended", "overrun"} /\ UNCHANGED vars

Spec == Init /\ [][Next]_vars

\* Runnable threads run; audsrv takes its samples; a read of the device ends,
\* except at the exit, where it may hang; a limited wait ends.
Fairness ==
  /\ WF_vars(PlaySteps) /\ WF_vars(DecodeSteps) /\ WF_vars(GuiSteps)
  /\ WF_vars(~Exiting /\ ReadEnds)
  /\ WF_vars(gui = "drain" /\ deinit)

FairSpec == Spec /\ Fairness

----------------------------------------------------------------------------
(* Properties *)

FlagTypes ==
  /\ audio_initialized \in BOOLEAN /\ gEnableBGM \in BOOLEAN
  /\ terminateFlag \in BOOLEAN /\ bgmIsPlaying \in BOOLEAN
  /\ bgmThreadRunning \in BOOLEAN /\ bgmIoThreadRunning \in BOOLEAN
  /\ vorbisFile \in BOOLEAN /\ abandoned \in BOOLEAN

DataTypes ==
  /\ inSema \in 0..N /\ outSema \in 0..N
  /\ rdPtr \in Slots /\ wrPtr \in Slots
  /\ bgmBuffer \in [Slots -> 0..Partial]
  /\ bgmBufferedChunks \in 0..N
  /\ gui \in {"start", "restart", "load", "menu", "join_io", "join_play",
              "drain", "quit", "serving", "ended", "overrun"}
  /\ play \in {"dormant", "ready", "wait", "audio", "stop", "lost"}
  /\ dec \in {"dormant", "ready", "wait", "read", "loop", "lost"}
  /\ stopFor \in {"none", "theme", "server", "exit"}
  /\ decoded \in 0..(Numbers - 1) /\ played \in 0..(Numbers - 1)
  /\ changes \in 0..MaxChanges

\* The semaphores stay within the ring however often they are signalled, and the
\* rest of the state of both threads keeps its type.
TypeOK == FlagTypes /\ DataTypes

\* The chunk that goes to audsrv is complete, is the next one of the track, and
\* is not being decoded into.
PlaysDecoded == play = "audio" => bgmBuffer[rdPtr] = played

\* The track is not closed under the decoding thread, whichever wait of a stop
\* ran out, as long as no session is started over an abandoned one.
TrackHeld == dec \in {"read", "loop"} => vorbisFile

\* A session is made over a live one, on its stacks, in one case only: the last
\* stop gave up on a thread that was inside a call of the IOP.  The flags that
\* two ending threads write never let it happen otherwise.
OneSession ==
  /\ gui = "load" => ThreadsGone
  /\ gui = "overrun" => abandoned

\* The reserve that decides on other reads of the device is what is decoded and
\* not yet taken.
ReserveExact == bgmIsPlaying /\ ~terminateFlag => bgmBufferedChunks = outSema

\* Music that was told to stop, by the user or by a failed read, stops: both
\* threads leave, except one that is inside a read that never ends, unless the
\* next session is started over them.
SessionEnds ==
  terminateFlag ~> \/ ~terminateFlag \/ gui = "overrun"
                   \/ play = "dormant" /\ dec \in {"dormant", "read"}

\* The two threads never wait for each other: one waiting for a chunk gets it.
MusicFlows == play = "wait" ~> play # "wait"

\* The exit is not held up by the music, even when a read never ends.
ExitEnds == Exiting ~> gui = "ended"
=============================================================================
