---------------------------- MODULE SoundProofs ----------------------------
(***************************************************************************)
(* The safety of background music (module Sound), for every size of the    *)
(* ring and any number of things the user does.                            *)
(***************************************************************************)
EXTENDS Sound, TLAPS

\* The running flags tell where the threads are, once they have begun.
FlagsTell ==
  /\ bgmThreadRunning   = (play \notin {"dormant", "ready"})
  /\ bgmIoThreadRunning = (dec \notin {"dormant", "ready"})

\* Who may be alive when: a thread that plays shows itself, one that decodes
\* shows itself, or is being waited for, or has been abandoned; the GUI thread
\* gets past the waits of a stop only when both are gone or it gave up on one.
ThreadsOfSession ==
  /\ gui # "overrun"
  /\ play # "dormant" => bgmIsPlaying
  /\ play = "stop" => terminateFlag
  /\ dec # "dormant" => vorbisFile
  /\ dec # "dormant" => bgmIsPlaying \/ terminateFlag
  /\ dec # "dormant" /\ terminateFlag =>
       gui \in {"join_io", "join_play"} \/ Exiting \/ abandoned
  /\ gui \in {"join_io", "join_play"} \/ abandoned => terminateFlag
  /\ gui \in {"start", "quit", "serving"} =>
       ThreadsGone \/ Exiting \/ abandoned
  /\ gui = "load" => ThreadsGone /\ ~terminateFlag
  /\ Exiting => gui \in {"drain", "join_io", "join_play", "quit", "ended"}

\* A session was started over an abandoned one; nothing is said of it any more.
Overrun == gui = "overrun" /\ play = "lost" /\ dec = "lost"
           /\ abandoned /\ terminateFlag

\* Addition on a circle, without the remainder that provers dislike.
Plus(a, d, m) == IF a + d < m THEN a + d ELSE a + d - m

\* Chunks handed over and not given back, and how far a slot is from the one
\* that is played next.
Filled  == outSema + (IF play = "audio" THEN 1 ELSE 0)
Reading == IF dec = "read" THEN 1 ELSE 0
Ahead(s) == IF s >= rdPtr THEN s - rdPtr ELSE s - rdPtr + N

\* While a session has not been told to stop, the counts of the semaphores and
\* the two indices agree, and the ring holds the next chunks in order.
RingSound ==
  ~terminateFlag =>
    /\ inSema + Filled + Reading <= N
    /\ bgmBufferedChunks = outSema
    /\ wrPtr = Plus(rdPtr, Filled, N)
    /\ decoded = Plus(played, Filled, Numbers)
    /\ \A s \in Slots : Ahead(s) < Filled =>
          bgmBuffer[s] = Plus(played, Ahead(s), Numbers)

Running == FlagsTell /\ ThreadsOfSession /\ RingSound /\ PlaysDecoded

IInv == TypeOK /\ (Running \/ Overrun)

----------------------------------------------------------------------------

\* A step on a circle of m is Plus by one.
LEMMA Wraps ==
  ASSUME NEW m \in Nat \ {0}, NEW a \in 0..(m - 1)
  PROVE  (a + 1) % m = Plus(a, 1, m) /\ (a + 1) % m \in 0..(m - 1)
<1>1. CASE a + 1 < m
  BY <1>1 DEF Plus
<1>2. CASE a + 1 = m
  <2>1. m % m = 0
    OBVIOUS
  <2> QED BY <1>2, <2>1 DEF Plus
<1> QED BY <1>1, <1>2

\* The loader begins without a session.
LEMMA InitIInv == Init => IInv
<1> SUFFICES ASSUME Init PROVE IInv
  OBVIOUS
<1> USE RingAssumption, ChangesAssumption
<1>1. TypeOK
  <2>1. FlagTypes
    BY DEF Init, FlagTypes
  <2>2. DataTypes
    BY DEF Init, DataTypes, Slots, Partial, Numbers
  <2> QED BY <2>1, <2>2 DEF TypeOK
<1>2. FlagsTell /\ PlaysDecoded
  BY DEF Init, FlagsTell, PlaysDecoded
<1>3. ThreadsOfSession
  BY DEF Init, ThreadsOfSession, ThreadsGone, Exiting
<1>4. RingSound
  BY DEF Init, RingSound, Filled, Reading, Ahead, Plus, Slots, Numbers
<1> QED BY <1>1, <1>2, <1>3, <1>4 DEF IInv, Running

\* The flags of sound.c stay Boolean.
LEMMA FlagTypesNext == FlagTypes /\ [Next]_vars => FlagTypes'
<1> SUFFICES ASSUME FlagTypes, [Next]_vars PROVE FlagTypes'
  OBVIOUS
<1> USE DEF FlagTypes
<1>1. ASSUME PlaySteps PROVE FlagTypes'
  BY <1>1, Zenon
     DEF PlaySteps, PlayBegin, PlayTake, PlayChunk, PlayEnd, flagVars, guiVars
<1>2. ASSUME DecodeSteps PROVE FlagTypes'
  BY <1>2, Zenon
     DEF DecodeSteps, DecodeBegin, DecodeTake, DecodeLoop, DecodeEnds, guiVars
<1>3. ASSUME ReadEnds PROVE FlagTypes'
  BY <1>3, Zenon
     DEF ReadEnds, DecodeChunk, DecodeStops, DecodeEnds, flagVars, guiVars
<1>4. ASSUME GuiSteps PROVE FlagTypes'
  <2>1. CASE NotStarted \/ JoinIo \/ JoinPlay
    BY <2>1, Zenon DEF NotStarted, JoinIo, JoinPlay, StillThere, flagVars
  <2>2. CASE BeginStart \/ StartOver
    BY <2>2, Zenon DEF BeginStart, StartOver, bgmInit, flagVars
  <2>3. ASSUME NEW found \in bgmLoad, bgmStart(found) PROVE FlagTypes'
    BY <2>3, Zenon DEF bgmLoad, bgmStart
  <2>4. CASE Quit \/ unloadLwnbdSvr
    BY <2>4, Zenon DEF Quit, unloadLwnbdSvr
  <2> QED BY <1>4, <2>1, <2>2, <2>3, <2>4 DEF GuiSteps
<1>5. ASSUME User PROVE FlagTypes'
  BY <1>5, Zenon DEF User, guiSetAudioSettingsState, ChangeTheme, loadLwnbdSvr,
     UserActs, audioEnd, bgmQuiesce, flagVars
<1>6. ASSUME deinit PROVE FlagTypes'
  BY <1>6, Zenon DEF deinit, audioEnd, bgmQuiesce, flagVars
<1>7. ASSUME UNCHANGED vars PROVE FlagTypes'
  BY <1>7 DEF vars, flagVars, guiVars
<1> QED BY <1>1, <1>2, <1>3, <1>4, <1>5, <1>6, <1>7 DEF Next

\* The semaphores, indices and counters stay within the ring.
LEMMA DataTypesNext == DataTypes /\ [Next]_vars => DataTypes'
<1> SUFFICES ASSUME DataTypes, [Next]_vars PROVE DataTypes'
  OBVIOUS
<1> USE RingAssumption, ChangesAssumption DEF DataTypes
<1>1. ASSUME PlaySteps PROVE DataTypes'
  <2>1. CASE PlayBegin
    BY <2>1 DEF PlayBegin, ringVars, guiVars
  <2>2. CASE PlayTake
    BY <2>2 DEF PlayTake, flagVars, guiVars
  <2>3. CASE PlayChunk
    <3>1. rdPtr' \in Slots
      BY <2>3, Wraps DEF PlayChunk, Slots
    <3>2. played' \in 0..(Numbers - 1)
      <4>1. Numbers \in Nat \ {0}
        BY DEF Numbers
      <4> QED BY <2>3, <4>1, Wraps DEF PlayChunk
    <3> QED BY <2>3, <3>1, <3>2 DEF PlayChunk, PlayedFreed, Signalled, flagVars, guiVars
  <2>4. CASE PlayEnd
    BY <2>4 DEF PlayEnd, guiVars, Slots
  <2> QED BY <1>1, <2>1, <2>2, <2>3, <2>4 DEF PlaySteps
<1>2. ASSUME DecodeSteps PROVE DataTypes'
  <2>1. CASE DecodeBegin
    BY <2>1 DEF DecodeBegin, ringVars, guiVars
  <2>2. CASE DecodeTake
    BY <2>2 DEF DecodeTake, DecodeEnds, Signalled, guiVars, Partial, Numbers
  <2>3. CASE DecodeLoop
    BY <2>3 DEF DecodeLoop, DecodeEnds, Signalled, guiVars
  <2> QED BY <1>2, <2>1, <2>2, <2>3 DEF DecodeSteps
<1>3. ASSUME ReadEnds PROVE DataTypes'
  <2>1. CASE DecodeChunk
    <3>1. wrPtr' \in Slots
      BY <2>1, Wraps DEF DecodeChunk, Slots
    <3>2. decoded' \in 0..(Numbers - 1)
      <4>1. Numbers \in Nat \ {0}
        BY DEF Numbers
      <4> QED BY <2>1, <4>1, Wraps DEF DecodeChunk
    <3>3. bgmBuffer' \in [Slots -> 0..Partial]
      BY <2>1 DEF DecodeChunk, Partial, Numbers
    <3> QED BY <2>1, <3>1, <3>2, <3>3 DEF DecodeChunk, Signalled, flagVars, guiVars
  <2>2. CASE DecodeStops
    BY <2>2 DEF DecodeStops, DecodeEnds, Signalled, guiVars
  <2> QED BY <1>3, <2>1, <2>2 DEF ReadEnds
<1>4. ASSUME GuiSteps PROVE DataTypes'
  <2>1. CASE NotStarted
    BY <2>1 DEF NotStarted, flagVars, ringVars
  <2>8. CASE StartOver
    BY <2>8 DEF StartOver, ringVars
  <2>2. CASE BeginStart
    BY <2>2
       DEF BeginStart, bgmInit, BufferedReset, RingSize, Slots, Partial, Numbers
  <2>3. ASSUME NEW found \in bgmLoad, bgmStart(found) PROVE DataTypes'
    BY <2>3 DEF bgmLoad, bgmStart, ringVars
  <2>4. CASE JoinIo
    BY <2>4 DEF JoinIo, flagVars, ringVars
  <2>5. CASE JoinPlay
    BY <2>5 DEF JoinPlay, StillThere, AfterStop, flagVars, ringVars
  <2>6. CASE Quit
    BY <2>6 DEF Quit, ringVars
  <2>7. CASE unloadLwnbdSvr
    BY <2>7 DEF unloadLwnbdSvr, ringVars
  <2> QED BY <1>4, <2>1, <2>2, <2>3, <2>4, <2>5, <2>6, <2>7, <2>8 DEF GuiSteps
<1>5. ASSUME User PROVE DataTypes'
  <2>1. CASE guiSetAudioSettingsState
    BY <2>1 DEF guiSetAudioSettingsState, UserActs, ringVars
  <2>2. CASE ChangeTheme
    BY <2>2 DEF ChangeTheme, UserActs, bgmQuiesce, Signalled, flagVars, ringVars
  <2>3. CASE loadLwnbdSvr
    BY <2>3
       DEF loadLwnbdSvr, UserActs, audioEnd, bgmQuiesce, Signalled, flagVars,
           ringVars
  <2> QED BY <1>5, <2>1, <2>2, <2>3 DEF User
<1>6. ASSUME deinit PROVE DataTypes'
  BY <1>6 DEF deinit, audioEnd, bgmQuiesce, Signalled, flagVars, ringVars
<1>7. ASSUME UNCHANGED vars PROVE DataTypes'
  BY <1>7 DEF vars, flagVars, ringVars, guiVars
<1> QED BY <1>1, <1>2, <1>3, <1>4, <1>5, <1>6, <1>7 DEF Next

----------------------------------------------------------------------------
(* The threads of a session *)

\* bgmThread: it clears bgmIsPlaying only when it was told to stop.
LEMMA ThreadsPlay ==
  ASSUME FlagTypes, DataTypes, FlagsTell, ThreadsOfSession, PlaySteps
  PROVE  FlagsTell' /\ ThreadsOfSession'
<1> USE DEF FlagsTell, ThreadsOfSession, ThreadsGone, Exiting
<1>1. CASE PlayBegin
  BY <1>1, Zenon DEF PlayBegin, guiVars
<1>2. CASE PlayTake
  BY <1>2, Zenon DEF PlayTake, flagVars, guiVars
<1>3. CASE PlayChunk
  BY <1>3, Zenon DEF PlayChunk, flagVars, guiVars
<1>4. CASE PlayEnd
  BY <1>4, Zenon DEF PlayEnd, guiVars
<1> QED BY <1>1, <1>2, <1>3, <1>4 DEF PlaySteps

\* bgmIoThread: it tells the other thread whenever it ends.
LEMMA ThreadsDecode ==
  ASSUME FlagTypes, DataTypes, FlagsTell, ThreadsOfSession, DecodeSteps \/ ReadEnds
  PROVE  FlagsTell' /\ ThreadsOfSession'
<1> USE DEF FlagsTell, ThreadsOfSession, ThreadsGone, Exiting
<1>1. CASE DecodeBegin
  BY <1>1, Zenon DEF DecodeBegin, guiVars
<1>2. CASE DecodeTake
  <2>1. CASE DecodeEnds
    BY <1>2, <2>1, Zenon DEF DecodeTake, DecodeEnds, guiVars
  <2>2. CASE dec' = "read" /\ UNCHANGED <<bgmIoThreadRunning, bgmIsPlaying, terminateFlag>>
    BY <1>2, <2>2, Zenon DEF DecodeTake, guiVars
  <2> QED BY <1>2, <2>1, <2>2, Zenon DEF DecodeTake
<1>3. CASE DecodeLoop
  <2>1. CASE DecodeEnds
    BY <1>3, <2>1, Zenon DEF DecodeLoop, DecodeEnds, guiVars
  <2>2. CASE dec' = "wait" /\ UNCHANGED <<bgmIoThreadRunning, bgmIsPlaying, terminateFlag>>
    BY <1>3, <2>2, Zenon DEF DecodeLoop, guiVars
  <2> QED BY <1>3, <2>1, <2>2, Zenon DEF DecodeLoop
<1>4. CASE DecodeChunk
  BY <1>4, Zenon DEF DecodeChunk, flagVars, guiVars
<1>5. CASE DecodeStops
  BY <1>5, Zenon DEF DecodeStops, DecodeEnds, guiVars
<1> QED BY <1>1, <1>2, <1>3, <1>4, <1>5 DEF DecodeSteps, ReadEnds

\* bgmStart and the waits of bgmStop.
LEMMA ThreadsGui ==
  ASSUME FlagTypes, DataTypes, FlagsTell, ThreadsOfSession, GuiSteps, ~StartOver
  PROVE  FlagsTell' /\ ThreadsOfSession'
<1> USE DEF FlagsTell, ThreadsOfSession, ThreadsGone, Exiting, GuiRuns, PlayRests
<1>1. CASE NotStarted
  BY <1>1, Zenon DEF NotStarted, flagVars
<1>2. CASE BeginStart
  BY <1>2, Zenon DEF BeginStart, Starts, bgmInit
<1>3. ASSUME NEW found \in bgmLoad, bgmStart(found)
      PROVE  FlagsTell' /\ ThreadsOfSession'
  BY <1>3, Zenon DEF bgmLoad, bgmStart
<1>4. CASE JoinIo
  BY <1>4, Zenon DEF JoinIo, flagVars
<1>5. CASE JoinPlay
  BY <1>5, Zenon DEF JoinPlay, StillThere, AfterStop, flagVars
<1>6. CASE Quit
  BY <1>6, Zenon DEF Quit
<1>7. CASE unloadLwnbdSvr
  BY <1>7, Zenon DEF unloadLwnbdSvr
<1> QED BY <1>1, <1>2, <1>3, <1>4, <1>5, <1>6, <1>7 DEF GuiSteps

\* A session is started over another one only after a stop that gave up.
LEMMA OverrunBegins ==
  ASSUME ThreadsOfSession, StartOver
  PROVE  Overrun'
<1>1. abandoned
  BY Zenon DEF StartOver, Starts, ThreadsOfSession, ThreadsGone, Exiting
<1> QED BY <1>1, Zenon DEF StartOver, Overrun, ThreadsOfSession

\* Nobody acts after that.
LEMMA OverrunStays ==
  ASSUME Overrun, [Next]_vars
  PROVE  Overrun'
<1>1. ~PlaySteps /\ ~DecodeSteps /\ ~ReadEnds
  BY Zenon
     DEF Overrun, PlaySteps, PlayBegin, PlayTake, PlayChunk, PlayEnd, DecodeSteps,
         DecodeBegin, DecodeTake, DecodeLoop, ReadEnds, DecodeChunk, DecodeStops
<1>2. ~GuiSteps
  BY Zenon
     DEF Overrun, GuiSteps, NotStarted, BeginStart, StartOver, Starts, bgmStart,
         JoinIo, JoinPlay, Quit, unloadLwnbdSvr
<1>3. ~User /\ ~deinit
  BY Zenon DEF Overrun, User, UserActs, guiSetAudioSettingsState, ChangeTheme,
     loadLwnbdSvr, deinit
<1>4. UNCHANGED vars
  BY <1>1, <1>2, <1>3, Zenon DEF Next
<1> QED BY <1>4, Zenon DEF Overrun, vars, guiVars

\* The stops that the user and the exit begin.
LEMMA ThreadsUser ==
  ASSUME FlagTypes, DataTypes, FlagsTell, ThreadsOfSession, User \/ deinit
  PROVE  FlagsTell' /\ ThreadsOfSession'
<1> USE DEF FlagsTell, ThreadsOfSession, ThreadsGone, Exiting, GuiRuns, PlayRests, UserActs
<1>1. CASE guiSetAudioSettingsState
  BY <1>1, Zenon DEF guiSetAudioSettingsState
<1>2. CASE ChangeTheme
  <2>1. FlagsTell'
    BY <1>2, Zenon DEF ChangeTheme, flagVars
  <2>2. ThreadsOfSession'
    <3>1. CASE bgmIsPlaying /\ bgmQuiesce /\ gui' = "join_io"
      BY <1>2, <3>1 DEF ChangeTheme, bgmQuiesce, flagVars
    <3>2. CASE ~bgmIsPlaying /\ gui' = "restart" /\ UNCHANGED terminateFlag
      BY <1>2, <3>2 DEF ChangeTheme, flagVars
    <3> QED BY <1>2, <3>1, <3>2 DEF ChangeTheme
  <2> QED BY <2>1, <2>2
<1>3. CASE loadLwnbdSvr
  <2>1. CASE bgmQuiesce /\ gui' = "join_io"
    BY <1>3, <2>1, Zenon DEF loadLwnbdSvr, bgmQuiesce, flagVars
  <2>2. CASE /\ ~(bgmIsPlaying \/ bgmIoThreadRunning \/ bgmThreadRunning)
             /\ gui' = "quit" /\ UNCHANGED terminateFlag
    <3>1. ThreadsGone
      BY <1>3, <2>2, Zenon DEF loadLwnbdSvr
    <3> QED BY <1>3, <2>2, <3>1, Zenon DEF loadLwnbdSvr, flagVars
  <2> QED BY <1>3, <2>1, <2>2, Zenon DEF loadLwnbdSvr, audioEnd
<1>4. CASE deinit
  <2>1. CASE gui = "menu"
    BY <1>4, <2>1, Zenon DEF deinit, bgmQuiesce, flagVars
  <2>2. CASE gui = "drain" /\ bgmQuiesce /\ gui' = "join_io"
    BY <1>4, <2>2, Zenon DEF deinit, bgmQuiesce, flagVars
  <2>3. CASE /\ ~(bgmIsPlaying \/ bgmIoThreadRunning \/ bgmThreadRunning)
             /\ gui = "drain" /\ gui' = "quit" /\ UNCHANGED terminateFlag
    <3>1. ThreadsGone
      BY <1>4, <2>3, Zenon DEF deinit
    <3>2. FlagsTell'
      BY <1>4, <2>3, Zenon DEF deinit, flagVars
    <3>3. ThreadsOfSession'
      BY <1>4, <2>3, <3>1 DEF deinit, flagVars
    <3> QED BY <3>2, <3>3
  <2> QED BY <1>4, <2>1, <2>2, <2>3, Zenon DEF deinit, audioEnd
<1> QED BY <1>1, <1>2, <1>3, <1>4 DEF User

----------------------------------------------------------------------------
(* The ring *)

\* Steps that touch neither the ring nor who holds a chunk of it.
LEMMA RingUntouched ==
  ASSUME RingSound, PlaysDecoded, UNCHANGED ringVars,
         terminateFlag' \/ ~terminateFlag,
         (play' = "audio") <=> (play = "audio"),
         (dec' = "read") <=> (dec = "read")
  PROVE  RingSound' /\ PlaysDecoded'
<1>1. UNCHANGED <<inSema, outSema, rdPtr, wrPtr, bgmBuffer, bgmBufferedChunks, decoded, played>>
  BY DEF ringVars
<1>2. Filled' = Filled /\ Reading' = Reading /\ \A s \in Slots : Ahead(s)' = Ahead(s)
  BY <1>1 DEF Filled, Reading, Ahead
<1> QED BY <1>1, <1>2 DEF RingSound, PlaysDecoded, Slots, Numbers, Plus

\* Steps that end the session: the chunk being played stays as it is.
LEMMA RingAbandoned ==
  ASSUME PlaysDecoded, terminateFlag',
         \/ play' # "audio"
         \/ play = "audio" /\ UNCHANGED <<rdPtr, bgmBuffer, played>>
  PROVE  RingSound' /\ PlaysDecoded'
BY DEF RingSound, PlaysDecoded

\* bgmThread takes chunks from the front of the ring.
LEMMA RingPlays ==
  ASSUME DataTypes, RingSound, PlaysDecoded, ThreadsOfSession, PlaySteps
  PROVE  RingSound' /\ PlaysDecoded'
<1>1. CASE PlayBegin
  <2>1. (play' = "audio") <=> (play = "audio")
    BY <1>1 DEF PlayBegin
  <2> QED BY <1>1, <2>1, RingUntouched DEF PlayBegin
<1>2. CASE PlayTake
  <2>1. CASE terminateFlag
    BY <1>2, <2>1, RingAbandoned DEF PlayTake
  <2>2. CASE ~terminateFlag
    <3> USE <1>2, <2>2, RingAssumption DEF PlayTake, DataTypes
    <3>1. outSema \in Nat /\ outSema > 0 /\ outSema' = outSema - 1
          /\ play = "wait" /\ play' = "audio"
      OBVIOUS
    <3>2. Filled' = Filled /\ Filled \in Nat \ {0} /\ Reading' = Reading
      BY <3>1 DEF Filled, Reading
    <3>3. \A s \in Slots : Ahead(s)' = Ahead(s)
      BY DEF Ahead
    <3>4. Ahead(rdPtr) = 0 /\ rdPtr \in Slots
      BY DEF Ahead, Slots
    <3>5. bgmBuffer[rdPtr] = Plus(played, 0, Numbers)
      BY <3>2, <3>4 DEF RingSound
    <3>6. bgmBuffer[rdPtr] = played
      BY <3>5 DEF Plus, Numbers
    <3>7. PlaysDecoded'
      BY <3>6 DEF PlaysDecoded
    <3>8. RingSound'
      BY <3>1, <3>2, <3>3 DEF RingSound, Plus, Slots, Numbers
    <3> QED BY <3>7, <3>8
  <2> QED BY <2>1, <2>2
<1>3. CASE PlayChunk
  <2>1. CASE terminateFlag
    BY <1>3, <2>1, RingAbandoned DEF PlayChunk, flagVars
  <2>2. CASE ~terminateFlag
    <3> USE <1>3, <2>2, RingAssumption DEF DataTypes
    <3>1. play = "audio" /\ play' = "wait"
          /\ UNCHANGED <<terminateFlag, outSema, wrPtr, bgmBuffer, bgmBufferedChunks, decoded, dec>>
      BY DEF PlayChunk
    <3>2. rdPtr' = Plus(rdPtr, 1, N) /\ rdPtr' \in Slots
      BY Wraps DEF PlayChunk, Slots
    <3>3. played' = Plus(played, 1, Numbers) /\ played' \in 0..(Numbers - 1)
      <4>1. Numbers \in Nat \ {0}
        BY DEF Numbers
      <4> QED BY <4>1, Wraps DEF PlayChunk
    <3>4. Filled = outSema + 1 /\ Filled' = outSema /\ Reading' = Reading
      BY <3>1 DEF Filled, Reading
    <3>5. inSema + Filled + Reading <= N
      BY DEF RingSound
    <3>6. inSema' = inSema + 1
      BY <3>4, <3>5 DEF PlayChunk, PlayedFreed, Signalled, Reading
    <3>7. inSema' + Filled' + Reading' <= N
      BY <3>4, <3>5, <3>6 DEF Reading
    <3>8. wrPtr' = Plus(rdPtr', Filled', N)
      BY <3>1, <3>2, <3>4 DEF RingSound, Plus, Slots
    <3>9. decoded' = Plus(played', Filled', Numbers)
      BY <3>1, <3>3, <3>4 DEF RingSound, Plus, Numbers
    <3>10. ASSUME NEW s \in Slots, Ahead(s)' < Filled'
           PROVE  bgmBuffer'[s] = Plus(played', Ahead(s)', Numbers)
      <4>1. Ahead(s) = Ahead(s)' + 1 /\ Ahead(s)' \in 0..(N - 1)
        <5>1. Filled' < N
          BY <3>4, <3>5 DEF Reading
        <5>2. rdPtr \in 0..(N - 1) /\ s \in 0..(N - 1) /\ Filled' \in Nat
          BY <3>4 DEF Slots
        <5>3. CASE rdPtr + 1 < N
          <6>1. rdPtr' = rdPtr + 1
            BY <3>2, <5>2, <5>3 DEF Plus
          <6> QED BY <3>10, <5>1, <5>2, <5>3, <6>1 DEF Ahead
        <5>4. CASE rdPtr + 1 = N
          <6>1. rdPtr' = 0
            BY <3>2, <5>2, <5>4 DEF Plus
          <6> QED BY <3>10, <5>1, <5>2, <5>4, <6>1 DEF Ahead
        <5> QED BY <5>2, <5>3, <5>4
      <4>2. bgmBuffer[s] = Plus(played, Ahead(s), Numbers)
        BY <3>4, <3>10, <4>1 DEF RingSound
      <4> QED BY <3>1, <3>3, <4>1, <4>2 DEF Plus, Numbers
    <3>11. PlaysDecoded'
      BY <3>1 DEF PlaysDecoded
    <3>12. bgmBufferedChunks' = outSema'
      BY <3>1 DEF RingSound
    <3>13. RingSound'
      BY <3>7, <3>8, <3>9, <3>10, <3>12, Zenon DEF RingSound, Slots, Numbers
    <3> QED BY <3>11, <3>13
  <2> QED BY <2>1, <2>2
<1>4. CASE PlayEnd
  BY <1>4, RingAbandoned DEF PlayEnd, ThreadsOfSession
<1> QED BY <1>1, <1>2, <1>3, <1>4 DEF PlaySteps

\* bgmIoThread adds chunks at its end, and never decodes into a filled one.
LEMMA RingDecodes ==
  ASSUME DataTypes, RingSound, PlaysDecoded, DecodeSteps \/ ReadEnds
  PROVE  RingSound' /\ PlaysDecoded'
<1>0. ASSUME DecodeEnds, UNCHANGED <<play, rdPtr, bgmBuffer, played>>
      PROVE  RingSound' /\ PlaysDecoded'
  BY <1>0, RingAbandoned DEF DecodeEnds
<1>1. CASE DecodeBegin
  BY <1>1, RingUntouched DEF DecodeBegin
<1>2. CASE DecodeTake
  <2>1. CASE DecodeEnds /\ UNCHANGED bgmBuffer
    BY <1>2, <2>1, <1>0 DEF DecodeTake
  <2>2. CASE /\ ~terminateFlag /\ gEnableBGM
             /\ dec' = "read"
             /\ bgmBuffer' = [bgmBuffer EXCEPT ![wrPtr] = Partial]
             /\ UNCHANGED <<bgmIoThreadRunning, bgmIsPlaying, terminateFlag, outSema>>
    <3> USE <1>2, <2>2, RingAssumption DEF DataTypes
    <3>1. /\ inSema > 0 /\ inSema' = inSema - 1 /\ dec = "wait"
          /\ UNCHANGED <<rdPtr, wrPtr, bgmBufferedChunks, decoded, played, play>>
      BY DEF DecodeTake
    <3>2. Filled' = Filled /\ Reading = 0 /\ Reading' = 1 /\ Filled \in Nat
      BY <3>1 DEF Filled, Reading
    <3>3. \A s \in Slots : Ahead(s)' = Ahead(s)
      BY <3>1 DEF Ahead
    <3>4. inSema + Filled + Reading <= N
      BY DEF RingSound
    <3>5. wrPtr = Plus(rdPtr, Filled, N)
      BY DEF RingSound
    <3>6. Ahead(wrPtr) = Filled
      BY <3>1, <3>2, <3>4, <3>5 DEF Ahead, Plus, Slots
    <3>7. \A s \in Slots : Ahead(s) < Filled => bgmBuffer'[s] = bgmBuffer[s]
      BY <3>2, <3>6
    <3>8. PlaysDecoded'
      <4> SUFFICES ASSUME play = "audio" PROVE bgmBuffer'[rdPtr] = played
        BY <3>1 DEF PlaysDecoded
      <4>1. Filled >= 1 /\ Ahead(rdPtr) = 0 /\ rdPtr \in Slots
        BY <3>2 DEF Filled, Ahead, Slots
      <4> QED BY <3>2, <3>7, <4>1 DEF PlaysDecoded
    <3>9. inSema' + Filled' + Reading' <= N
      BY <3>1, <3>2, <3>4
    <3>10. ASSUME NEW s \in Slots, Ahead(s)' < Filled'
           PROVE  bgmBuffer'[s] = Plus(played', Ahead(s)', Numbers)
      BY <3>1, <3>2, <3>3, <3>7, <3>10 DEF RingSound
    <3>11. /\ wrPtr' = Plus(rdPtr', Filled', N) /\ bgmBufferedChunks' = outSema'
           /\ decoded' = Plus(played', Filled', Numbers)
      BY <3>1, <3>2 DEF RingSound
    <3>12. RingSound'
      BY <3>9, <3>10, <3>11, Zenon DEF RingSound, Slots, Numbers
    <3> QED BY <3>8, <3>12
  <2> QED BY <1>2, <2>1, <2>2 DEF DecodeTake
<1>3. CASE DecodeLoop
  <2>1. CASE DecodeEnds
    BY <1>3, <2>1, <1>0 DEF DecodeLoop
  <2>2. CASE dec' = "wait" /\ UNCHANGED <<terminateFlag, outSema>>
    BY <1>3, <2>2, RingUntouched DEF DecodeLoop, ringVars
  <2> QED BY <1>3, <2>1, <2>2 DEF DecodeLoop
<1>4. CASE DecodeStops
  BY <1>4, <1>0 DEF DecodeStops
<1>5. CASE DecodeChunk
  <2> USE <1>5, RingAssumption DEF DataTypes
  <2>1. /\ dec = "read" /\ dec' = "loop" /\ ~terminateFlag /\ ~terminateFlag'
        /\ bgmBuffer' = [bgmBuffer EXCEPT ![wrPtr] = decoded]
        /\ UNCHANGED <<inSema, rdPtr, played, play>>
    BY DEF DecodeChunk
  <2>2. /\ inSema + Filled + Reading <= N
        /\ bgmBufferedChunks = outSema
        /\ wrPtr = Plus(rdPtr, Filled, N)
        /\ decoded = Plus(played, Filled, Numbers)
    BY <2>1 DEF RingSound
  <2>3. Reading = 1 /\ Reading' = 0 /\ Filled \in Nat /\ Filled < N /\ outSema < N
    BY <2>1, <2>2 DEF Reading, Filled
  <2>4. outSema' = outSema + 1 /\ bgmBufferedChunks' = outSema'
    BY <2>2, <2>3 DEF DecodeChunk, Signalled
  <2>5. Filled' = Filled + 1
    BY <2>1, <2>4 DEF Filled
  <2>6. wrPtr' = Plus(rdPtr', Filled', N)
    <3>1. wrPtr' = Plus(wrPtr, 1, N)
      BY Wraps DEF DecodeChunk, Slots
    <3> QED BY <2>1, <2>2, <2>3, <2>5, <3>1 DEF Plus, Slots
  <2>7. decoded' = Plus(played', Filled', Numbers)
    <3>1. Numbers \in Nat \ {0}
      BY DEF Numbers
    <3>2. decoded' = Plus(decoded, 1, Numbers)
      BY <3>1, Wraps DEF DecodeChunk
    <3> QED BY <2>1, <2>2, <2>3, <2>5, <3>2 DEF Plus, Numbers
  <2>8. inSema' + Filled' + Reading' <= N
    BY <2>1, <2>2, <2>3, <2>5
  <2>9. Ahead(wrPtr) = Filled /\ wrPtr \in Slots
    BY <2>2, <2>3 DEF Ahead, Plus, Slots
  <2>10. \A s \in Slots : Ahead(s)' = Ahead(s)
    BY <2>1 DEF Ahead
  <2>11. ASSUME NEW s \in Slots, Ahead(s)' < Filled'
         PROVE  bgmBuffer'[s] = Plus(played', Ahead(s)', Numbers)
    <3>1. CASE s = wrPtr
      BY <2>1, <2>2, <2>9, <2>10, <3>1
    <3>2. CASE s # wrPtr
      <4>1. Ahead(s) # Filled /\ Ahead(s) \in Nat
        BY <2>2, <2>3, <3>2 DEF Ahead, Plus, Slots
      <4>2. Ahead(s) < Filled
        BY <2>3, <2>5, <2>10, <2>11, <4>1
      <4> QED BY <2>1, <2>10, <3>2, <4>2 DEF RingSound
    <3> QED BY <3>1, <3>2
  <2>12. RingSound'
    BY <2>4, <2>6, <2>7, <2>8, <2>11, Zenon DEF RingSound, Slots, Numbers
  <2>13. PlaysDecoded'
    <3> SUFFICES ASSUME play = "audio" PROVE bgmBuffer'[rdPtr] = played
      BY <2>1 DEF PlaysDecoded
    <3>1. Filled >= 1 /\ Ahead(rdPtr) = 0 /\ rdPtr \in Slots
      BY <2>3 DEF Filled, Ahead, Slots
    <3>2. rdPtr # wrPtr
      BY <2>9, <3>1
    <3> QED BY <2>1, <3>2 DEF PlaysDecoded
  <2> QED BY <2>12, <2>13
<1> QED BY <1>1, <1>2, <1>3, <1>4, <1>5 DEF DecodeSteps, ReadEnds

\* bgmInit empties the ring; the rest of bgmStart and bgmStop leaves it alone.
LEMMA RingGui ==
  ASSUME FlagTypes, DataTypes, FlagsTell, ThreadsOfSession, RingSound, PlaysDecoded,
         GuiSteps, ~StartOver
  PROVE  RingSound' /\ PlaysDecoded'
<1>1. CASE NotStarted \/ JoinIo \/ JoinPlay
  BY <1>1, RingUntouched DEF NotStarted, JoinIo, JoinPlay
<1>2. CASE BeginStart
  <2> USE RingAssumption
  <2>1. play = "dormant" /\ dec = "dormant"
    BY <1>2, Zenon DEF BeginStart, ThreadsGone
  <2>2. /\ inSema' = N /\ outSema' = 0 /\ rdPtr' = 0 /\ wrPtr' = 0
        /\ bgmBufferedChunks' = 0 /\ decoded' = 0 /\ played' = 0
        /\ UNCHANGED <<play, dec>>
    BY <1>2 DEF BeginStart, bgmInit, BufferedReset, RingSize
  <2>3. Filled' = 0 /\ Reading' = 0
    BY <2>1, <2>2 DEF Filled, Reading
  <2>4. \A s \in Slots : ~(Ahead(s)' < Filled')
    BY <2>2, <2>3 DEF Ahead, Slots
  <2>5. /\ inSema' + Filled' + Reading' <= N
        /\ wrPtr' = Plus(rdPtr', Filled', N)
        /\ decoded' = Plus(played', Filled', Numbers)
    BY <2>2, <2>3 DEF Plus, Numbers
  <2>6. RingSound'
    BY <2>2, <2>4, <2>5, Zenon DEF RingSound, Slots, Numbers
  <2>7. PlaysDecoded'
    BY <2>1, <2>2 DEF PlaysDecoded
  <2> QED BY <2>6, <2>7
<1>3. ASSUME NEW found \in bgmLoad, bgmStart(found) PROVE RingSound' /\ PlaysDecoded'
  <2>1. play = "dormant" /\ dec = "dormant"
    BY <1>3, Zenon DEF bgmStart, ThreadsOfSession, ThreadsGone
  <2>2. play' # "audio" /\ dec' # "read"
    BY <1>3, <2>1 DEF bgmStart
  <2> QED BY <1>3, <2>1, <2>2, RingUntouched DEF bgmStart
<1>4. CASE Quit \/ unloadLwnbdSvr
  BY <1>4, RingUntouched DEF Quit, unloadLwnbdSvr
<1> QED BY <1>1, <1>2, <1>3, <1>4 DEF GuiSteps

\* Stops leave the ring, or end the session that uses it.
LEMMA RingUser ==
  ASSUME DataTypes, RingSound, PlaysDecoded, User \/ deinit
  PROVE  RingSound' /\ PlaysDecoded'
<1>1. ASSUME bgmQuiesce, UNCHANGED play PROVE RingSound' /\ PlaysDecoded'
  BY <1>1, RingAbandoned DEF bgmQuiesce
<1>2. CASE guiSetAudioSettingsState
  BY <1>2, RingUntouched DEF guiSetAudioSettingsState
<1>3. CASE ChangeTheme
  BY <1>1, <1>3, RingUntouched DEF ChangeTheme
<1>4. CASE loadLwnbdSvr
  BY <1>1, <1>4, RingUntouched DEF loadLwnbdSvr, audioEnd
<1>5. CASE deinit
  BY <1>1, <1>5, RingUntouched DEF deinit, audioEnd
<1> QED BY <1>2, <1>3, <1>4, <1>5 DEF User

----------------------------------------------------------------------------

\* Every step preserves the invariant.
LEMMA NextIInv == IInv /\ [Next]_vars => IInv'
<1> SUFFICES ASSUME IInv, [Next]_vars PROVE IInv'
  OBVIOUS
<1> USE DEF IInv
<1>1. FlagTypes /\ DataTypes
  BY DEF TypeOK
<1>2. TypeOK'
  BY <1>1, FlagTypesNext, DataTypesNext DEF TypeOK
<1>3. CASE Overrun
  BY <1>2, <1>3, OverrunStays
<1>4. CASE Running
  <2> USE <1>4 DEF Running
  <2>1. CASE PlaySteps
    BY <1>1, <1>2, <2>1, ThreadsPlay, RingPlays
  <2>2. CASE DecodeSteps \/ ReadEnds
    BY <1>1, <1>2, <2>2, ThreadsDecode, RingDecodes
  <2>3. CASE StartOver
    BY <1>2, <2>3, OverrunBegins
  <2>4. CASE GuiSteps /\ ~StartOver
    BY <1>1, <1>2, <2>4, ThreadsGui, RingGui
  <2>5. CASE User \/ deinit
    BY <1>1, <1>2, <2>5, ThreadsUser, RingUser
  <2>6. CASE UNCHANGED vars
    <3>1. FlagsTell' /\ ThreadsOfSession'
      BY <2>6, Zenon DEF vars, flagVars, guiVars, FlagsTell, ThreadsOfSession,
         ThreadsGone, Exiting
    <3>2. RingSound' /\ PlaysDecoded'
      BY <2>6, RingUntouched DEF vars
    <3> QED BY <1>2, <3>1, <3>2
  <2> QED BY <2>1, <2>2, <2>3, <2>4, <2>5, <2>6 DEF Next
<1> QED BY <1>3, <1>4

\* The inductive invariant of background music: the flags tell where the threads
\* of bgmThread and bgmIoThread are, and the ring holds what the semaphores count.
THEOREM InductiveInvariant == Spec => []IInv
<1>1. Init => IInv
  BY InitIInv
<1>2. IInv /\ [Next]_vars => IInv'
  BY NextIInv
<1> QED BY <1>1, <1>2, PTL DEF Spec

\* For every size of the ring, the semaphores stay within it (their maximum is
\* BGM_RING_BUFFER_COUNT) and so do the indices of bgmThread and bgmIoThread.
THEOREM TypeCorrect == Spec => []TypeOK
<1>1. IInv => TypeOK
  BY DEF IInv
<1> QED BY <1>1, InductiveInvariant, PTL

\* What bgmThread hands to audsrv is whole and next in the track, whatever the
\* decoding thread does meanwhile and whenever a session is stopped.
THEOREM RingInOrder == Spec => []PlaysDecoded
<1>1. IInv => PlaysDecoded
  BY DEF IInv, Running, Overrun, PlaysDecoded
<1> QED BY <1>1, InductiveInvariant, PTL

\* No stop and no exit closes the track under a read of bgmIoThread, whichever of
\* its limited waits ran out.  Nothing is said once bgmStart has been called over
\* threads that a stop gave up on.
THEOREM TrackStaysOpen == Spec => []TrackHeld
<1>1. IInv => TrackHeld
  BY DEF IInv, Running, Overrun, ThreadsOfSession, TrackHeld
<1> QED BY <1>1, InductiveInvariant, PTL

\* bgmInit runs while a thread of an earlier session is alive only if the last
\* bgmStop gave up on that thread: bgmIsPlaying, which two ending threads and the
\* GUI thread share, lets it happen in no other way.
THEOREM SessionsApart == Spec => []OneSession
<1>1. IInv => OneSession
  BY DEF IInv, Running, Overrun, ThreadsOfSession, OneSession
<1> QED BY <1>1, InductiveInvariant, PTL

\* bgmBufferedChunks, which two threads count beside the semaphore, agrees with it.
THEOREM ReserveAgrees == Spec => []ReserveExact
<1>1. IInv => ReserveExact
  BY DEF IInv, Running, Overrun, RingSound, ReserveExact
<1> QED BY <1>1, InductiveInvariant, PTL
=============================================================================
