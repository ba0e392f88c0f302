---------------------------- MODULE UdpFsProofs ----------------------------
(***************************************************************************)
(* Why the one socket of UDPFS needs no lock (module UdpFs), for every     *)
(* size of windows, answers and sequence space, any number of calls and    *)
(* any losses on the wire.                                                 *)
(***************************************************************************)
EXTENDS UdpFs, TLAPS

Discovering == {"disc_wait", "disc_got"}
Requesting  == {"send", "snd_wait", "snd_got", "recv", "rcv_got", "check"}

Labels == {"idle"} \cup Discovering \cup Requesting

\* Who may be at work: a caller only in a session; the watchdog while it looks
\* for the server, or for the first request of a session, before the device is
\* registered and so before it can be called.
Turns ==
  /\ pc \in [Threads -> Labels]
  /\ pc[User] \notin Discovering
  /\ pc[User] # "idle" => state = "connected" /\ pc[Dog] = "idle"
  /\ pc[Dog] # "idle" => g_udpfs_registered = FALSE
  /\ pc[Dog] \in Discovering => state = "discovering"
  /\ pc[Dog] \in Requesting => state = "connected" /\ dev = "bd"

\* At first nobody uses the socket.
LEMMA InitTurns == Init => Turns
BY DEF Init, Turns, Threads, User, Dog, Labels, Discovering, Requesting

\* A thread inside a request.
LEMMA RequestTurns ==
  ASSUME Turns, NEW t \in Threads, Steps(t)
  PROVE  Turns'
<1> USE DEF Turns, Threads, User, Dog, Labels, Discovering, Requesting, Goto
<1>1. CASE Transmit(t)
  BY <1>1 DEF Transmit, sockVars
<1>2. CASE SendWakes(t)
  BY <1>2 DEF SendWakes, sockVars
<1>3. CASE SendGot(t)
  BY <1>3 DEF SendGot, EndCall
<1>4. CASE RecvWakes(t)
  BY <1>4 DEF RecvWakes, sockVars
<1>5. CASE RecvFinished(t)
  BY <1>5 DEF RecvFinished, sockVars
<1>6. CASE RecvGoesOn(t)
  BY <1>6 DEF RecvGoesOn, sockVars
<1>7. CASE RecvTimesOut(t)
  BY <1>7 DEF RecvTimesOut, GoesDown, EndCall
<1>8. ASSUME NEW ok \in BOOLEAN, Check(t, ok) PROVE Turns'
  BY <1>8 DEF Check, EndCall
<1> QED BY <1>1, <1>2, <1>3, <1>4, <1>5, <1>6, <1>7, <1>8 DEF Steps

\* A call of the device, and the watchdog between requests.
LEMMA BeginTurns ==
  ASSUME Turns, BdCalls \/ FileCalls \/ DogSteps
  PROVE  Turns'
<1> USE DEF Turns, Threads, User, Dog, Labels, Discovering, Requesting, Goto
<1>1. ASSUME NEW o, UserCalls(o), pc[Dog] \notin Requesting PROVE Turns'
  <2>1. pc[User] = "idle" /\ state = "connected"
    BY <1>1 DEF UserCalls, CanCall, Connected
  <2>2. pc' = [pc EXCEPT ![User] = "send"] /\ UNCHANGED <<dev, state, g_udpfs_registered>>
    BY <1>1 DEF UserCalls, BeginCall, sockVars
  <2> QED BY <1>1, <2>1, <2>2
<1>2. CASE BdCalls
  BY <1>1, <1>2 DEF BdCalls
<1>3. CASE FileCalls
  BY <1>1, <1>3 DEF FileCalls
<1>4. CASE DogChecks
  BY <1>4 DEF DogChecks, Discover, Connected
<1>5. CASE DiscoverWakes
  BY <1>5 DEF DiscoverWakes, sockVars
<1>6. CASE DiscoverFinds
  <2>1. pc[Dog] = "disc_got" /\ state' = "connected" /\ UNCHANGED <<dev, g_udpfs_registered>>
    BY <1>6 DEF DiscoverFinds
  <2>2. \/ dev = "bd" /\ pc' = [pc EXCEPT ![Dog] = "send"]
        \/ pc' = [pc EXCEPT ![Dog] = "idle"]
    BY <1>6 DEF DiscoverFinds, BeginCall
  <2> QED BY <2>1, <2>2
<1>7. CASE DiscoverRetries
  BY <1>7 DEF DiscoverRetries, Discover
<1> QED BY <1>2, <1>3, <1>4, <1>5, <1>6, <1>7 DEF DogSteps

\* Packets, timers, the server and faults leave the turns alone.
LEMMA NextTurns == Turns /\ [Next]_vars => Turns'
<1> SUFFICES ASSUME Turns, [Next]_vars PROVE Turns'
  OBVIOUS
<1>1. ASSUME UNCHANGED <<pc, state, g_udpfs_registered, dev>> PROVE Turns'
  BY <1>1 DEF Turns
<1>2. CASE Ist
  BY <1>1, <1>2 DEF Ist, IstInform, IstAck, IstData, sockVars, threadVars
<1>3. ASSUME NEW due \in BOOLEAN, TimeoutCb(due) PROVE Turns'
  BY <1>1, <1>3 DEF TimeoutCb, sockVars, threadVars
<1>4. CASE Server
  <2>1. ASSUME NEW ok \in BOOLEAN, SrvTakes(ok) PROVE Turns'
    BY <1>1, <2>1 DEF SrvTakes, sockVars, threadVars
  <2>2. CASE SrvDiscovers \/ SrvHearsAck \/ SrvIgnores \/ SrvTimer
    BY <1>1, <2>2
       DEF SrvDiscovers, SrvHearsAck, SrvIgnores, SrvTimer, sockVars, threadVars
  <2> QED BY <1>4, <2>1, <2>2 DEF Server
<1>5. CASE Faults
  BY <1>1, <1>5 DEF Faults, SrvRestarts, Lose, Repeat, sockVars, threadVars
<1>6. CASE Rests \/ UNCHANGED vars
  BY <1>1, <1>6 DEF Rests, vars, sockVars, threadVars
<1> QED BY <1>2, <1>3, <1>4, <1>5, <1>6, RequestTurns, BeginTurns DEF Next

\* The watchdog of udpfs_bd.c and the callers of the device never use the socket
\* at the same time: the session's state and the registration are enough, without
\* a lock, for every behaviour of the network and the server.
THEOREM SocketHasOneUser == Spec => []OneUser
<1>1. Turns => OneUser
  BY DEF Turns, OneUser, Threads, User, Dog
<1>2. Spec => []Turns
  BY InitTurns, NextTurns, PTL DEF Spec
<1> QED BY <1>1, <1>2, PTL
=============================================================================
