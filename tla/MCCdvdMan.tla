----------------------------- MODULE MCCdvdMan -----------------------------
\* Games for CdvdMan.
EXTENDS CdvdMan

CONSTANTS c1, c2

NoOps == [c \in Clients |-> {}]
Plain == [ops |-> NoOps, nested |-> FALSE, alt |-> FALSE, mixes |-> FALSE,
          outranks |-> FALSE, blocks |-> FALSE, counts |-> {1, 3}]
\* A game on one thread.
Alone(ops) == [NoOps EXCEPT ![c1] = ops]

\* One thread reads, with a callback that chains reads; another uses files.
Reading == [Plain EXCEPT !.nested = TRUE,
  !.ops = (c1 :> {"read", "sync", "callback"}
        @@ c2 :> {"search", "open", "file", "ee"})]
\* Both threads use files.
Filing == [Plain EXCEPT
  !.ops = [c \in Clients |-> {"search", "open", "file", "ee"}]]
\* Reads to unaligned buffers and searches on one thread, files on another.
Copying == [Plain EXCEPT
  !.ops = (c1 :> {"unaligned", "search"} @@ c2 :> {"file", "ee"})]
\* Reads to unaligned buffers on one thread, searches on another.
Crossing == [Plain EXCEPT
  !.ops = (c1 :> {"unaligned", "read"} @@ c2 :> {"search"})]
\* One thread streams, pauses, seeks, and reads between streams.
Streaming == [Plain EXCEPT
  !.ops = Alone({"start", "stop", "pause", "resume", "stread", "ee", "seek"})]
\* Blocking reads of whole banks.
Blocking == [Plain EXCEPT !.blocks = TRUE, !.counts = {2, 4},
  !.ops = Alone({"start", "stop", "stread"})]
\* Blocking reads that leave a bank half read, beside a thread that asks for
\* the drive's state.
Starving == [Blocking EXCEPT !.counts = {3, 4},
  !.ops = (c1 :> {"start", "stop", "stread"} @@ c2 :> {"sync"})]
\* A second thread reads while the first one streams.
Mixing == [Plain EXCEPT !.mixes = TRUE,
  !.ops = (c1 :> {"start", "stop"} @@ c2 :> {"file"})]
\* The reads of the compatibility mode.
AltReading == [Plain EXCEPT !.alt = TRUE,
  !.ops = Alone({"unaligned", "file", "search", "seek"})]
\* Threads above the reading thread.
Outranking == [Plain EXCEPT !.outranks = TRUE,
  !.ops = Alone({"file", "ee", "search"})]

DiscGames == {Reading, Filing, Copying, Crossing, Streaming, Blocking,
              Starving, Mixing, AltReading, Outranking}

\* A callback is registered and the game seeks before it reads.
Seeking == {[Plain EXCEPT !.ops = Alone({"callback", "seek", "read", "sync"})]}
=============================================================================
