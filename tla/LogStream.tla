------------------------------ MODULE LogStream ------------------------------
(***************************************************************************)
(* The streaming goroutine of one cycle of dockerlog.Supervisor, in full:  *)
(* the loop of streamFrom, which opens the container's log, copies it,     *)
(* and reopens it from `since' after a pause; and the two line writers     *)
(* that cut what they are given into lines.                                *)
(*                                                                         *)
(* A byte is its position in the daemon's log.  Time is told by the length *)
(* of that log: `since' = n is an instant after n bytes were logged.  The  *)
(* client's clock may be behind or ahead of the daemon's.                  *)
(***************************************************************************)
EXTENDS Integers, SequencesExt

CONSTANTS
    Streams,      \* stdout and stderr
    Writes,       \* the bytes the container may write
    MaxLine,      \* maxLineLen
    BaseBackoff,  \* the configured RestartBackoff
    MaxBackoff,   \* the cap on the pause
    Behind,       \* how far the client's clock may be behind the daemon's
    Ahead,        \* and how far ahead
    SameInstant,  \* bound: bytes the daemon has stamped with the instant `since'
    MaxLog,       \* bound: bytes the container logs
    MaxReopens    \* bound: streams the daemon closes cleanly

Kind == {"char", "cr", "nl"}
Byte == [from : Streams, kind : Kind]

ASSUME StreamAssumptions ==
    /\ Writes \subseteq Byte
    /\ MaxLine \in Nat \ {0}
    /\ BaseBackoff \in Nat \ {0}
    /\ MaxBackoff \in Nat \ {0}
    /\ Behind \in Nat
    /\ Ahead \in Nat
    /\ SameInstant \in Nat
    /\ MaxLog \in Nat
    /\ MaxReopens \in Nat

VARIABLES
    log,         \* what the container wrote, in the order it was logged
    cancelled,   \* the goroutine's context is
    terminated,  \* the container is gone
    loop,        \* where the goroutine is
    next,        \* the position the open stream continues from
    first,       \* history: the position it began at
    since,       \* `since', 0 for ""
    anyBytes,    \* the byte counters of this stream are not both 0
    backoff,     \* currentBackoff
    rest,        \* rest, in the Write that is in progress
    writer,      \* the stream whose writer is in Write
    buf,         \* buf[w]: the bytes since the last newline
    out,         \* out[w]: the lines logged
    received,    \* history: what each writer was given
    idle,        \* history: how many fast empty streams in a row
    reopens      \* how many streams were closed cleanly

env == <<log, cancelled, terminated>>
stream == <<next, first, anyBytes>>
pace == <<since, backoff, idle, reopens>>
lines == <<rest, writer, buf, out, received>>
vars == <<env, loop, stream, pace, lines>>

IsNL(p) == log[p].kind = "nl"
IsCR(p) == log[p].kind = "cr"

Init ==
    /\ log = <<>>
    /\ cancelled = FALSE
    /\ terminated = FALSE
    /\ loop = "unborn"
    /\ next = 1
    /\ first = 1
    /\ since = 0
    /\ anyBytes = FALSE
    /\ backoff = BaseBackoff
    /\ rest = <<>>
    /\ writer \in Streams
    /\ buf = [w \in Streams |-> <<>>]
    /\ out = [w \in Streams |-> <<>>]
    /\ received = [w \in Streams |-> <<>>]
    /\ idle = 0
    /\ reopens = 0

-----------------------------------------------------------------------------
\* The container and the owner of the supervisor.

Log(b) ==
    /\ ~terminated
    /\ Len(log) < MaxLog
    /\ log' = Append(log, b)
    /\ UNCHANGED <<cancelled, terminated, loop, stream, pace, lines>>

Cancel ==
    /\ loop # "unborn"
    /\ ~cancelled
    /\ cancelled' = TRUE
    /\ UNCHANGED <<log, terminated, loop, stream, pace, lines>>

Terminate ==
    /\ loop # "unborn"
    /\ ~terminated
    /\ terminated' = TRUE
    /\ UNCHANGED <<log, cancelled, loop, stream, pace, lines>>

-----------------------------------------------------------------------------
\* lineWriter.

TrimRight(line) ==
    SubSeq(line, 1, Max({0} \cup {i \in 1 .. Len(line) : ~IsCR(line[i])}))

Emit(logged, line) ==
    IF TrimRight(line) = <<>> THEN logged ELSE Append(logged, TrimRight(line))

\* IndexByte: i bytes of rest come before its first newline, or rest has none
\* and is i bytes long.
IndexByte(i) ==
    /\ i \in 0 .. Len(rest)
    /\ \A j \in 1 .. i : ~IsNL(rest[j])
    /\ i < Len(rest) => IsNL(rest[i + 1])

\* Mutant: only the bytes of this Write are counted.
OverlongIgnoringBuf(i) == i > MaxLine

Overlong(i) == Len(buf[writer]) + i > MaxLine

\* Mutant: the buffer is not emptied.
KeptBuf == buf

EmptiedBuf == [buf EXCEPT ![writer] = <<>>]

\* The line has more than MaxLine bytes: the first MaxLine are logged.
SplitOverlong(i) ==
    LET n == MaxLine - Len(buf[writer]) IN
    /\ Overlong(i)
    /\ out' = [out EXCEPT ![writer] = Emit(@, buf[writer] \o SubSeq(rest, 1, n))]
    /\ buf' = EmptiedBuf
    /\ rest' = SubSeq(rest, n + 1, Len(rest))
    /\ UNCHANGED <<loop, anyBytes>>

\* The line ends in this Write.
TakeLine(i) ==
    /\ ~Overlong(i)
    /\ i < Len(rest)
    /\ out' = [out EXCEPT ![writer] = Emit(@, buf[writer] \o SubSeq(rest, 1, i))]
    /\ buf' = EmptiedBuf
    /\ rest' = SubSeq(rest, i + 2, Len(rest))
    /\ UNCHANGED <<loop, anyBytes>>

\* No newline is left: Write keeps the fragment and returns.
KeepRest(i) ==
    /\ ~Overlong(i)
    /\ i = Len(rest)
    /\ buf' = [buf EXCEPT ![writer] = @ \o rest]
    /\ rest' = <<>>
    /\ loop' = "reading"
    /\ anyBytes' = TRUE
    /\ UNCHANGED out

\* One turn of the loop in Write.
WriteStep ==
    /\ loop = "writing"
    /\ \E i \in 0 .. Len(rest) :
        /\ IndexByte(i)
        /\ SplitOverlong(i) \/ TakeLine(i) \/ KeepRest(i)
    /\ UNCHANGED <<env, next, first, pace, writer, received>>

FlushBoth ==
    /\ out' = [w \in Streams |-> Emit(out[w], buf[w])]
    /\ buf' = [w \in Streams |-> <<>>]

-----------------------------------------------------------------------------
\* The loop of streamFrom.

\* Mutant: the log is read from now on.
FromNow == Len(log)

\* "", from the start of the log.
FirstSince == 0

Start ==
    /\ loop = "unborn"
    /\ loop' = "opening"
    /\ since' = FirstSince
    /\ UNCHANGED <<env, stream, backoff, idle, reopens, lines>>

\* `since' is inclusive: the daemon sends what was logged at that instant, too.
From == {n \in 1 .. since + 1 : n + SameInstant > since}

OpenAt(n) ==
    /\ loop' = "reading"
    /\ next' = n
    /\ first' = n
    /\ anyBytes' = FALSE
    /\ UNCHANGED <<env, pace, lines>>

\* Mutant: the stream is not opened under the goroutine's context.
OpenAnyway == loop = "opening" /\ \E n \in From : OpenAt(n)

OpenSucceeds == loop = "opening" /\ ~cancelled /\ \E n \in From : OpenAt(n)

\* The deferred Flush of both writers, at every return.
Return ==
    /\ loop' = "exited"
    /\ FlushBoth
    /\ UNCHANGED <<env, stream, pace, rest, writer, received>>

OpenFails == loop = "opening" /\ Return

\* StdCopy hands the next frame to the writer of its stream.
Frame(w, n) ==
    LET frame == [i \in 1 .. n |-> next + i - 1] IN
    /\ loop = "reading"
    /\ next + n - 1 <= Len(log)
    /\ \A i \in 1 .. n : log[frame[i]].from = w
    /\ loop' = "writing"
    /\ writer' = w
    /\ rest' = frame
    /\ received' = [received EXCEPT ![w] = @ \o frame]
    /\ next' = next + n
    /\ UNCHANGED <<env, first, anyBytes, pace, buf, out>>

ReadFails == loop = "reading" /\ Return

\* Mutant: a stream that was of use does not reset the pause.
NeverReset(fast) ==
    IF fast /\ ~anyBytes THEN Min({2 * backoff, MaxBackoff}) ELSE backoff

NextBackoff(fast) ==
    IF fast /\ ~anyBytes THEN Min({2 * backoff, MaxBackoff}) ELSE BaseBackoff

\* A clean end of stream, fast if within 100 ms of the opening.
ReadEOF(fast) ==
    /\ loop = "reading"
    /\ reopens < MaxReopens
    /\ loop' = "ended"
    /\ backoff' = NextBackoff(fast)
    /\ idle' = IF fast /\ next = first THEN idle + 1 ELSE 0
    /\ reopens' = reopens + 1
    /\ UNCHANGED <<env, stream, since, lines>>

\* Mutant: `since' is the instant the last stream was opened from.
SinceOpened == {since}

\* time.Now(), as the daemon's clock has it.
Now == {t \in 0 .. Len(log) + Ahead : t + Behind >= Len(log)}

RecordSince ==
    /\ loop = "ended"
    /\ loop' = "pausing"
    /\ since' \in Now
    /\ UNCHANGED <<env, stream, backoff, idle, reopens, lines>>

PauseElapses ==
    /\ loop = "pausing"
    /\ loop' = "opening"
    /\ UNCHANGED <<env, stream, pace, lines>>

PauseCancelled == loop = "pausing" /\ cancelled /\ Return

Goroutine ==
    \/ Start
    \/ OpenSucceeds
    \/ OpenFails
    \/ \E w \in Streams, n \in 1 .. MaxLog : Frame(w, n)
    \/ WriteStep
    \/ ReadFails
    \/ \E fast \in BOOLEAN : ReadEOF(fast)
    \/ RecordSince
    \/ PauseElapses
    \/ PauseCancelled

Next ==
    \/ \E b \in Writes : Log(b)
    \/ Cancel
    \/ Terminate
    \/ Goroutine

Spec == Init /\ [][Next]_vars

\* As for Supervisor: requests return, timers fire, a read ends once the
\* container is gone.
Fairness ==
    /\ WF_vars(OpenSucceeds \/ OpenFails)
    /\ WF_vars(WriteStep)
    /\ WF_vars(RecordSince)
    /\ WF_vars(PauseElapses \/ PauseCancelled)
    /\ WF_vars(terminated /\ (ReadFails \/ \E fast \in BOOLEAN : ReadEOF(fast)))

FairSpec == Spec /\ Fairness

-----------------------------------------------------------------------------
\* Properties.

\* Every variable has its type, and no buffer outgrows a line.
TypeOK ==
    /\ log \in Seq(Byte)
    /\ cancelled \in BOOLEAN
    /\ terminated \in BOOLEAN
    /\ loop \in {"unborn", "opening", "reading", "writing", "ended", "pausing", "exited"}
    /\ next \in Nat \ {0}
    /\ first \in Nat \ {0}
    /\ since \in Nat
    /\ anyBytes \in BOOLEAN
    /\ backoff \in Nat \ {0}
    /\ rest \in Seq(1 .. Len(log))
    /\ writer \in Streams
    /\ buf \in [Streams -> Seq(1 .. Len(log))]
    /\ \A w \in Streams : Len(buf[w]) <= MaxLine
    /\ out \in [Streams -> Seq(Seq(1 .. Len(log)))]
    /\ received \in [Streams -> Seq(1 .. Len(log))]
    /\ idle \in Nat
    /\ reopens \in 0 .. MaxReopens

\* The reference: all that a writer was given is cut at newlines, and each
\* part into pieces of MaxLine bytes, the last of which may be shorter.
Newlines(s) == {i \in DOMAIN s : IsNL(s[i])}
LineStart(nl, i) == Max({1} \cup {j \in 2 .. i : j - 1 \in nl})
PieceStart(nl, i) ==
    /\ i \notin nl
    /\ \E k \in 0 .. i : i = LineStart(nl, i) + k * MaxLine
PieceEnd(nl, len, i) ==
    Max({j \in i .. len : j < i + MaxLine /\ \A k \in i .. j : k \notin nl})
Piece(s, i) == SubSeq(s, i, PieceEnd(Newlines(s), Len(s), i))

\* Where the pieces of s start that are not empty when trimmed; the one that
\* ends with s is among them only if nothing can follow.
Pieces(s, final) ==
    {i \in DOMAIN s :
        /\ PieceStart(Newlines(s), i)
        /\ final \/ PieceEnd(Newlines(s), Len(s), i) < Len(s)
        /\ TrimRight(Piece(s, i)) # <<>>}

\* The lines logged are the pieces of s that start at starts, each once and in
\* their order.
AreLinesOf(logged, s, starts) ==
    \E start \in [DOMAIN logged -> starts] :
        /\ \A i \in starts : \E n \in DOMAIN logged : start[n] = i
        /\ \A n \in DOMAIN logged :
            /\ logged[n] = TrimRight(Piece(s, start[n]))
            /\ \A m \in 1 .. n - 1 : start[m] < start[n]

\* The lines logged depend on the bytes alone and not on how frames and
\* reopened streams cut them: no byte is lost, doubled, joined to another
\* line or to the other stream's, and the last line is not dropped.
LinesMatchBytes ==
    loop # "writing" =>
        \A w \in Streams :
            AreLinesOf(out[w], received[w], Pieces(received[w], loop = "exited"))

\* A byte comes twice, with equal clocks, only if it was logged at the very
\* instant that `since' names, which is inclusive, and else only if the client's
\* clock is behind: what a reopened stream repeats was logged at most that long
\* before the last one ended.
RepeatsBounded ==
    \A w \in Streams : \A j \in DOMAIN received[w] : \A i \in 1 .. j - 1 :
        received[w][i] < received[w][j] + Behind + SameInstant

\* Bytes are missed between two streams only.  The first stream, however late
\* it is opened, begins with the first byte, and each one hands to its writers
\* all from where it began up to where it is, when it has ended, too.
MissedOnlyBetween ==
    /\ reopens = 0 => first = 1
    /\ \A p \in first .. next - 1 :
        \E i \in DOMAIN received[log[p].from] : received[log[p].from][i] = p

\* The configured pause, doubled n times.
Doubled[n \in Nat] == IF n = 0 THEN BaseBackoff ELSE 2 * Doubled[n - 1]

\* The pause is the configured one after a stream that was of any use, and
\* doubles up to the cap with every one in a row that was not.
BackoffMatchesIdling ==
    backoff = IF idle = 0 THEN BaseBackoff ELSE Min({Doubled[idle], MaxBackoff})

\* Where Supervisor has the goroutine.
Stage ==
    CASE loop = "writing" -> "reading"
      [] loop = "ended"   -> "pausing"
      [] OTHER            -> loop

Sup == INSTANCE Supervisor WITH
    Client     <- {"owner"},
    MaxCycles  <- 1,
    cycles     <- IF loop = "unborn" THEN 0 ELSE 1,
    logDone    <- IF loop = "unborn" THEN 0 ELSE 1,
    logStop    <- IF loop = "unborn" \/ cancelled THEN 0 ELSE 1,
    cancelled  <- IF cancelled THEN {1} ELSE {},
    stream     <- <<Stage>>,
    terminated <- IF terminated THEN {1} ELSE {},
    waiting    <- [c \in {"owner"} |-> 0],
    watchdogs  <- {}

\* The goroutine does what Supervisor takes it to do, in the order it does it,
\* and ends when Supervisor says that it does.
ImplementsSupervisor == Sup!FairSpec
=============================================================================
