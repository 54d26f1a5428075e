--------------------------- MODULE LogStreamProofs ---------------------------
(***************************************************************************)
(* Proofs about LogStream, for any length of the log, of a line and of the *)
(* pauses, and any difference between the clocks.                          *)
(***************************************************************************)
EXTENDS LogStream, TLAPS, SequenceTheorems, WellFoundedInduction

-----------------------------------------------------------------------------
\* Lemmas about the operators.

\* A set of numbers that is not empty has a least.
LEMMA LeastNat ==
  ASSUME NEW T, T \subseteq Nat, T # {}
  PROVE  \E m \in T : \A k \in T : m <= k
<1>1. PICK m \in T : \A k \in T : ~ (<<k, m>> \in OpToRel(<, Nat))
  BY NatLessThanWellFounded, WFMin
<1>2. \A k \in T : m <= k
  <2> TAKE k \in T
  <2>1. k \in Nat /\ m \in Nat
    OBVIOUS
  <2>2. k < m => <<k, m>> \in OpToRel(<, Nat)
    BY <2>1 DEF OpToRel
  <2>3. ~ (k < m)
    BY <1>1, <2>2
  <2> QED
    BY <2>1, <2>3
<1> QED
  BY <1>2

\* Induction, on a set of numbers.
LEMMA AllNats ==
  ASSUME NEW T, T \subseteq Nat, 0 \in T, \A n \in T : n + 1 \in T
  PROVE  T = Nat
<1> SUFFICES ASSUME Nat \ T # {} PROVE FALSE
  OBVIOUS
<1>1. PICK m \in Nat \ T : \A k \in Nat \ T : m <= k
  BY LeastNat
<1>2. m # 0 /\ m - 1 \in Nat
  OBVIOUS
<1>3. m - 1 \in T
  BY <1>1, <1>2
<1> QED
  BY <1>2, <1>3

\* A set of numbers up to n that is not empty has its Max among its members.
LEMMA MaxOfBounded ==
  ASSUME NEW n \in Nat, NEW T, T \subseteq 0 .. n, T # {}
  PROVE  /\ Max(T) \in T
         /\ \A i \in T : i <= Max(T)
<1> DEFINE D == {n - i : i \in T}
<1>1. D \subseteq Nat /\ D # {}
  <2>1. \A i \in T : n - i \in Nat
    OBVIOUS
  <2> QED
    BY Zenon, <2>1
<1>2. PICK d \in D : \A e \in D : d <= e
  BY <1>1, LeastNat
<1>3. PICK m \in T : d = n - m
  BY Zenon
<1>4. \A i \in T : i <= m
  <2> TAKE i \in T
  <2>1. n - i \in D
    OBVIOUS
  <2> QED
    BY <1>2, <1>3, <2>1
<1>5. \E x \in T : \A y \in T : x >= y
  BY <1>4
<1> QED
  BY <1>5 DEF Max

\* TrimRight returns a prefix of the line.
LEMMA TrimIsPrefix ==
  ASSUME NEW S, NEW line \in Seq(S)
  PROVE  /\ TrimRight(line) \in Seq(S)
         /\ Len(TrimRight(line)) <= Len(line)
         /\ \A i \in 1 .. Len(TrimRight(line)) : TrimRight(line)[i] = line[i]
<1> DEFINE T == {0} \cup {i \in 1 .. Len(line) : ~IsCR(line[i])}
<1>1. Len(line) \in Nat /\ \A i \in 1 .. Len(line) : line[i] \in S
  BY LenProperties, ElementOfSeq
<1>2. Max(T) \in 0 .. Len(line)
  <2>1. T \subseteq 0 .. Len(line) /\ T # {}
    BY <1>1
  <2> HIDE DEF T
  <2> QED
    BY <1>1, <2>1, MaxOfBounded
<1>3. TrimRight(line) = SubSeq(line, 1, Max(T))
  BY DEF TrimRight
<1> HIDE DEF T
<1>4. \A i \in 1 .. Max(T) : line[i] \in S
  BY <1>1, <1>2
<1> QED
  BY <1>1, <1>2, <1>3, <1>4, SubSeqProperties

LEMMA MinOfTwo ==
  ASSUME NEW a \in Nat, NEW b \in Nat
  PROVE  Min({a, b}) \in {a, b}
<1>1. \E x \in {a, b} : \A y \in {a, b} : x =< y
  <2>1. CASE a <= b
    BY <2>1
  <2>2. CASE b <= a
    BY <2>2
  <2> QED
    BY <2>1, <2>2
<1> QED
  BY <1>1 DEF Min

-----------------------------------------------------------------------------
\* What may be said of a line that was logged: it is no longer than it may be,
\* no newline is in it, and it is a run of consecutive bytes of r.
Run(r, line) ==
    \E k \in Nat :
        /\ k + Len(line) <= Len(r)
        /\ \A i \in 1 .. Len(line) : line[i] = r[k + i]

Whole(r, line) ==
    /\ Len(line) <= MaxLine
    /\ \A i \in 1 .. Len(line) : ~IsNL(line[i])
    /\ Run(r, line)

AllWhole(r, logged) == \A n \in 1 .. Len(logged) : Whole(r, logged[n])

\* s is what r ends with.
EndsWith(r, s) ==
    /\ Len(s) <= Len(r)
    /\ \A i \in 1 .. Len(s) : s[i] = r[Len(r) - Len(s) + i]

LEMMA EmitType ==
  ASSUME NEW S, NEW logged \in Seq(Seq(S)), NEW line \in Seq(S)
  PROVE  Emit(logged, line) \in Seq(Seq(S))
<1>1. TrimRight(line) \in Seq(S)
  BY TrimIsPrefix
<1>2. Append(logged, TrimRight(line)) \in Seq(Seq(S))
  BY <1>1
<1> QED
  BY <1>2 DEF Emit

LEMMA EmitWhole ==
  ASSUME NEW S, NEW r \in Seq(S), NEW logged \in Seq(Seq(S)), NEW line \in Seq(S),
         AllWhole(r, logged), Whole(r, line), MaxLine \in Nat
  PROVE  AllWhole(r, Emit(logged, line))
<1> DEFINE t == TrimRight(line)
<1>1. /\ t \in Seq(S)
      /\ Len(t) <= Len(line)
      /\ \A i \in 1 .. Len(t) : t[i] = line[i]
  BY TrimIsPrefix
<1>2. Len(t) \in Nat /\ Len(line) \in Nat /\ Len(r) \in Nat /\ Len(logged) \in Nat
  BY <1>1, LenProperties
<1> HIDE DEF t
<1>3. Whole(r, t)
  <2>1. Len(t) <= MaxLine /\ \A i \in 1 .. Len(t) : ~IsNL(t[i])
    BY <1>1, <1>2 DEF Whole
  <2>2. PICK k \in Nat : /\ k + Len(line) <= Len(r)
                         /\ \A i \in 1 .. Len(line) : line[i] = r[k + i]
    BY DEF Whole, Run
  <2>3. k + Len(t) <= Len(r) /\ \A i \in 1 .. Len(t) : t[i] = r[k + i]
    BY <1>1, <1>2, <2>2
  <2> QED
    BY <2>1, <2>3 DEF Whole, Run
<1>4. AllWhole(r, Append(logged, t))
  <2>1. Len(Append(logged, t)) = Len(logged) + 1
    BY <1>1
  <2>2. \A n \in 1 .. Len(logged) + 1 :
            Append(logged, t)[n] = IF n <= Len(logged) THEN logged[n] ELSE t
    BY <1>1, <1>2
  <2> QED
    BY <1>2, <1>3, <2>1, <2>2 DEF AllWhole
<1> QED
  BY <1>4 DEF Emit, t

-----------------------------------------------------------------------------
\* Type correctness.

Positions == 1 .. Len(log)

LinesType ==
    /\ rest \in Seq(Positions)
    /\ writer \in Streams
    /\ buf \in [Streams -> Seq(Positions)]
    /\ out \in [Streams -> Seq(Seq(Positions))]
    /\ received \in [Streams -> Seq(Positions)]
    /\ \A w \in Streams : Len(buf[w]) <= MaxLine

OthersType ==
    /\ log \in Seq(Byte)
    /\ cancelled \in BOOLEAN
    /\ terminated \in BOOLEAN
    /\ loop \in {"unborn", "opening", "reading", "writing", "ended", "pausing", "exited"}
    /\ next \in Nat \ {0}
    /\ first \in Nat \ {0}
    /\ since \in Nat
    /\ anyBytes \in BOOLEAN
    /\ backoff \in Nat \ {0}
    /\ idle \in Nat
    /\ reopens \in 0 .. MaxReopens

LEMMA TypeSplit == TypeOK <=> LinesType /\ OthersType
BY DEF TypeOK, LinesType, OthersType, Positions

LEMMA InitType == Init => TypeOK
<1> SUFFICES ASSUME Init PROVE TypeOK
  OBVIOUS
<1>1. \A S : <<>> \in Seq(S) /\ Len(<<>>) = 0
  BY EmptySeq
<1>2. LinesType
  BY <1>1, StreamAssumptions DEF Init, LinesType
<1>3. log \in Seq(Byte)
  BY <1>1 DEF Init
<1>4. cancelled \in BOOLEAN /\ terminated \in BOOLEAN /\ anyBytes \in BOOLEAN
  BY Zenon DEF Init
<1>5. /\ loop = "unborn" /\ next \in Nat \ {0} /\ first \in Nat \ {0} /\ since \in Nat
      /\ backoff \in Nat \ {0} /\ idle \in Nat /\ reopens \in 0 .. MaxReopens
  BY StreamAssumptions DEF Init
<1>6. OthersType
  BY <1>3, <1>4, <1>5 DEF OthersType
<1> QED
  BY <1>2, <1>6, TypeSplit

\* What Return does to the lines.
LEMMA ReturnType ==
  ASSUME TypeOK, Return
  PROVE  LinesType'
<1>1. LinesType
  BY TypeSplit
<1>2. log' = log
  BY DEF Return, env
<1>3. Positions' = Positions
  BY <1>2 DEF Positions
<1>4. rest' = rest /\ writer' = writer /\ received' = received
  BY DEF Return
<1>5. out' = [w \in Streams |-> Emit(out[w], buf[w])] /\ buf' = [w \in Streams |-> <<>>]
  BY DEF Return, FlushBoth
<1>6. \A w \in Streams : Emit(out[w], buf[w]) \in Seq(Seq(Positions))
  <2> TAKE w \in Streams
  <2>1. out[w] \in Seq(Seq(Positions)) /\ buf[w] \in Seq(Positions)
    BY <1>1 DEF LinesType
  <2> QED
    BY <2>1, EmitType
<1>7. <<>> \in Seq(Positions) /\ Len(<<>>) = 0
  BY EmptySeq
<1> QED
  BY <1>1, <1>3, <1>4, <1>5, <1>6, <1>7, StreamAssumptions DEF LinesType

\* A log that grows keeps the positions it had.
LEMMA LogType ==
  ASSUME TypeOK, NEW b \in Writes, Log(b)
  PROVE  LinesType' /\ OthersType'
<1>1. LinesType /\ OthersType
  BY TypeSplit
<1>2. log' = Append(log, b) /\ b \in Byte
  BY StreamAssumptions DEF Log
<1>3. log' \in Seq(Byte) /\ Len(log') = Len(log) + 1 /\ Len(log) \in Nat
  BY <1>1, <1>2 DEF OthersType
<1>4. Positions \subseteq Positions'
  BY <1>3 DEF Positions
<1>5. \A q \in Seq(Positions) : q \in Seq(Positions')
  BY <1>4, SeqMonotonic
<1>6. \A q \in Seq(Seq(Positions)) : q \in Seq(Seq(Positions'))
  <2>1. Seq(Positions) \subseteq Seq(Positions')
    BY <1>5
  <2> QED
    BY <2>1, SeqMonotonic
<1>7. /\ rest' = rest /\ writer' = writer /\ buf' = buf /\ out' = out
      /\ received' = received
  BY DEF Log, lines
<1>8. LinesType'
  BY <1>1, <1>5, <1>6, <1>7 DEF LinesType
<1>9. OthersType'
  BY <1>1, <1>3 DEF OthersType, Log, stream, pace
<1> QED
  BY <1>8, <1>9

\* The bytes of a frame are positions of the log.
LEMMA FrameType ==
  ASSUME TypeOK, NEW w \in Streams, NEW n \in 1 .. MaxLog, Frame(w, n)
  PROVE  LET frame == [i \in 1 .. n |-> next + i - 1] IN
         /\ n \in Nat \ {0}
         /\ frame \in Seq(Positions)
         /\ Len(frame) = n
         /\ \A i \in 1 .. n : frame[i] = next + i - 1
<1> DEFINE frame == [i \in 1 .. n |-> next + i - 1]
<1>1. n \in Nat \ {0}
  BY StreamAssumptions
<1>2. next \in Nat \ {0} /\ Len(log) \in Nat
  BY LenProperties DEF TypeOK
<1>3. next + n - 1 <= Len(log)
  BY DEF Frame
<1>4. \A i \in 1 .. n : next + i - 1 \in Positions
  BY <1>1, <1>2, <1>3 DEF Positions
<1>5. frame \in [1 .. n -> Positions]
  BY <1>4
<1>6. frame \in Seq(Positions)
  BY <1>1, <1>5, SeqDef
<1>7. Len(frame) = n
  BY <1>1
<1> QED
  BY <1>1, <1>6, <1>7

LEMMA FrameLines ==
  ASSUME TypeOK, NEW w \in Streams, NEW n \in 1 .. MaxLog, Frame(w, n)
  PROVE  LinesType' /\ OthersType'
<1> DEFINE frame == [i \in 1 .. n |-> next + i - 1]
<1>1. LinesType /\ OthersType
  BY TypeSplit
<1>2. n \in Nat \ {0} /\ frame \in Seq(Positions)
  BY FrameType
<1>3. /\ log' = log /\ loop' = "writing" /\ writer' = w /\ rest' = frame
      /\ received' = [received EXCEPT ![w] = @ \o frame] /\ next' = next + n
      /\ buf' = buf /\ out' = out
      /\ UNCHANGED <<cancelled, terminated, since, first, anyBytes, backoff, idle, reopens>>
  BY DEF Frame, env, pace
<1> HIDE DEF frame
<1>4. Positions' = Positions
  BY <1>3 DEF Positions
<1>5. received[w] \o frame \in Seq(Positions)
  BY <1>1, <1>2, ConcatProperties DEF LinesType
<1>6. LinesType'
  BY <1>1, <1>2, <1>3, <1>4, <1>5 DEF LinesType
<1>7. OthersType'
  BY <1>1, <1>2, <1>3 DEF OthersType
<1> QED
  BY <1>6, <1>7

\* Part of rest, and a line made of the buffer and the next n bytes of rest.
LEMMA PartOfRest ==
  ASSUME TypeOK, NEW m \in Nat \ {0}, NEW n \in 0 .. Len(rest)
  PROVE  /\ SubSeq(rest, m, n) \in Seq(Positions)
         /\ Len(SubSeq(rest, m, n)) = IF m <= n THEN n - m + 1 ELSE 0
         /\ \A i \in 1 .. n - m + 1 : SubSeq(rest, m, n)[i] = rest[m + i - 1]
<1>1. rest \in Seq(Positions) /\ Len(rest) \in Nat
  BY TypeSplit, LenProperties DEF LinesType
<1>2. \A i \in 1 .. Len(rest) : rest[i] \in Positions
  BY <1>1, ElementOfSeq
<1>3. \A i \in m .. n : rest[i] \in Positions
  BY <1>1, <1>2
<1> QED
  BY <1>1, <1>3, SubSeqProperties

NextLine(n) == buf[writer] \o SubSeq(rest, 1, n)

LEMMA NextLineType ==
  ASSUME TypeOK, NEW n \in 0 .. Len(rest)
  PROVE  /\ NextLine(n) \in Seq(Positions)
         /\ Len(NextLine(n)) = Len(buf[writer]) + n
         /\ \A i \in 1 .. Len(buf[writer]) : NextLine(n)[i] = buf[writer][i]
         /\ \A i \in 1 .. n : NextLine(n)[Len(buf[writer]) + i] = rest[i]
<1>1. Len(rest) \in Nat /\ buf[writer] \in Seq(Positions) /\ Len(buf[writer]) \in Nat
  BY TypeSplit, LenProperties DEF LinesType
<1>2. /\ SubSeq(rest, 1, n) \in Seq(Positions)
      /\ Len(SubSeq(rest, 1, n)) = n
      /\ \A i \in 1 .. n : SubSeq(rest, 1, n)[i] = rest[i]
  BY <1>1, PartOfRest
<1> DEFINE t == SubSeq(rest, 1, n)
           b == buf[writer]
           c == NextLine(n)
<1>3. /\ c \in Seq(Positions)
      /\ Len(c) = Len(b) + n
      /\ \A i \in 1 .. Len(b) + n : c[i] = IF i <= Len(b) THEN b[i] ELSE t[i - Len(b)]
  <2> HIDE DEF t, b
  <2>1. /\ b \o t \in Seq(Positions)
        /\ Len(b \o t) = Len(b) + Len(t)
        /\ \A i \in 1 .. Len(b) + Len(t) : (b \o t)[i] =
                IF i <= Len(b) THEN b[i] ELSE t[i - Len(b)]
    BY <1>1, <1>2, ConcatProperties DEF t, b
  <2> QED
    BY <1>2, <2>1 DEF NextLine, t, b
<1> HIDE DEF t, b, c
<1>4. Len(b) \in Nat /\ \A i \in 1 .. n : t[i] = rest[i]
  BY <1>1, <1>2 DEF t, b
<1>5. \A i \in 1 .. n : c[Len(b) + i] = t[i]
  <2> TAKE i \in 1 .. n
  <2>1. Len(b) + i \in 1 .. Len(b) + n /\ ~(Len(b) + i <= Len(b)) /\ (Len(b) + i) - Len(b) = i
    BY <1>1, <1>4
  <2> QED
    BY <1>3, <2>1
<1>6. \A i \in 1 .. Len(b) : c[i] = b[i]
  BY <1>1, <1>3, <1>4
<1>7. /\ c \in Seq(Positions)
      /\ Len(c) = Len(b) + n
      /\ \A i \in 1 .. Len(b) : c[i] = b[i]
      /\ \A i \in 1 .. n : c[Len(b) + i] = rest[i]
  BY <1>3, <1>4, <1>5, <1>6
<1> QED
  BY <1>7 DEF b, c

\* One turn of the loop in Write, in the terms of the lemmas above: n bytes of
\* rest fill the line up, i bytes are a line, or rest is kept.
FillsLine(n) ==
    /\ Len(buf[writer]) + n = MaxLine
    /\ n < Len(rest)
    /\ out' = [out EXCEPT ![writer] = Emit(@, NextLine(n))]
    /\ buf' = [buf EXCEPT ![writer] = <<>>]
    /\ rest' = SubSeq(rest, n + 1, Len(rest))
    /\ UNCHANGED <<loop, anyBytes>>

EndsLine(i) ==
    /\ Len(buf[writer]) + i <= MaxLine
    /\ i < Len(rest)
    /\ IsNL(rest[i + 1])
    /\ out' = [out EXCEPT ![writer] = Emit(@, NextLine(i))]
    /\ buf' = [buf EXCEPT ![writer] = <<>>]
    /\ rest' = SubSeq(rest, i + 2, Len(rest))
    /\ UNCHANGED <<loop, anyBytes>>

KeepsLine(i) ==
    /\ Len(buf[writer]) + i <= MaxLine
    /\ i = Len(rest)
    /\ buf' = [buf EXCEPT ![writer] = NextLine(i)]
    /\ rest' = <<>>
    /\ loop' = "reading"
    /\ anyBytes' = TRUE
    /\ out' = out

LEMMA WriteTurn ==
  ASSUME TypeOK, WriteStep
  PROVE  \E n \in 0 .. Len(rest) :
            /\ \A j \in 1 .. n : ~IsNL(rest[j])
            /\ FillsLine(n) \/ EndsLine(n) \/ KeepsLine(n)
<1>1. /\ rest \in Seq(Positions) /\ Len(rest) \in Nat
      /\ Len(buf[writer]) \in Nat /\ Len(buf[writer]) <= MaxLine /\ MaxLine \in Nat
  BY TypeSplit, LenProperties, StreamAssumptions DEF LinesType
<1>2. PICK i \in 0 .. Len(rest) :
        /\ IndexByte(i)
        /\ SplitOverlong(i) \/ TakeLine(i) \/ KeepRest(i)
  BY DEF WriteStep
<1>3. \A j \in 1 .. i : ~IsNL(rest[j])
  BY <1>2 DEF IndexByte
<1>4. CASE SplitOverlong(i)
  <2> DEFINE n == MaxLine - Len(buf[writer])
  <2>1. n \in 0 .. i /\ n \in 0 .. Len(rest) /\ n < Len(rest) /\ Len(buf[writer]) + n = MaxLine
    BY <1>1, <1>4 DEF SplitOverlong, Overlong
  <2>2. FillsLine(n)
    BY <1>4, <2>1 DEF SplitOverlong, EmptiedBuf, NextLine, FillsLine
  <2> HIDE DEF n
  <2>3. \A j \in 1 .. n : ~IsNL(rest[j])
    BY <1>3, <2>1
  <2> QED
    BY <2>1, <2>2, <2>3
<1>5. ASSUME ~Overlong(i) PROVE Len(buf[writer]) + i <= MaxLine
  BY <1>1, <1>5 DEF Overlong
<1>6. CASE TakeLine(i)
  <2>1. EndsLine(i)
    BY <1>2, <1>5, <1>6 DEF IndexByte, TakeLine, EmptiedBuf, NextLine, EndsLine
  <2> QED
    BY <1>3, <2>1
<1>7. CASE KeepRest(i)
  <2>1. SubSeq(rest, 1, i) = rest
    BY <1>1, <1>7, SubSeqFull DEF KeepRest
  <2>2. KeepsLine(i)
    BY <1>5, <1>7, <2>1 DEF KeepRest, NextLine, KeepsLine
  <2> QED
    BY <1>3, <2>2
<1> QED
  BY <1>2, <1>4, <1>6, <1>7

LEMMA WriteType ==
  ASSUME TypeOK, WriteStep
  PROVE  LinesType' /\ OthersType'
<1>1. LinesType /\ OthersType
  BY TypeSplit
<1>2. /\ log' = log /\ writer' = writer /\ received' = received
      /\ UNCHANGED <<cancelled, terminated, next, first, since, backoff, idle, reopens>>
  BY DEF WriteStep, env, pace
<1>3. Positions' = Positions
  BY <1>2 DEF Positions
<1>4. Len(rest) \in Nat /\ Len(<<>>) = 0 /\ <<>> \in Seq(Positions) /\ MaxLine \in Nat
  BY <1>1, LenProperties, EmptySeq, StreamAssumptions DEF LinesType
<1>5. \A n \in 0 .. Len(rest) :
        /\ NextLine(n) \in Seq(Positions)
        /\ Len(NextLine(n)) = Len(buf[writer]) + n
        /\ [out EXCEPT ![writer] = Emit(@, NextLine(n))] \in [Streams -> Seq(Seq(Positions))]
        /\ SubSeq(rest, n + 1, Len(rest)) \in Seq(Positions)
        /\ SubSeq(rest, n + 2, Len(rest)) \in Seq(Positions)
  <2> TAKE n \in 0 .. Len(rest)
  <2>1. NextLine(n) \in Seq(Positions) /\ Len(NextLine(n)) = Len(buf[writer]) + n
    BY NextLineType
  <2>2. out[writer] \in Seq(Seq(Positions))
    BY <1>1 DEF LinesType
  <2>3. Emit(out[writer], NextLine(n)) \in Seq(Seq(Positions))
    BY <2>1, <2>2, EmitType
  <2>4. n + 1 \in Nat \ {0} /\ n + 2 \in Nat \ {0} /\ Len(rest) \in 0 .. Len(rest)
    BY <1>4
  <2> QED
    BY <1>1, <2>1, <2>3, <2>4, PartOfRest DEF LinesType
<1>6. PICK n \in 0 .. Len(rest) : FillsLine(n) \/ EndsLine(n) \/ KeepsLine(n)
  BY WriteTurn
<1>7. /\ rest' \in Seq(Positions)
      /\ out' \in [Streams -> Seq(Seq(Positions))]
      /\ buf' \in [Streams -> Seq(Positions)]
      /\ \A w \in Streams : Len(buf'[w]) <= MaxLine
  <2>1. CASE FillsLine(n)
    BY <1>1, <1>4, <1>5, <2>1 DEF LinesType, FillsLine
  <2>2. CASE EndsLine(n)
    BY <1>1, <1>4, <1>5, <2>2 DEF LinesType, EndsLine
  <2>3. CASE KeepsLine(n)
    BY <1>1, <1>4, <1>5, <2>3 DEF LinesType, KeepsLine
  <2> QED
    BY <1>6, <2>1, <2>2, <2>3
<1>8. LinesType'
  BY <1>1, <1>2, <1>3, <1>7 DEF LinesType
<1>9. OthersType'
  BY <1>1, <1>2, <1>6 DEF OthersType, FillsLine, EndsLine, KeepsLine
<1> QED
  BY <1>8, <1>9

LEMMA NextBackoffType ==
  ASSUME TypeOK, NEW fast \in BOOLEAN
  PROVE  NextBackoff(fast) \in Nat \ {0}
<1>1. backoff \in Nat \ {0} /\ 2 * backoff \in Nat \ {0}
  BY DEF TypeOK
<1>2. Min({2 * backoff, MaxBackoff}) \in {2 * backoff, MaxBackoff}
  BY <1>1, StreamAssumptions, MinOfTwo
<1> QED
  BY <1>1, <1>2, StreamAssumptions DEF NextBackoff

\* A stream begins at a byte logged at the instant `since', or at the next one.
LEMMA Opening ==
  ASSUME TypeOK, OpenSucceeds
  PROVE  /\ loop = "opening" /\ loop' = "reading" /\ ~cancelled
         /\ next' \in Nat \ {0} /\ next' <= since + 1 /\ since < next' + SameInstant
         /\ first' = next' /\ anyBytes' = FALSE
         /\ UNCHANGED <<env, pace, lines>>
<1>1. PICK n \in From : OpenAt(n)
  BY DEF OpenSucceeds
<1>2. since \in Nat /\ SameInstant \in Nat
  BY StreamAssumptions DEF TypeOK
<1>3. n \in Nat \ {0} /\ n <= since + 1 /\ since < n + SameInstant
  BY <1>2 DEF From
<1>4. /\ loop' = "reading" /\ next' = n /\ first' = n /\ anyBytes' = FALSE
      /\ UNCHANGED <<env, pace, lines>>
  BY <1>1 DEF OpenAt
<1> QED
  BY <1>3, <1>4 DEF OpenSucceeds

LEMMA StepType ==
  ASSUME TypeOK, [Next]_vars
  PROVE  TypeOK'
<1> SUFFICES LinesType' /\ OthersType'
  BY PTL, TypeSplit
<1>1. LinesType /\ OthersType
  BY TypeSplit
<1>2. UNCHANGED log /\ UNCHANGED lines => LinesType'
  BY <1>1 DEF LinesType, lines, Positions
<1>3. ASSUME NEW b \in Writes, Log(b) PROVE LinesType' /\ OthersType'
  BY <1>3, LogType
<1>4. CASE Cancel
  BY <1>1, <1>2, <1>4 DEF Cancel, OthersType, stream, pace
<1>5. CASE Terminate
  BY <1>1, <1>2, <1>5 DEF Terminate, OthersType, stream, pace
<1>6. CASE Start
  BY <1>1, <1>2, <1>6 DEF Start, FirstSince, OthersType, env, stream
<1>7. CASE OpenSucceeds
  <2>1. /\ loop' = "reading" /\ next' \in Nat \ {0} /\ first' \in Nat \ {0}
        /\ UNCHANGED <<env, pace, lines>>
    BY <1>7, Opening
  <2>2. anyBytes' \in BOOLEAN
    BY <1>7, Opening
  <2> QED
    BY <1>1, <1>2, <2>1, <2>2 DEF OthersType, env, pace
<1>8. CASE Return
  <2>1. OthersType'
    BY <1>1, <1>8 DEF Return, OthersType, env, stream, pace
  <2> QED
    BY <1>8, <2>1, ReturnType
<1>9. ASSUME NEW w \in Streams, NEW n \in 1 .. MaxLog, Frame(w, n)
      PROVE  LinesType' /\ OthersType'
  BY <1>9, FrameLines
<1>10. CASE WriteStep
  BY <1>10, WriteType
<1>11. ASSUME NEW fast \in BOOLEAN, ReadEOF(fast) PROVE LinesType' /\ OthersType'
  <2>1. backoff' \in Nat \ {0}
    BY <1>11, NextBackoffType DEF ReadEOF
  <2>2. idle' \in Nat /\ reopens' \in 0 .. MaxReopens
    BY <1>1, <1>11, StreamAssumptions DEF ReadEOF, OthersType
  <2> QED
    BY <1>1, <1>2, <1>11, <2>1, <2>2 DEF ReadEOF, OthersType, env, stream
<1>12. CASE RecordSince
  BY <1>1, <1>2, <1>12 DEF RecordSince, Now, OthersType, env, stream
<1>13. CASE PauseElapses
  BY <1>1, <1>2, <1>13 DEF PauseElapses, OthersType, env, stream, pace
<1>14. CASE UNCHANGED vars
  BY <1>1, <1>2, <1>14 DEF vars, OthersType, env, stream, pace
<1> QED
  BY <1>3, <1>4, <1>5, <1>6, <1>7, <1>8, <1>9, <1>10, <1>11, <1>12, <1>13, <1>14
     DEF Next, Goroutine, OpenFails, ReadFails, PauseCancelled

\* Every variable of the stream keeps its type, and no buffer ever holds more
\* than a line may have.
THEOREM TypeCorrect == Spec => []TypeOK
<1>1. TypeOK /\ [Next]_vars => TypeOK'
  BY StepType
<1> QED
  BY InitType, <1>1, PTL DEF Spec

-----------------------------------------------------------------------------
\* The loop in Write.

\* What a Write has still to do: each byte it has not looked at, and a buffer
\* that may have to be logged before the next of them is taken.
WorkLeft == 2 * Len(rest) + (IF buf[writer] = <<>> THEN 0 ELSE 1)

\* A turn of the loop returns, or leaves less to do.
WriteAdvances == WriteStep => loop' = "reading" \/ WorkLeft' < WorkLeft

LEMMA TurnAdvances ==
  ASSUME TypeOK, WriteStep
  PROVE  loop' = "reading" \/ WorkLeft' < WorkLeft
<1>1. /\ Len(rest) \in Nat /\ Len(buf[writer]) \in Nat /\ writer \in Streams
      /\ buf \in [Streams -> Seq(Positions)] /\ MaxLine \in Nat \ {0}
  BY TypeSplit, LenProperties, StreamAssumptions DEF LinesType
<1>2. writer' = writer /\ WorkLeft \in Nat /\ 2 * Len(rest) <= WorkLeft
  BY <1>1 DEF WriteStep, WorkLeft
<1>3. PICK n \in 0 .. Len(rest) : FillsLine(n) \/ EndsLine(n) \/ KeepsLine(n)
  BY WriteTurn
<1>4. ASSUME buf' = [buf EXCEPT ![writer] = <<>>] PROVE WorkLeft' = 2 * Len(rest')
  <2>1. buf'[writer'] = <<>>
    BY <1>1, <1>2, <1>4
  <2>2. WorkLeft' = 2 * Len(rest') + 0
    BY <2>1 DEF WorkLeft
  <2>3. rest' \in Seq(Positions')
    BY WriteType DEF LinesType
  <2>4. Len(rest') \in Nat
    BY <2>3, LenProperties
  <2> QED
    BY <2>2, <2>4
<1>5. CASE FillsLine(n)
  <2>1. Len(rest') = Len(rest) - n
    <3>1. n + 1 \in Nat \ {0} /\ Len(rest) \in 0 .. Len(rest) /\ n < Len(rest)
      BY <1>1, <1>5 DEF FillsLine
    <3>2. rest' = SubSeq(rest, n + 1, Len(rest))
      BY <1>5 DEF FillsLine
    <3>3. Len(rest') = IF n + 1 <= Len(rest) THEN Len(rest) - (n + 1) + 1 ELSE 0
      BY <3>1, <3>2, PartOfRest
    <3> QED
      BY <1>1, <3>1, <3>3
  <2>2. WorkLeft' = 2 * Len(rest')
    BY <1>4, <1>5 DEF FillsLine
  <2>3. CASE n = 0
    <3>1. Len(buf[writer]) # 0
      BY <1>1, <1>5, <2>3 DEF FillsLine
    <3>2. WorkLeft = 2 * Len(rest) + 1
      BY <3>1, EmptySeq DEF WorkLeft
    <3> QED
      BY <1>1, <2>1, <2>2, <2>3, <3>2
  <2>4. CASE n # 0
    BY <1>1, <1>2, <2>1, <2>2, <2>4
  <2> QED
    BY <2>3, <2>4
<1>6. CASE EndsLine(n)
  <2>1. Len(rest') < Len(rest) /\ Len(rest') \in Nat
    <3>1. n + 2 \in Nat \ {0} /\ Len(rest) \in 0 .. Len(rest) /\ n < Len(rest)
      BY <1>1, <1>6 DEF EndsLine
    <3>2. rest' = SubSeq(rest, n + 2, Len(rest))
      BY <1>6 DEF EndsLine
    <3>3. Len(rest') = IF n + 2 <= Len(rest) THEN Len(rest) - (n + 2) + 1 ELSE 0
      BY <3>1, <3>2, PartOfRest
    <3> QED
      BY <1>1, <3>1, <3>3
  <2>2. WorkLeft' = 2 * Len(rest')
    BY <1>4, <1>6 DEF EndsLine
  <2> QED
    BY <1>1, <1>2, <2>1, <2>2
<1>7. CASE KeepsLine(n)
  BY <1>7 DEF KeepsLine
<1> QED
  BY <1>3, <1>5, <1>6, <1>7

\* Write returns after at most WorkLeft turns, whatever it is given and however
\* full the buffer is: a turn that takes no byte is followed by one that does.
THEOREM WriteTerminates == Spec => [][WriteAdvances]_vars
<1>1. TypeOK /\ [Next]_vars => [WriteAdvances]_vars
  BY TurnAdvances DEF WriteAdvances
<1> QED
  BY <1>1, TypeCorrect, PTL DEF Spec

-----------------------------------------------------------------------------
\* What comes twice.

\* How far back a reopened stream may reach.
Slack == Behind + SameInstant

\* What was received lies before the place the stream continues from, but for
\* what the daemon repeats.
RepeatInv ==
    \A w \in Streams :
        /\ loop = "unborn" => Len(received[w]) = 0
        /\ loop \in {"opening", "pausing"} =>
               \A i \in 1 .. Len(received[w]) : received[w][i] <= since + Behind
        /\ loop \in {"reading", "writing"} =>
               \A i \in 1 .. Len(received[w]) : received[w][i] < next + Slack
        /\ \A j \in 1 .. Len(received[w]) : \A i \in 1 .. j - 1 :
               received[w][i] < received[w][j] + Slack

LEMMA ReceivedType ==
  ASSUME TypeOK, NEW w \in Streams
  PROVE  /\ Len(received[w]) \in Nat
         /\ DOMAIN received[w] = 1 .. Len(received[w])
         /\ received[w] \in Seq(Positions)
         /\ \A i \in 1 .. Len(received[w]) : received[w][i] \in Positions
<1>1. received[w] \in Seq(Positions)
  BY TypeSplit DEF LinesType
<1> QED
  BY <1>1, LenProperties, ElementOfSeq

\* What a frame does to the history.
LEMMA FrameReceived ==
  ASSUME TypeOK, NEW w \in Streams, NEW n \in 1 .. MaxLog, Frame(w, n)
  PROVE  LET L == Len(received[w]) IN
         /\ received'[w] \in Seq(Positions)
         /\ Len(received'[w]) = L + n
         /\ \A i \in 1 .. L : received'[w][i] = received[w][i]
         /\ \A i \in 1 .. n : received'[w][L + i] = next + i - 1
         /\ \A v \in Streams \ {w} : received'[v] = received[v]
<1> DEFINE frame == [i \in 1 .. n |-> next + i - 1]
           r == received[w]
           q == received'[w]
<1>1. /\ n \in Nat \ {0} /\ frame \in Seq(Positions) /\ Len(frame) = n
      /\ \A i \in 1 .. n : frame[i] = next + i - 1
  BY FrameType
<1>2. r \in Seq(Positions) /\ Len(r) \in Nat
  BY ReceivedType
<1>3. received \in [Streams -> Seq(Positions)]
  BY TypeSplit DEF LinesType
<1>4. q = r \o frame /\ \A v \in Streams \ {w} : received'[v] = received[v]
  BY <1>3 DEF Frame
<1> HIDE DEF frame, r, q
<1>5. /\ q \in Seq(Positions) /\ Len(q) = Len(r) + n
      /\ \A i \in 1 .. Len(r) + n : q[i] = IF i <= Len(r) THEN r[i] ELSE frame[i - Len(r)]
  <2>1. /\ r \o frame \in Seq(Positions)
        /\ Len(r \o frame) = Len(r) + Len(frame)
        /\ \A i \in 1 .. Len(r) + Len(frame) : (r \o frame)[i] =
               IF i <= Len(r) THEN r[i] ELSE frame[i - Len(r)]
    BY <1>1, <1>2, ConcatProperties
  <2> QED
    BY <1>1, <1>4, <2>1
<1>6. \A i \in 1 .. Len(r) : q[i] = r[i]
  BY <1>1, <1>2, <1>5
<1>7. \A i \in 1 .. n : q[Len(r) + i] = frame[i]
  <2> TAKE i \in 1 .. n
  <2>1. /\ Len(r) + i \in 1 .. Len(r) + n /\ ~(Len(r) + i <= Len(r))
        /\ (Len(r) + i) - Len(r) = i
    BY <1>1, <1>2
  <2> QED
    BY <1>5, <2>1
<1> QED
  BY <1>1, <1>4, <1>5, <1>6, <1>7 DEF r, q

LEMMA FrameRepeats ==
  ASSUME TypeOK, RepeatInv, NEW w \in Streams, NEW n \in 1 .. MaxLog, Frame(w, n)
  PROVE  RepeatInv'
<1> DEFINE r == received[w]
           q == received'[w]
<1>1. /\ Len(q) = Len(r) + n
      /\ \A i \in 1 .. Len(r) : q[i] = r[i]
      /\ \A i \in 1 .. n : q[Len(r) + i] = next + i - 1
      /\ \A v \in Streams \ {w} : received'[v] = received[v]
  BY FrameReceived
<1>2. Len(r) \in Nat /\ \A i \in 1 .. Len(r) : r[i] \in Nat
  <2>1. Len(log) \in Nat
    BY LenProperties DEF TypeOK
  <2> QED
    BY <2>1, ReceivedType DEF Positions
<1>3. next \in Nat \ {0} /\ n \in Nat \ {0} /\ Slack \in Nat
  BY StreamAssumptions DEF TypeOK, Slack
<1>4. loop = "reading" /\ loop' = "writing" /\ next' = next + n
  BY DEF Frame
<1>5. /\ \A i \in 1 .. Len(r) : r[i] < next + Slack
      /\ \A j \in 1 .. Len(r) : \A i \in 1 .. j - 1 : r[i] < r[j] + Slack
  BY <1>4 DEF RepeatInv
<1> HIDE DEF r, q
<1>6. \A i \in 1 .. Len(q) : q[i] < next' + Slack
  <2> TAKE i \in 1 .. Len(q)
  <2>1. CASE i <= Len(r)
    BY <1>1, <1>2, <1>3, <1>4, <1>5, <2>1
  <2>2. CASE i > Len(r)
    <3>1. i - Len(r) \in 1 .. n /\ Len(r) + (i - Len(r)) = i
      BY <1>1, <1>2, <1>3, <2>2
    <3>2. q[i] = next + (i - Len(r)) - 1
      BY <1>1, <3>1
    <3> QED
      BY <1>2, <1>3, <1>4, <3>1, <3>2
  <2> QED
    BY <1>2, <2>1, <2>2
<1>7. \A j \in 1 .. Len(q) : \A i \in 1 .. j - 1 : q[i] < q[j] + Slack
  <2> TAKE j \in 1 .. Len(q)
  <2> TAKE i \in 1 .. j - 1
  <2>1. CASE j <= Len(r)
    BY <1>1, <1>2, <1>5, <2>1
  <2>2. CASE j > Len(r)
    <3>1. j - Len(r) \in 1 .. n /\ Len(r) + (j - Len(r)) = j
      BY <1>1, <1>2, <1>3, <2>2
    <3>2. q[j] = next + (j - Len(r)) - 1
      BY <1>1, <3>1
    <3>3. CASE i <= Len(r)
      <4>1. q[i] = r[i] /\ r[i] \in Nat /\ r[i] < next + Slack
        BY <1>1, <1>2, <1>5, <3>3
      <4> QED
        BY <1>2, <1>3, <3>1, <3>2, <4>1
    <3>4. CASE i > Len(r)
      <4>1. i - Len(r) \in 1 .. n /\ Len(r) + (i - Len(r)) = i
        BY <1>1, <1>2, <1>3, <3>4
      <4>2. q[i] = next + (i - Len(r)) - 1
        BY <1>1, <4>1
      <4> QED
        BY <1>2, <1>3, <3>1, <3>2, <4>1, <4>2
    <3> QED
      BY <1>2, <3>3, <3>4
  <2> QED
    BY <1>2, <2>1, <2>2
<1>8. \A v \in Streams \ {w} : \A i \in 1 .. Len(received[v]) :
          received[v][i] < next + Slack /\ received[v][i] \in Nat
  <2>1. Len(log) \in Nat
    BY LenProperties DEF TypeOK
  <2> QED
    BY <1>4, <2>1, ReceivedType DEF RepeatInv, Positions
<1>9. \A v \in Streams \ {w} : \A i \in 1 .. Len(received[v]) :
          received[v][i] < next' + Slack
  BY <1>3, <1>4, <1>8
<1> QED
  BY <1>1, <1>4, <1>6, <1>7, <1>9 DEF RepeatInv, r, q

LEMMA StepRepeats ==
  ASSUME TypeOK, RepeatInv, [Next]_vars
  PROVE  RepeatInv'
<1>1. /\ Len(log) \in Nat /\ since \in Nat /\ next \in Nat /\ Behind \in Nat
      /\ \A w \in Streams : \A i \in 1 .. Len(received[w]) :
             received[w][i] \in Nat /\ received[w][i] <= Len(log)
  <2>1. Len(log) \in Nat
    BY LenProperties DEF TypeOK
  <2> QED
    BY <2>1, ReceivedType, StreamAssumptions DEF Positions, TypeOK
<1>2. UNCHANGED <<loop, next, since, received>> => RepeatInv'
  BY DEF RepeatInv
<1>3. ASSUME NEW b \in Writes, Log(b) PROVE RepeatInv'
  BY <1>2, <1>3 DEF Log, stream, pace, lines
<1>4. CASE Cancel \/ Terminate \/ UNCHANGED vars
  BY <1>2, <1>4 DEF Cancel, Terminate, vars, stream, pace, lines
<1>5. CASE Start
  BY <1>1, <1>5 DEF Start, RepeatInv, lines
<1>6. CASE OpenSucceeds
  <2>1. /\ loop = "opening" /\ loop' = "reading" /\ received' = received
        /\ next' \in Nat /\ since < next' + SameInstant
    BY <1>6, Opening DEF lines
  <2>2. SameInstant \in Nat /\ Slack = Behind + SameInstant
    BY StreamAssumptions DEF Slack
  <2>3. \A w \in Streams : \A i \in 1 .. Len(received[w]) : received[w][i] <= since + Behind
    BY <2>1 DEF RepeatInv
  <2>4. \A w \in Streams : \A i \in 1 .. Len(received[w]) : received[w][i] < next' + Slack
    BY <1>1, <2>1, <2>2, <2>3
  <2> QED
    BY <2>1, <2>4 DEF RepeatInv
<1>7. CASE Return
  <2>1. loop' = "exited" /\ received' = received
    BY <1>7 DEF Return
  <2> QED
    BY <2>1 DEF RepeatInv
<1>8. ASSUME NEW w \in Streams, NEW n \in 1 .. MaxLog, Frame(w, n) PROVE RepeatInv'
  BY <1>8, FrameRepeats
<1>9. CASE WriteStep
  <2>1. loop = "writing" /\ loop' \in {"reading", "writing"}
    BY <1>9, WriteTurn DEF WriteStep, FillsLine, EndsLine, KeepsLine
  <2>2. received' = received /\ next' = next
    BY <1>9 DEF WriteStep
  <2> QED
    BY <2>1, <2>2 DEF RepeatInv
<1>10. ASSUME NEW fast \in BOOLEAN, ReadEOF(fast) PROVE RepeatInv'
  BY <1>10 DEF ReadEOF, RepeatInv, lines
<1>11. CASE RecordSince
  <2>1. loop' = "pausing" /\ received' = received
    BY <1>11 DEF RecordSince, lines
  <2>2. since' \in Int /\ since' + Behind >= Len(log)
    <3>1. since' \in 0 .. Len(log) + Ahead /\ since' + Behind >= Len(log)
      BY <1>11 DEF RecordSince, Now
    <3> QED
      BY <3>1
  <2>3. \A w \in Streams : \A i \in 1 .. Len(received[w]) : received[w][i] <= since' + Behind
    BY <1>1, <2>2
  <2> QED
    BY <2>1, <2>3 DEF RepeatInv
<1>12. CASE PauseElapses
  BY <1>12 DEF PauseElapses, RepeatInv, stream, pace, lines
<1> QED
  BY <1>3, <1>4, <1>5, <1>6, <1>7, <1>8, <1>9, <1>10, <1>11, <1>12
     DEF Next, Goroutine, OpenFails, ReadFails, PauseCancelled

\* A byte comes twice only if the daemon stamped it with the very instant the
\* next stream was opened from, or if the client's clock is behind the daemon's:
\* it was logged at most that long before the stream ended.
THEOREM RepeatsAreBounded == Spec => []RepeatsBounded
<1>1. Init => RepeatInv
  <2> SUFFICES ASSUME Init PROVE RepeatInv
    OBVIOUS
  <2>1. Len(<<>>) = 0
    BY EmptySeq
  <2> QED
    BY <2>1 DEF Init, RepeatInv
<1>2. TypeOK /\ RepeatInv /\ [Next]_vars => RepeatInv'
  BY StepRepeats
<1>3. TypeOK /\ RepeatInv => RepeatsBounded
  <2> SUFFICES ASSUME TypeOK, RepeatInv, NEW w \in Streams,
                      NEW j \in DOMAIN received[w], NEW i \in 1 .. j - 1
               PROVE  received[w][i] < received[w][j] + Behind + SameInstant
    BY DEF RepeatsBounded
  <2>1. /\ Len(received[w]) \in Nat /\ j \in 1 .. Len(received[w])
        /\ received[w][j] \in Nat /\ Behind \in Nat /\ SameInstant \in Nat
    <3>1. /\ Len(received[w]) \in Nat /\ DOMAIN received[w] = 1 .. Len(received[w])
          /\ \A n \in 1 .. Len(received[w]) : received[w][n] \in Positions
      BY ReceivedType
    <3>2. Positions \subseteq Nat
      BY LenProperties DEF TypeOK, Positions
    <3> QED
      BY <3>1, <3>2, StreamAssumptions
  <2>2. received[w][i] < received[w][j] + Slack
    BY <2>1 DEF RepeatInv
  <2>3. received[w][j] + Slack = received[w][j] + Behind + SameInstant
    BY <2>1 DEF Slack
  <2> QED
    BY <2>2, <2>3
<1> QED
  BY TypeCorrect, <1>1, <1>2, <1>3, PTL DEF Spec

-----------------------------------------------------------------------------
\* What is missed.

\* Until a stream has ended there is no instant to start from but the first,
\* and what was sent is what was received.
MissedInv ==
    /\ reopens = 0 =>
        /\ first = 1
        /\ loop \notin {"ended", "pausing"}
        /\ loop = "opening" => since = 0
    /\ first .. next - 1 \subseteq Positions
    /\ \A p \in first .. next - 1 :
           \E i \in 1 .. Len(received[log[p].from]) : received[log[p].from][i] = p

LEMMA ByteFrom ==
  ASSUME TypeOK, NEW p \in Positions
  PROVE  log[p].from \in Streams
<1>1. log[p] \in Byte
  BY ElementOfSeq DEF TypeOK, Positions
<1> QED
  BY <1>1 DEF Byte

LEMMA FrameMissed ==
  ASSUME TypeOK, MissedInv, NEW w \in Streams, NEW n \in 1 .. MaxLog, Frame(w, n)
  PROVE  MissedInv'
<1> DEFINE r == received[w]
           q == received'[w]
<1>1. /\ Len(q) = Len(r) + n
      /\ \A i \in 1 .. Len(r) : q[i] = r[i]
      /\ \A i \in 1 .. n : q[Len(r) + i] = next + i - 1
      /\ \A v \in Streams \ {w} : received'[v] = received[v]
  BY FrameReceived
<1>2. Len(r) \in Nat
  BY ReceivedType
<1>3. next \in Nat \ {0} /\ first \in Nat \ {0} /\ n \in Nat \ {0} /\ Len(log) \in Nat
  BY StreamAssumptions, LenProperties DEF TypeOK
<1>4. /\ loop = "reading" /\ loop' = "writing" /\ next' = next + n /\ log' = log
      /\ first' = first /\ reopens' = reopens /\ next + n - 1 <= Len(log)
  BY DEF Frame, env, pace
<1>5. \A i \in 1 .. n : log[next + i - 1].from = w
  BY DEF Frame
<1>6. \A p \in first .. next - 1 :
          /\ p \in Positions
          /\ \E i \in 1 .. Len(received[log[p].from]) : received[log[p].from][i] = p
  BY DEF MissedInv
<1>7. \A p \in first .. next + n - 1 :
          \E i \in 1 .. Len(received'[log[p].from]) : received'[log[p].from][i] = p
  <2> TAKE p \in first .. next + n - 1
  <2>0. p \in Nat /\ first <= p /\ p <= next + n - 1
    BY <1>3
  <2>1. CASE p < next
    <3>0. p \in first .. next - 1
      BY <1>3, <2>0, <2>1
    <3>1. PICK i \in 1 .. Len(received[log[p].from]) : received[log[p].from][i] = p
      BY <1>6, <3>0
    <3>2. log[p].from \in Streams
      BY <1>6, <3>0, ByteFrom
    <3>3. CASE log[p].from = w
      <4>1. i \in 1 .. Len(q) /\ q[i] = p
        BY <1>1, <1>2, <1>3, <3>1, <3>3
      <4> QED
        BY <3>3, <4>1
    <3>4. CASE log[p].from # w
      BY <1>1, <3>1, <3>2, <3>4
    <3> QED
      BY <3>3, <3>4
  <2>2. CASE p >= next
    <3> DEFINE i == p - next + 1
    <3> HIDE DEF r
    <3>1. i \in 1 .. n /\ next + i - 1 = p /\ Len(r) + i \in 1 .. Len(r) + n
      BY <1>2, <1>3, <2>0, <2>2
    <3> HIDE DEF i, r, q
    <3>2. log[p].from = w
      BY <1>5, <3>1
    <3>3. Len(r) + i \in 1 .. Len(q) /\ q[Len(r) + i] = p
      BY <1>1, <3>1
    <3> QED
      BY <3>2, <3>3 DEF q
  <2> QED
    BY <1>3, <2>0, <2>1, <2>2
<1>8. (first .. next - 1 \subseteq Positions)'
  <2>1. Positions' = 1 .. Len(log) /\ next' - 1 = next + n - 1
    BY <1>3, <1>4 DEF Positions
  <2> QED
    BY <1>3, <1>4, <2>1
<1>9. next' - 1 = next + n - 1
  BY <1>3, <1>4
<1> QED
  BY <1>4, <1>7, <1>8, <1>9 DEF MissedInv

LEMMA StepMissed ==
  ASSUME TypeOK, MissedInv, [Next]_vars
  PROVE  MissedInv'
<1>1. Len(log) \in Nat /\ next \in Nat \ {0} /\ since \in Nat /\ reopens \in Nat
  BY LenProperties, StreamAssumptions DEF TypeOK
<1>2. ASSUME UNCHANGED <<log, first, next, received, reopens>>,
             reopens = 0 => /\ loop' \notin {"ended", "pausing"}
                            /\ loop' = "opening" => since' = 0
      PROVE  MissedInv'
  BY <1>2 DEF MissedInv, Positions
<1>3. ASSUME NEW b \in Writes, Log(b) PROVE MissedInv'
  <2>1. /\ log' = Append(log, b)
        /\ UNCHANGED <<loop, first, next, since, received, reopens>>
    BY <1>3 DEF Log, stream, pace, lines
  <2>2. Len(log') = Len(log) + 1 /\ \A p \in Positions : log'[p] = log[p]
    BY <2>1 DEF TypeOK, Positions
  <2>3. Positions \subseteq Positions'
    BY <1>1, <2>2 DEF Positions
  <2>4. first .. next - 1 \subseteq Positions
    BY DEF MissedInv
  <2>5. \A p \in first .. next - 1 :
           \E i \in 1 .. Len(received'[log'[p].from]) : received'[log'[p].from][i] = p
    <3> TAKE p \in first .. next - 1
    <3>1. log'[p] = log[p]
      BY <2>2, <2>4
    <3> QED
      BY <2>1, <3>1 DEF MissedInv
  <2>6. (first .. next - 1 \subseteq Positions)'
    BY <2>1, <2>3, <2>4
  <2> QED
    BY <2>1, <2>5, <2>6 DEF MissedInv
<1>4. CASE Cancel \/ Terminate \/ UNCHANGED vars
  BY <1>2, <1>4 DEF MissedInv, Cancel, Terminate, vars, env, stream, pace, lines
<1>5. CASE Start
  <2>1. loop' = "opening" /\ since' = 0 /\ UNCHANGED <<log, first, next, received, reopens>>
    BY <1>5 DEF Start, FirstSince, env, stream, lines
  <2> QED
    BY <1>2, <2>1
<1>6. CASE OpenSucceeds
  <2>1. /\ loop = "opening" /\ loop' = "reading" /\ reopens' = reopens
        /\ next' \in Nat \ {0} /\ next' <= since + 1 /\ first' = next'
    BY <1>6, Opening DEF pace
  <2>2. reopens = 0 => first' = 1
    BY <1>1, <2>1 DEF MissedInv
  <2>3. \A p \in (first .. next - 1)' : FALSE
    <3> DEFINE n == next'
    <3>1. n \in Nat
      BY <2>1
    <3> HIDE DEF n
    <3>2. \A p \in n .. n - 1 : FALSE
      BY <3>1
    <3> QED
      BY <2>1, <3>2 DEF n
  <2>4. /\ (first .. next - 1 \subseteq Positions)'
        /\ \A p \in (first .. next - 1)' :
               \E i \in 1 .. Len(received'[log'[p].from]) : received'[log'[p].from][i] = p
    BY <2>3
  <2> QED
    BY <2>1, <2>2, <2>4 DEF MissedInv
<1>7. CASE Return
  BY <1>2, <1>7 DEF Return, env, stream, pace
<1>8. ASSUME NEW w \in Streams, NEW n \in 1 .. MaxLog, Frame(w, n) PROVE MissedInv'
  BY <1>8, FrameMissed
<1>9. CASE WriteStep
  <2>1. loop = "writing" /\ loop' \in {"reading", "writing"}
    BY <1>9, WriteTurn DEF WriteStep, FillsLine, EndsLine, KeepsLine
  <2>2. UNCHANGED <<log, first, next, received, reopens>>
    BY <1>9 DEF WriteStep, env, pace
  <2> QED
    BY <1>2, <2>1, <2>2
<1>10. ASSUME NEW fast \in BOOLEAN, ReadEOF(fast) PROVE MissedInv'
  <2>1. reopens' # 0 /\ UNCHANGED <<log, first, next, received>>
    BY <1>1, <1>10 DEF ReadEOF, env, stream, lines
  <2> QED
    BY <2>1 DEF MissedInv, Positions
<1>11. CASE RecordSince \/ PauseElapses
  <2>1. loop \in {"ended", "pausing"} /\ UNCHANGED <<log, first, next, received, reopens>>
    BY <1>11 DEF RecordSince, PauseElapses, env, stream, pace, lines
  <2>2. reopens # 0
    BY <2>1 DEF MissedInv
  <2> QED
    BY <1>2, <2>1, <2>2
<1> QED
  BY <1>3, <1>4, <1>5, <1>6, <1>7, <1>8, <1>9, <1>10, <1>11
     DEF Next, Goroutine, OpenFails, ReadFails, PauseCancelled

\* The first stream, however late it is opened, begins with the first byte of
\* the log, and every stream hands to the writers all it has come to since it
\* began: bytes are missed between two streams only.
THEOREM StreamsSkipNothing == Spec => []MissedOnlyBetween
<1>1. Init => MissedInv
  BY DEF Init, MissedInv
<1>2. TypeOK /\ MissedInv /\ [Next]_vars => MissedInv'
  BY StepMissed
<1>3. TypeOK /\ MissedInv => MissedOnlyBetween
  <2> SUFFICES ASSUME TypeOK, MissedInv, NEW p \in first .. next - 1
               PROVE  \E i \in DOMAIN received[log[p].from] : received[log[p].from][i] = p
    BY DEF MissedOnlyBetween, MissedInv
  <2>1. p \in Positions
    BY DEF MissedInv
  <2> QED
    BY <2>1, ByteFrom, ReceivedType DEF MissedInv
<1> QED
  BY TypeCorrect, <1>1, <1>2, <1>3, PTL DEF Spec

-----------------------------------------------------------------------------
\* One cycle of the supervisor.

\* Nobody cancels or terminates what was not started.
Unborn == loop = "unborn" => ~cancelled /\ ~terminated

LEMMA SupInit == Init => Sup!Init
BY DEF Init, Stage, Sup!Init, Sup!Cycle

LEMMA StepUnborn ==
  ASSUME TypeOK, Unborn, [Next]_vars
  PROVE  Unborn'
<1>1. CASE Goroutine
  <2>1. loop' # "unborn"
    BY <1>1, WriteTurn, Opening DEF Goroutine, Start, OpenFails, Return, Frame,
       ReadFails, ReadEOF, RecordSince, PauseElapses, PauseCancelled, WriteStep,
       FillsLine, EndsLine, KeepsLine
  <2> QED
    BY <2>1 DEF Unborn
<1> QED
  BY <1>1 DEF Next, Log, Cancel, Terminate, Unborn, vars, env

LEMMA SupStep ==
  ASSUME TypeOK, Unborn, [Next]_vars
  PROVE  [Sup!Next]_(Sup!vars)
<1> DEFINE Moves(from, to) == Stage = from /\ Stage' = to /\ UNCHANGED <<cancelled, terminated>>
<1>1. UNCHANGED <<loop, cancelled, terminated>> => UNCHANGED Sup!vars
  BY DEF Sup!vars, Stage
<1>2. ASSUME NEW b \in Writes, Log(b) PROVE UNCHANGED Sup!vars
  BY <1>1, <1>2 DEF Log
<1>3. CASE UNCHANGED vars
  BY <1>1, <1>3 DEF vars, env
<1>4. CASE Start
  <2>1. /\ loop = "unborn" /\ loop' = "opening" /\ ~cancelled /\ ~terminated
        /\ ~cancelled' /\ ~terminated' /\ Stage = "unborn" /\ Stage' = "opening"
    BY <1>4 DEF Start, env, Stage, Unborn
  <2>2. Sup!Start
    BY <2>1 DEF Sup!Start, Sup!Reusable, Sup!ReleasePrevious
  <2> QED
    BY <2>2 DEF Sup!Next
<1>5. CASE Cancel
  <2>1. /\ loop # "unborn" /\ loop' = loop /\ ~cancelled /\ cancelled'
        /\ terminated' = terminated /\ Stage' = Stage
    BY <1>5 DEF Cancel, Stage
  <2>2. Sup!Cancel
    BY <2>1 DEF Sup!Cancel, Sup!CancelHeld
  <2> QED
    BY <2>2 DEF Sup!Next
<1>6. CASE Terminate
  <2>1. /\ loop # "unborn" /\ loop' = loop /\ ~terminated /\ terminated'
        /\ cancelled' = cancelled /\ Stage' = Stage
    BY <1>6 DEF Terminate, Stage
  <2>2. Sup!Terminate(1)
    BY <2>1 DEF Sup!Terminate
  <2> QED
    BY <2>2 DEF Sup!Next, Sup!Cycle
<1>7. ASSUME NEW from, NEW to, Moves(from, to), loop # "unborn", loop' # "unborn"
      PROVE  Sup!StreamStep(1, from, to)
  BY <1>7 DEF Sup!StreamStep
<1>8. CASE OpenSucceeds
  <2>1. /\ Moves("opening", "reading") /\ loop # "unborn" /\ loop' # "unborn"
        /\ ~cancelled
    BY <1>8, Opening DEF Stage, env
  <2>2. Sup!OpenSucceeds(1)
    BY <1>7, <2>1 DEF Sup!OpenSucceeds
  <2> QED
    BY <2>2 DEF Sup!Next, Sup!Cycle, Sup!Goroutine
<1>9. CASE OpenFails
  <2>1. Moves("opening", "exited") /\ loop # "unborn" /\ loop' # "unborn"
    BY <1>9 DEF OpenFails, Return, Stage, env
  <2>2. Sup!OpenFails(1)
    BY <1>7, <2>1 DEF Sup!OpenFails
  <2> QED
    BY <2>2 DEF Sup!Next, Sup!Cycle, Sup!Goroutine
<1>10. ASSUME NEW w \in Streams, NEW n \in 1 .. MaxLog, Frame(w, n)
       PROVE  UNCHANGED Sup!vars
  <2>1. Stage' = Stage /\ loop # "unborn" /\ loop' # "unborn" /\ UNCHANGED <<cancelled, terminated>>
    BY <1>10 DEF Frame, Stage, env
  <2> QED
    BY <2>1 DEF Sup!vars
<1>11. CASE WriteStep
  <2>1. loop = "writing" /\ loop' \in {"reading", "writing"}
    BY <1>11, WriteTurn DEF WriteStep, FillsLine, EndsLine, KeepsLine
  <2>2. Stage' = Stage /\ loop # "unborn" /\ loop' # "unborn" /\ UNCHANGED <<cancelled, terminated>>
    BY <1>11, <2>1 DEF WriteStep, Stage, env
  <2> QED
    BY <2>2 DEF Sup!vars
<1>12. CASE ReadFails
  <2>1. Moves("reading", "exited") /\ loop # "unborn" /\ loop' # "unborn"
    BY <1>12 DEF ReadFails, Return, Stage, env
  <2>2. Sup!ReadFails(1)
    BY <1>7, <2>1 DEF Sup!ReadFails
  <2> QED
    BY <2>2 DEF Sup!Next, Sup!Cycle, Sup!Goroutine
<1>13. ASSUME NEW fast \in BOOLEAN, ReadEOF(fast) PROVE Sup!Next
  <2>1. Moves("reading", "pausing") /\ loop # "unborn" /\ loop' # "unborn"
    BY <1>13 DEF ReadEOF, Stage, env
  <2>2. Sup!ReadEOF(1)
    BY <1>7, <2>1 DEF Sup!ReadEOF
  <2> QED
    BY <2>2 DEF Sup!Next, Sup!Cycle, Sup!Goroutine
<1>14. CASE RecordSince
  <2>1. Stage' = Stage /\ loop # "unborn" /\ loop' # "unborn" /\ UNCHANGED <<cancelled, terminated>>
    BY <1>14 DEF RecordSince, Stage, env
  <2> QED
    BY <2>1 DEF Sup!vars
<1>15. CASE PauseElapses
  <2>1. Moves("pausing", "opening") /\ loop # "unborn" /\ loop' # "unborn"
    BY <1>15 DEF PauseElapses, Stage, env
  <2>2. Sup!PauseElapses(1)
    BY <1>7, <2>1 DEF Sup!PauseElapses
  <2> QED
    BY <2>2 DEF Sup!Next, Sup!Cycle, Sup!Goroutine
<1>16. CASE PauseCancelled
  <2>1. /\ Moves("pausing", "exited") /\ loop # "unborn" /\ loop' # "unborn"
        /\ cancelled
    BY <1>16 DEF PauseCancelled, Return, Stage, env
  <2>2. Sup!PauseCancelled(1)
    BY <1>7, <2>1 DEF Sup!PauseCancelled
  <2> QED
    BY <2>2 DEF Sup!Next, Sup!Cycle, Sup!Goroutine
<1> QED
  BY <1>2, <1>3, <1>4, <1>5, <1>6, <1>8, <1>9, <1>10, <1>11, <1>12, <1>13, <1>14,
     <1>15, <1>16 DEF Next, Goroutine

\* Every step of the goroutine in full is a step, or none, of the goroutine as
\* Supervisor has it.
THEOREM Refinement == Spec => Sup!Spec
<1>1. Init => Unborn
  BY DEF Init, Unborn
<1>2. TypeOK /\ Unborn /\ [Next]_vars => Unborn'
  BY StepUnborn
<1>3. TypeOK /\ Unborn /\ [Next]_vars => [Sup!Next]_(Sup!vars)
  BY SupStep
<1> QED
  BY SupInit, TypeCorrect, <1>1, <1>2, <1>3, PTL DEF Spec, Sup!Spec

-----------------------------------------------------------------------------
\* What a line is made of.

\* How many of the bytes that w's writer was given it has not looked at yet.
Unread(w) == IF loop = "writing" /\ w = writer THEN Len(rest) ELSE 0

\* The buffer, and then rest, are the last bytes the writer was given, the
\* buffer has no newline, and the lines logged are whole.
RestAtEnd ==
    loop = "writing" => EndsWith(received[writer], rest)

BufBeforeRest(w) ==
    /\ Len(buf[w]) + Unread(w) <= Len(received[w])
    /\ \A i \in 1 .. Len(buf[w]) :
           /\ ~IsNL(buf[w][i])
           /\ buf[w][i] = received[w][Len(received[w]) - Unread(w) - Len(buf[w]) + i]

WholeInv ==
    /\ RestAtEnd
    /\ \A w \in Streams : BufBeforeRest(w) /\ AllWhole(received[w], out[w])

LEMMA LinesFacts ==
  ASSUME TypeOK, NEW w \in Streams
  PROVE  /\ rest \in Seq(Positions) /\ Len(rest) \in Nat
         /\ buf[w] \in Seq(Positions) /\ Len(buf[w]) \in Nat /\ Len(buf[w]) <= MaxLine
         /\ out[w] \in Seq(Seq(Positions)) /\ Len(out[w]) \in Nat
         /\ \A n \in 1 .. Len(out[w]) :
                out[w][n] \in Seq(Positions) /\ Len(out[w][n]) \in Nat
         /\ writer \in Streams /\ MaxLine \in Nat /\ Len(log) \in Nat
<1>1. /\ rest \in Seq(Positions) /\ buf[w] \in Seq(Positions) /\ Len(buf[w]) <= MaxLine
      /\ out[w] \in Seq(Seq(Positions)) /\ writer \in Streams
  BY TypeSplit DEF LinesType
<1>2. \A n \in 1 .. Len(out[w]) : out[w][n] \in Seq(Positions)
  BY <1>1, ElementOfSeq
<1>3. \A q \in Seq(Positions) : Len(q) \in Nat
  BY LenProperties
<1>4. Len(out[w]) \in Nat
  BY <1>1, LenProperties
<1>5. Len(log) \in Nat
  BY LenProperties DEF TypeOK
<1> QED
  BY <1>1, <1>2, <1>3, <1>4, <1>5, StreamAssumptions

\* A line of bytes from the end of a buffer and the start of rest is whole.
LEMMA NextLineWhole ==
  ASSUME TypeOK, WholeInv, loop = "writing", NEW n \in 0 .. Len(rest),
         Len(buf[writer]) + n <= MaxLine, \A j \in 1 .. n : ~IsNL(rest[j])
  PROVE  Whole(received[writer], NextLine(n))
<1> DEFINE b == buf[writer]
           r == received[writer]
           c == NextLine(n)
           k == Len(r) - Len(rest) - Len(b)
<1>1. /\ Len(rest) \in Nat /\ Len(b) \in Nat /\ MaxLine \in Nat /\ writer \in Streams
      /\ Len(r) \in Nat
  BY LinesFacts, ReceivedType, TypeSplit DEF LinesType
<1>2. /\ c \in Seq(Positions)
      /\ Len(c) = Len(b) + n
      /\ \A i \in 1 .. Len(b) : c[i] = b[i]
      /\ \A i \in 1 .. n : c[Len(b) + i] = rest[i]
  BY NextLineType
<1>3. /\ Len(b) + Len(rest) <= Len(r)
      /\ \A i \in 1 .. Len(b) : ~IsNL(b[i]) /\ b[i] = r[Len(r) - Len(rest) - Len(b) + i]
  BY <1>1 DEF WholeInv, BufBeforeRest, Unread
<1>4. \A i \in 1 .. Len(rest) : rest[i] = r[Len(r) - Len(rest) + i]
  BY DEF WholeInv, RestAtEnd, EndsWith
<1> HIDE DEF b, r, c
<1>5. k \in Nat /\ k + Len(c) <= Len(r)
  BY <1>1, <1>2, <1>3
<1>6. \A i \in 1 .. Len(c) : c[i] = r[k + i] /\ ~IsNL(c[i])
  <2> TAKE i \in 1 .. Len(c)
  <2>1. CASE i <= Len(b)
    <3>1. i \in 1 .. Len(b)
      BY <1>1, <1>2, <2>1
    <3> QED
      BY <1>2, <1>3, <3>1
  <2>2. CASE i > Len(b)
    <3> DEFINE j == i - Len(b)
    <3>1. j \in 1 .. n /\ j \in 1 .. Len(rest) /\ i = Len(b) + j
      BY <1>1, <1>2, <2>2
    <3>2. Len(r) - Len(rest) + j = k + i
      BY <1>1, <3>1
    <3> HIDE DEF j, k
    <3>3. c[i] = rest[j]
      BY <1>2, <3>1
    <3>4. rest[j] = r[k + i]
      BY <1>4, <3>1, <3>2
    <3> QED
      BY <3>1, <3>3, <3>4
  <2> QED
    BY <1>1, <1>2, <2>1, <2>2
<1> HIDE DEF k
<1>7. Run(r, c)
  BY <1>5, <1>6 DEF Run
<1>8. Len(c) <= MaxLine
  BY <1>2 DEF b
<1> QED
  BY <1>6, <1>7, <1>8 DEF Whole, c, r

LEMMA WriteWhole ==
  ASSUME TypeOK, WholeInv, WriteStep
  PROVE  WholeInv'
<1> DEFINE b == buf[writer]
           r == received[writer]
<1>1. /\ log' = log /\ writer' = writer /\ received' = received /\ loop = "writing"
  BY DEF WriteStep, env
<1>2. /\ Len(rest) \in Nat /\ Len(b) \in Nat /\ Len(b) <= MaxLine /\ MaxLine \in Nat
      /\ writer \in Streams /\ r \in Seq(Positions) /\ Len(r) \in Nat
      /\ out[writer] \in Seq(Seq(Positions))
      /\ out \in [Streams -> Seq(Seq(Positions))]
      /\ buf \in [Streams -> Seq(Positions)]
  BY LinesFacts, ReceivedType, TypeSplit DEF LinesType
<1>3. PICK n \in 0 .. Len(rest) :
        /\ \A j \in 1 .. n : ~IsNL(rest[j])
        /\ FillsLine(n) \/ EndsLine(n) \/ KeepsLine(n)
  BY WriteTurn
<1>4. Len(b) + n <= MaxLine
  BY <1>2, <1>3 DEF FillsLine, EndsLine, KeepsLine
<1>5. Whole(r, NextLine(n)) /\ NextLine(n) \in Seq(Positions)
  BY <1>1, <1>3, <1>4, NextLineWhole, NextLineType
<1>6. AllWhole(r, Emit(out[writer], NextLine(n)))
  BY <1>2, <1>5, EmitWhole DEF WholeInv
<1>7. Len(r) >= Len(rest) /\ \A i \in 1 .. Len(rest) : rest[i] = r[Len(r) - Len(rest) + i]
  BY <1>1 DEF WholeInv, RestAtEnd, EndsWith
<1>8. \A m \in 1 .. Len(rest) + 1 : EndsWith(r, SubSeq(rest, m, Len(rest)))
  <2> TAKE m \in 1 .. Len(rest) + 1
  <2> DEFINE t == SubSeq(rest, m, Len(rest))
  <2>1. m \in Nat \ {0} /\ Len(rest) \in 0 .. Len(rest)
    BY <1>2
  <2>2. /\ Len(t) = IF m <= Len(rest) THEN Len(rest) - m + 1 ELSE 0
        /\ \A i \in 1 .. Len(rest) - m + 1 : t[i] = rest[m + i - 1]
    BY <2>1, PartOfRest
  <2> HIDE DEF t, r
  <2>3. Len(t) = Len(rest) - m + 1 /\ Len(t) <= Len(r)
    BY <1>2, <1>7, <2>1, <2>2
  <2>4. \A i \in 1 .. Len(t) : t[i] = r[Len(r) - Len(t) + i]
    <3> TAKE i \in 1 .. Len(t)
    <3>1. /\ m + i - 1 \in 1 .. Len(rest)
          /\ Len(r) - Len(rest) + (m + i - 1) = Len(r) - Len(t) + i
      BY <1>2, <2>1, <2>3
    <3> QED
      BY <1>7, <2>2, <2>3, <3>1
  <2> QED
    BY <2>3, <2>4 DEF EndsWith, t
<1>9. \A v \in Streams \ {writer} :
        /\ BufBeforeRest(v)
        /\ AllWhole(received[v], out[v])
        /\ Unread(v) = 0
  BY DEF WholeInv, Unread
<1>10. ASSUME NEW v \in Streams \ {writer}, buf'[v] = buf[v], out'[v] = out[v]
       PROVE  BufBeforeRest(v)' /\ AllWhole(received[v], out[v])'
  <2>1. Unread(v)' = 0 /\ Unread(v) = 0
    BY <1>1 DEF Unread
  <2>2. BufBeforeRest(v)'
    BY ZenonT(30), <1>1, <1>9, <1>10, <2>1 DEF BufBeforeRest, IsNL
  <2>3. AllWhole(received[v], out'[v])
    BY <1>9, <1>10
  <2>4. AllWhole(received[v], out[v])'
    BY <1>1, <2>3 DEF AllWhole, Whole, IsNL, Run
  <2> QED
    BY <2>2, <2>4
<1>11. ASSUME out'[writer] = Emit(out[writer], NextLine(n)) \/ out'[writer] = out[writer]
       PROVE  AllWhole(received[writer], out[writer])'
  <2>1. AllWhole(received[writer], out[writer])
    BY <1>2 DEF WholeInv
  <2>2. AllWhole(r, out'[writer])
    BY <1>6, <1>11, <2>1
  <2> QED
    BY <1>1, <2>2 DEF AllWhole, Whole, IsNL, Run
<1>12. ASSUME out' = [out EXCEPT ![writer] = Emit(@, NextLine(n))],
              buf' = [buf EXCEPT ![writer] = <<>>], loop' = loop,
              NEW m \in 1 .. Len(rest) + 1, rest' = SubSeq(rest, m, Len(rest))
       PROVE  WholeInv'
  <2>1. EndsWith(received'[writer'], rest')
    BY <1>1, <1>8, <1>12
  <2>2. RestAtEnd'
    BY <1>1, <2>1 DEF RestAtEnd, EndsWith
  <2>3. buf'[writer] = <<>> /\ Len(<<>>) = 0
    BY <1>2, <1>12, EmptySeq
  <2>4. BufBeforeRest(writer)'
    <3>1. Unread(writer)' = Len(rest')
      BY <1>1, <1>12 DEF Unread
    <3>2. Len(rest') <= Len(r)
      BY <1>1, <2>1 DEF EndsWith
    <3>3. Len(rest') \in Nat
      BY <1>2, <1>12, PartOfRest, LenProperties
    <3>4. Len(buf'[writer]) + Len(rest') <= Len(received'[writer])
      BY <1>1, <2>3, <3>2, <3>3
    <3>5. 1 .. Len(buf'[writer]) = {}
      BY <2>3
    <3> QED
      BY <1>1, <3>1, <3>4, <3>5 DEF BufBeforeRest
  <2>5. AllWhole(received[writer], out[writer])'
    BY <1>2, <1>11, <1>12
  <2>6. \A v \in Streams \ {writer} : buf'[v] = buf[v] /\ out'[v] = out[v]
    BY <1>2, <1>12
  <2> QED
    BY <1>1, <1>10, <2>2, <2>4, <2>5, <2>6 DEF WholeInv
<1>13. CASE FillsLine(n)
  <2>1. n + 1 \in 1 .. Len(rest) + 1
    BY <1>2
  <2> QED
    BY <1>12, <1>13, <2>1 DEF FillsLine
<1>14. CASE EndsLine(n)
  <2>1. n + 2 \in 1 .. Len(rest) + 1
    BY <1>2, <1>14 DEF EndsLine
  <2> QED
    BY <1>12, <1>14, <2>1 DEF EndsLine
<1>15. CASE KeepsLine(n)
  <2>1. /\ n = Len(rest) /\ buf'[writer] = NextLine(n) /\ out' = out /\ loop' = "reading"
        /\ \A v \in Streams \ {writer} : buf'[v] = buf[v]
    BY <1>2, <1>15 DEF KeepsLine
  <2>2. RestAtEnd'
    BY <2>1 DEF RestAtEnd
  <2>3. BufBeforeRest(writer)'
    <3> DEFINE c == NextLine(n)
    <3>1. /\ Len(c) = Len(b) + n
          /\ \A i \in 1 .. Len(b) : c[i] = b[i]
          /\ \A i \in 1 .. n : c[Len(b) + i] = rest[i]
      BY NextLineType
    <3>2. /\ Len(b) + Len(rest) <= Len(r)
          /\ \A i \in 1 .. Len(b) : b[i] = r[Len(r) - Len(rest) - Len(b) + i]
      BY <1>1, <1>2 DEF WholeInv, BufBeforeRest, Unread
    <3>3. \A i \in 1 .. Len(c) : ~IsNL(c[i])
      BY <1>5 DEF Whole
    <3> HIDE DEF c, b, r
    <3>4. \A i \in 1 .. Len(c) : c[i] = r[Len(r) - Len(c) + i]
      <4> TAKE i \in 1 .. Len(c)
      <4>1. CASE i <= Len(b)
        <5>1. i \in 1 .. Len(b) /\ Len(r) - Len(rest) - Len(b) + i = Len(r) - Len(c) + i
          BY <1>2, <2>1, <3>1, <4>1
        <5> QED
          BY <3>1, <3>2, <5>1
      <4>2. CASE i > Len(b)
        <5> DEFINE j == i - Len(b)
        <5>1. /\ j \in 1 .. n /\ j \in 1 .. Len(rest) /\ i = Len(b) + j
              /\ Len(r) - Len(rest) + j = Len(r) - Len(c) + i
          BY <1>2, <2>1, <3>1, <4>2
        <5> HIDE DEF j
        <5>2. c[i] = rest[j] /\ rest[j] = r[Len(r) - Len(rest) + j]
          BY <1>7, <3>1, <5>1
        <5> QED
          BY <5>1, <5>2
      <4> QED
        BY <1>2, <2>1, <3>1, <4>1, <4>2
    <3>5. Unread(writer)' = 0
      BY <2>1 DEF Unread
    <3>6. Len(c) <= Len(r) /\ Len(c) \in Nat
      BY <1>2, <2>1, <3>1, <3>2
    <3>7. /\ Len(c) + 0 <= Len(r)
          /\ \A i \in 1 .. Len(c) : ~IsNL(c[i]) /\ c[i] = r[Len(r) - 0 - Len(c) + i]
      BY <1>2, <3>3, <3>4, <3>6
    <3>8. buf'[writer'] = c /\ received'[writer'] = r
      BY <1>1, <2>1 DEF c, r
    <3> QED
      BY <1>1, <2>1, <3>5, <3>7, <3>8 DEF BufBeforeRest, IsNL, c, r
  <2>4. AllWhole(received[writer], out[writer])'
    BY <1>11, <2>1
  <2> QED
    BY <1>1, <1>10, <2>1, <2>2, <2>3, <2>4 DEF WholeInv
<1> QED
  BY <1>3, <1>13, <1>14, <1>15

\* A run of r is a run of what r is the start of.
LEMMA WholeExtends ==
  ASSUME NEW S, NEW r \in Seq(S), NEW q \in Seq(S), Len(r) <= Len(q),
         \A i \in 1 .. Len(r) : q[i] = r[i],
         NEW line \in Seq(S), Whole(r, line)
  PROVE  Whole(q, line)
<1>1. Len(r) \in Nat /\ Len(q) \in Nat /\ Len(line) \in Nat
  BY LenProperties
<1>2. PICK k \in Nat : /\ k + Len(line) <= Len(r)
                       /\ \A i \in 1 .. Len(line) : line[i] = r[k + i]
  BY DEF Whole, Run
<1>3. k + Len(line) <= Len(q)
  BY <1>1, <1>2
<1>4. \A i \in 1 .. Len(line) : line[i] = q[k + i]
  <2> TAKE i \in 1 .. Len(line)
  <2>1. k + i \in 1 .. Len(r)
    BY <1>1, <1>2
  <2> QED
    BY <1>2, <2>1
<1> QED
  BY <1>3, <1>4 DEF Whole, Run

LEMMA FrameWhole ==
  ASSUME TypeOK, WholeInv, NEW w \in Streams, NEW n \in 1 .. MaxLog, Frame(w, n)
  PROVE  WholeInv'
<1> DEFINE frame == [i \in 1 .. n |-> next + i - 1]
           r == received[w]
           q == received'[w]
           b == buf[w]
<1>1. /\ log' = log /\ loop = "reading" /\ loop' = "writing" /\ writer' = w
      /\ rest' = frame /\ buf' = buf /\ out' = out
  BY DEF Frame, env
<1>2. /\ n \in Nat \ {0} /\ Len(frame) = n
      /\ \A i \in 1 .. n : frame[i] = next + i - 1
  BY FrameType
<1>3. /\ q \in Seq(Positions)
      /\ Len(q) = Len(r) + n
      /\ \A i \in 1 .. Len(r) : q[i] = r[i]
      /\ \A i \in 1 .. n : q[Len(r) + i] = next + i - 1
      /\ \A v \in Streams \ {w} : received'[v] = received[v]
  BY FrameReceived
<1>4. r \in Seq(Positions) /\ Len(r) \in Nat /\ Len(b) \in Nat
  BY ReceivedType, LinesFacts
<1>5. \A v \in Streams : Unread(v) = 0
  BY <1>1 DEF Unread
<1>6. RestAtEnd'
  <2> HIDE DEF frame, r, q
  <2>1. \A i \in 1 .. n : frame[i] = q[Len(q) - n + i]
    <3>1. Len(q) - n = Len(r)
      BY <1>2, <1>3, <1>4
    <3> QED
      BY <1>2, <1>3, <3>1
  <2>2. Len(frame) <= Len(q)
    BY <1>2, <1>3, <1>4
  <2>3. EndsWith(q, frame)
    BY <1>2, <2>1, <2>2 DEF EndsWith
  <2>4. EndsWith(received'[writer'], rest')
    BY <1>1, <2>3 DEF q
  <2> QED
    BY <2>4 DEF RestAtEnd, EndsWith
<1>7. BufBeforeRest(w)'
  <2>1. /\ Len(b) <= Len(r)
        /\ \A i \in 1 .. Len(b) : ~IsNL(b[i]) /\ b[i] = r[Len(r) - Len(b) + i]
    <3>1. /\ Len(b) + 0 <= Len(r)
          /\ \A i \in 1 .. Len(b) : ~IsNL(b[i]) /\ b[i] = r[Len(r) - 0 - Len(b) + i]
      BY <1>5 DEF WholeInv, BufBeforeRest
    <3> HIDE DEF r, b
    <3>2. Len(r) - 0 = Len(r) /\ Len(b) + 0 = Len(b)
      BY <1>4
    <3> QED
      BY <3>1, <3>2
  <2>2. Unread(w)' = n
    BY <1>1, <1>2 DEF Unread
  <2> HIDE DEF r, q, b
  <2>3. Len(b) + n <= Len(q)
    BY <1>2, <1>3, <1>4, <2>1
  <2>4. \A i \in 1 .. Len(b) : b[i] = q[Len(q) - n - Len(b) + i]
    <3> TAKE i \in 1 .. Len(b)
    <3>1. /\ Len(q) - n - Len(b) + i = Len(r) - Len(b) + i
          /\ Len(r) - Len(b) + i \in 1 .. Len(r)
      BY <1>2, <1>3, <1>4, <2>1
    <3> QED
      BY <1>3, <2>1, <3>1
  <2>5. buf'[w] = b /\ received'[w] = q
    BY <1>1 DEF b, q
  <2> QED
    BY <1>1, <2>1, <2>2, <2>3, <2>4, <2>5 DEF BufBeforeRest, IsNL
<1>8. ASSUME NEW v \in Streams \ {w} PROVE BufBeforeRest(v)'
  <2>1. Unread(v)' = 0 /\ Unread(v) = 0 /\ BufBeforeRest(v)
    BY <1>1, <1>5 DEF Unread, WholeInv
  <2>2. received'[v] = received[v] /\ buf'[v] = buf[v]
    BY <1>1, <1>3
  <2> QED
    BY <1>1, <2>1, <2>2 DEF BufBeforeRest, IsNL
<1>9. ASSUME NEW v \in Streams PROVE AllWhole(received[v], out[v])'
  <2>1. /\ received[v] \in Seq(Positions) /\ received'[v] \in Seq(Positions)
        /\ Len(received[v]) <= Len(received'[v])
        /\ \A i \in 1 .. Len(received[v]) : received'[v][i] = received[v][i]
    BY SMTT(30), <1>2, <1>3, <1>4, ReceivedType
  <2>2. \A m \in 1 .. Len(out[v]) : Whole(received'[v], out[v][m])
    <3> TAKE m \in 1 .. Len(out[v])
    <3>1. Whole(received[v], out[v][m]) /\ out[v][m] \in Seq(Positions)
      BY LinesFacts DEF WholeInv, AllWhole
    <3> QED
      BY <2>1, <3>1, WholeExtends
  <2> QED
    BY <1>1, <2>2 DEF AllWhole, Whole, IsNL, Run
<1> QED
  BY <1>6, <1>7, <1>8, <1>9 DEF WholeInv

\* Return logs what is left in the buffers.
LEMMA ReturnWhole ==
  ASSUME TypeOK, WholeInv, Return, loop # "writing"
  PROVE  WholeInv'
<1>1. log' = log /\ received' = received /\ loop' = "exited"
  BY DEF Return, env
<1>2. \A v \in Streams : out'[v] = Emit(out[v], buf[v]) /\ buf'[v] = <<>>
  BY DEF Return, FlushBoth
<1>3. RestAtEnd'
  BY <1>1 DEF RestAtEnd
<1>4. ASSUME NEW v \in Streams PROVE BufBeforeRest(v)'
  <2>1. Len(buf'[v]) = 0
    BY <1>2, EmptySeq
  <2>2. Len(received[v]) \in Nat
    BY ReceivedType
  <2>3. Unread(v)' = 0
    BY <1>1 DEF Unread
  <2>4. 1 .. Len(buf'[v]) = {} /\ Len(buf'[v]) + 0 <= Len(received'[v])
    BY <1>1, <2>1, <2>2
  <2> QED
    BY <2>3, <2>4 DEF BufBeforeRest
<1>5. ASSUME NEW v \in Streams PROVE AllWhole(received[v], out[v])'
  <2> DEFINE r == received[v]
             b == buf[v]
  <2>1. /\ Len(b) \in Nat /\ Len(b) <= MaxLine /\ Len(r) \in Nat /\ MaxLine \in Nat
        /\ b \in Seq(Positions) /\ r \in Seq(Positions)
        /\ out[v] \in Seq(Seq(Positions))
    BY LinesFacts, ReceivedType
  <2>2. Unread(v) = 0
    BY DEF Unread
  <2>3. /\ Len(b) + 0 <= Len(r)
        /\ \A i \in 1 .. Len(b) : ~IsNL(b[i]) /\ b[i] = r[Len(r) - 0 - Len(b) + i]
    BY <2>2 DEF WholeInv, BufBeforeRest
  <2>4. Whole(r, b)
    <3> DEFINE k == Len(r) - Len(b)
    <3> HIDE DEF r, b
    <3>1. /\ k \in Nat /\ k + Len(b) <= Len(r)
          /\ \A i \in 1 .. Len(b) : b[i] = r[k + i]
      BY <2>1, <2>3
    <3> HIDE DEF k
    <3>2. Run(r, b)
      BY <3>1 DEF Run
    <3> QED
      BY <2>1, <2>3, <3>2 DEF Whole
  <2>5. AllWhole(r, out[v])
    BY DEF WholeInv
  <2>6. AllWhole(r, Emit(out[v], b))
    BY <2>1, <2>4, <2>5, EmitWhole
  <2>7. AllWhole(received[v], out'[v])
    BY <1>2, <2>6
  <2> QED
    BY <1>1, <2>7 DEF AllWhole, Whole, IsNL, Run
<1> QED
  BY <1>3, <1>4, <1>5 DEF WholeInv

\* A log that grows says the same of the positions it had.
LEMMA LogWhole ==
  ASSUME TypeOK, WholeInv, NEW b \in Writes, Log(b)
  PROVE  WholeInv'
<1>1. /\ log' = Append(log, b) /\ loop' = loop /\ rest' = rest /\ writer' = writer
      /\ buf' = buf /\ out' = out /\ received' = received
  BY DEF Log, lines
<1>2. \A p \in Positions : IsNL(p)' <=> IsNL(p)
  BY <1>1, LenProperties DEF TypeOK, Positions, IsNL
<1>3. RestAtEnd'
  BY <1>1 DEF WholeInv, RestAtEnd, EndsWith
<1>4. ASSUME NEW v \in Streams PROVE BufBeforeRest(v)'
  <2>1. \A i \in 1 .. Len(buf[v]) : buf[v][i] \in Positions
    BY LinesFacts, ElementOfSeq
  <2>2. Unread(v)' = Unread(v)
    BY <1>1 DEF Unread
  <2>3. BufBeforeRest(v)
    BY DEF WholeInv
  <2>4. \A i \in 1 .. Len(buf[v]) : ~IsNL(buf[v][i])'
    BY <1>1, <1>2, <2>1, <2>3 DEF BufBeforeRest
  <2> QED
    BY <1>1, <2>2, <2>3, <2>4 DEF BufBeforeRest
<1>5. ASSUME NEW v \in Streams PROVE AllWhole(received[v], out[v])'
  <2>1. \A m \in 1 .. Len(out[v]) : Whole(received[v], out[v][m])'
    <3> TAKE m \in 1 .. Len(out[v])
    <3>1. Whole(received[v], out[v][m])
      BY DEF WholeInv, AllWhole
    <3>2. \A i \in 1 .. Len(out[v][m]) : out[v][m][i] \in Positions
      BY LinesFacts, ElementOfSeq
    <3>3. \A i \in 1 .. Len(out[v][m]) : ~IsNL(out[v][m][i])'
      BY <1>1, <1>2, <3>1, <3>2 DEF Whole
    <3> QED
      BY <1>1, <3>1, <3>3 DEF Whole, Run
  <2> QED
    BY <1>1, <2>1 DEF AllWhole
<1> QED
  BY <1>3, <1>4, <1>5 DEF WholeInv

LEMMA StepWhole ==
  ASSUME TypeOK, WholeInv, [Next]_vars
  PROVE  WholeInv'
<1>1. ASSUME UNCHANGED <<log, lines>>, loop # "writing", loop' # "writing" PROVE WholeInv'
  BY ZenonT(30), <1>1 DEF WholeInv, RestAtEnd, BufBeforeRest, Unread, AllWhole, Whole, Run, IsNL, lines
<1>2. ASSUME UNCHANGED <<log, lines, loop>> PROVE WholeInv'
  BY ZenonT(30), <1>2 DEF WholeInv, RestAtEnd, EndsWith, BufBeforeRest, Unread, AllWhole, Whole, Run,
     IsNL, lines
<1>3. ASSUME NEW b \in Writes, Log(b) PROVE WholeInv'
  BY <1>3, LogWhole
<1>4. CASE Cancel \/ Terminate \/ UNCHANGED vars
  BY <1>2, <1>4 DEF Cancel, Terminate, vars, env
<1>5. CASE Start \/ OpenSucceeds \/ RecordSince \/ PauseElapses
  BY <1>1, <1>5 DEF Start, OpenSucceeds, OpenAt, RecordSince, PauseElapses, env
<1>6. ASSUME NEW fast \in BOOLEAN, ReadEOF(fast) PROVE WholeInv'
  BY <1>1, <1>6 DEF ReadEOF, env
<1>7. CASE OpenFails \/ ReadFails \/ PauseCancelled
  BY <1>7, ReturnWhole DEF OpenFails, ReadFails, PauseCancelled
<1>8. ASSUME NEW w \in Streams, NEW n \in 1 .. MaxLog, Frame(w, n) PROVE WholeInv'
  BY <1>8, FrameWhole
<1>9. CASE WriteStep
  BY <1>9, WriteWhole
<1> QED
  BY <1>3, <1>4, <1>5, <1>6, <1>7, <1>8, <1>9 DEF Next, Goroutine

LEMMA InitWhole == Init => WholeInv
<1> SUFFICES ASSUME Init PROVE WholeInv
  OBVIOUS
<1>1. Len(<<>>) = 0 /\ 1 .. 0 = {}
  BY EmptySeq
<1>2. \A w \in Streams : Unread(w) = 0
  BY DEF Init, Unread
<1> QED
  BY <1>1, <1>2 DEF Init, WholeInv, RestAtEnd, BufBeforeRest, AllWhole

LinesWhole == \A w \in Streams : AllWhole(received[w], out[w])

\* Every line logged is a run of consecutive bytes of what its own writer was
\* given, without a newline and not too long: no frame, reopened stream or
\* full buffer ever joins two lines, mixes two streams or repeats a byte.
THEOREM LinesAreWhole == Spec => []LinesWhole
<1>1. Init => WholeInv
  BY InitWhole
<1>2. TypeOK /\ WholeInv /\ [Next]_vars => WholeInv'
  BY StepWhole
<1>3. WholeInv => LinesWhole
  BY DEF WholeInv, LinesWhole
<1> QED
  BY TypeCorrect, <1>1, <1>2, <1>3, PTL DEF Spec

-----------------------------------------------------------------------------
\* The reference, on any set of newlines.

\* A line starts at the first byte or after a newline, and has none before i.
StartsLine(nl, i, a) ==
    /\ a \in 1 .. i
    /\ a = 1 \/ a - 1 \in nl
    /\ \A j \in a .. i - 1 : j \notin nl

LEMMA LineStartFacts ==
  ASSUME NEW nl, NEW i \in Nat \ {0}
  PROVE  StartsLine(nl, i, LineStart(nl, i))
<1> DEFINE T == {1} \cup {j \in 2 .. i : j - 1 \in nl}
           a == LineStart(nl, i)
<1>1. T \subseteq 0 .. i /\ T # {}
  OBVIOUS
<1>2. a \in T /\ \A j \in T : j <= a
  BY <1>1, MaxOfBounded DEF LineStart
<1>3. a \in 1 .. i /\ (a = 1 \/ a - 1 \in nl)
  BY <1>2
<1> HIDE DEF a
<1>4. \A j \in a .. i - 1 : j \notin nl
  <2> SUFFICES ASSUME NEW j \in a .. i - 1, j \in nl PROVE FALSE
    OBVIOUS
  <2>1. j + 1 \in 2 .. i /\ (j + 1) - 1 = j
    BY <1>3
  <2>2. j + 1 \in T
    BY <2>1
  <2> QED
    BY <1>2, <1>3, <2>1, <2>2
<1>5. StartsLine(nl, i, a)
  BY <1>3, <1>4 DEF StartsLine
<1> QED
  BY <1>5 DEF a

LEMMA LineStartIs ==
  ASSUME NEW nl, NEW i \in Nat \ {0}, NEW a, StartsLine(nl, i, a)
  PROVE  LineStart(nl, i) = a
<1> DEFINE c == LineStart(nl, i)
<1>1. StartsLine(nl, i, c)
  BY LineStartFacts
<1> HIDE DEF c
<1>2. ~(a < c)
  <2>1. ASSUME a < c PROVE c - 1 \in a .. i - 1 /\ c - 1 \in nl
    BY <1>1, <2>1 DEF StartsLine
  <2> QED
    BY <2>1 DEF StartsLine
<1>3. ~(c < a)
  <2>1. ASSUME c < a PROVE a - 1 \in c .. i - 1 /\ a - 1 \in nl
    BY <1>1, <2>1 DEF StartsLine
  <2> QED
    BY <1>1, <2>1 DEF StartsLine
<1>4. c = a
  BY <1>1, <1>2, <1>3 DEF StartsLine
<1> QED
  BY <1>4 DEF c

\* Bytes on one line have one start of line.
LEMMA SameLine ==
  ASSUME NEW nl, NEW i \in Nat \ {0}, NEW j \in Nat, i <= j,
         \A k \in i .. j - 1 : k \notin nl
  PROVE  LineStart(nl, j) = LineStart(nl, i)
<1> DEFINE a == LineStart(nl, i)
<1>1. StartsLine(nl, i, a)
  BY LineStartFacts
<1> HIDE DEF a
<1>2. \A k \in a .. j - 1 : k \notin nl
  <2> TAKE k \in a .. j - 1
  <2> QED
    BY <1>1 DEF StartsLine
<1>3. StartsLine(nl, j, a)
  BY <1>1, <1>2 DEF StartsLine
<1>4. LineStart(nl, j) = a
  BY <1>3, LineStartIs
<1> QED
  BY <1>4 DEF a

\* Newlines from i on do not matter to where the line of i starts.
LEMMA LineStartAgrees ==
  ASSUME NEW nl, NEW ml, NEW i \in Nat \ {0}, \A j \in 1 .. i - 1 : j \in nl <=> j \in ml
  PROVE  LineStart(nl, i) = LineStart(ml, i)
<1> DEFINE a == LineStart(nl, i)
<1>1. StartsLine(nl, i, a)
  BY LineStartFacts
<1> HIDE DEF a
<1>2. StartsLine(ml, i, a)
  BY <1>1 DEF StartsLine
<1>3. LineStart(ml, i) = a
  BY <1>2, LineStartIs
<1> QED
  BY <1>3 DEF a

\* The place e where the piece that starts at i ends: at most MaxLine bytes on,
\* before a newline, or at the end.
EndsPiece(nl, len, i, e) ==
    /\ e \in i .. len
    /\ e < i + MaxLine
    /\ \A k \in i .. e : k \notin nl
    /\ e = len \/ e + 1 = i + MaxLine \/ e + 1 \in nl

LEMMA PieceEndFacts ==
  ASSUME NEW nl, NEW len \in Nat, NEW i \in 1 .. len, i \notin nl
  PROVE  EndsPiece(nl, len, i, PieceEnd(nl, len, i))
<1> DEFINE T == {j \in i .. len : j < i + MaxLine /\ \A k \in i .. j : k \notin nl}
           e == PieceEnd(nl, len, i)
<1>1. MaxLine \in Nat \ {0}
  BY StreamAssumptions
<1>2. i \in T /\ T \subseteq 0 .. len
  BY <1>1
<1>3. e \in T /\ \A j \in T : j <= e
  <2> HIDE DEF T
  <2> QED
    BY <1>2, MaxOfBounded DEF PieceEnd, T
<1>4. e \in i .. len /\ e < i + MaxLine /\ \A k \in i .. e : k \notin nl
  BY <1>3
<1> HIDE DEF e
<1>5. e = len \/ e + 1 = i + MaxLine \/ e + 1 \in nl
  <2> SUFFICES ASSUME e # len, e + 1 # i + MaxLine, e + 1 \notin nl PROVE FALSE
    OBVIOUS
  <2>1. e + 1 \in i .. len /\ e + 1 < i + MaxLine
    BY <1>1, <1>4
  <2>2. \A k \in i .. e + 1 : k \notin nl
    <3> TAKE k \in i .. e + 1
    <3>1. k \in i .. e \/ k = e + 1
      BY <1>4
    <3> QED
      BY <1>4, <3>1
  <2>3. e + 1 \in T
    BY <2>1, <2>2
  <2> QED
    BY <1>3, <1>4, <2>3
<1>6. EndsPiece(nl, len, i, e)
  BY <1>4, <1>5 DEF EndsPiece
<1> QED
  BY <1>6 DEF e

LEMMA PieceEndIs ==
  ASSUME NEW nl, NEW len \in Nat, NEW i \in 1 .. len, NEW e, EndsPiece(nl, len, i, e)
  PROVE  PieceEnd(nl, len, i) = e
<1> DEFINE d == PieceEnd(nl, len, i)
<1>1. MaxLine \in Nat \ {0} /\ i \notin nl
  BY StreamAssumptions DEF EndsPiece
<1>2. EndsPiece(nl, len, i, d)
  BY <1>1, PieceEndFacts
<1> HIDE DEF d
<1>3. ~(d < e)
  <2>1. ASSUME d < e PROVE d + 1 \in i .. e
    BY <1>2, <2>1 DEF EndsPiece
  <2> QED
    BY <1>1, <1>2, <2>1 DEF EndsPiece
<1>4. ~(e < d)
  <2>1. ASSUME e < d PROVE e + 1 \in i .. d
    BY <1>2, <2>1 DEF EndsPiece
  <2> QED
    BY <1>1, <1>2, <2>1 DEF EndsPiece
<1>5. d = e
  BY <1>2, <1>3, <1>4 DEF EndsPiece
<1> QED
  BY <1>5 DEF d

\* c lies a number of whole pieces into its line.
Aligned(nl, c) == \E k \in 0 .. c : c = LineStart(nl, c) + k * MaxLine

LEMMA AlignedAfterNewline ==
  ASSUME NEW nl, NEW c \in Nat \ {0}, c = 1 \/ c - 1 \in nl
  PROVE  Aligned(nl, c)
<1>1. StartsLine(nl, c, c)
  BY DEF StartsLine
<1>2. LineStart(nl, c) = c
  BY <1>1, LineStartIs
<1>3. 0 \in 0 .. c /\ c = c + 0 * MaxLine
  BY StreamAssumptions
<1> QED
  BY <1>2, <1>3 DEF Aligned

LEMMA AlignedAfterPiece ==
  ASSUME NEW nl, NEW c \in Nat \ {0}, Aligned(nl, c),
         \A j \in c .. c + MaxLine - 1 : j \notin nl
  PROVE  Aligned(nl, c + MaxLine)
<1>1. MaxLine \in Nat \ {0}
  BY StreamAssumptions
<1>2. PICK k \in 0 .. c : c = LineStart(nl, c) + k * MaxLine
  BY DEF Aligned
<1>3. LineStart(nl, c + MaxLine) = LineStart(nl, c)
  BY <1>1, SameLine
<1>4. (k + 1) * MaxLine = k * MaxLine + MaxLine
  BY <1>1
<1>5. LineStart(nl, c) \in Nat
  BY LineStartFacts DEF StartsLine
<1>6. k * MaxLine \in Nat
  BY <1>1
<1>7. k + 1 \in 0 .. c + MaxLine
  BY <1>1
<1>8. c + MaxLine = LineStart(nl, c) + (k * MaxLine + MaxLine)
  BY <1>1, <1>2, <1>5, <1>6
<1> QED
  BY <1>3, <1>4, <1>7, <1>8 DEF Aligned

LEMMA NoneBetween ==
  ASSUME NEW nl, NEW c \in Nat \ {0}, Aligned(nl, c), NEW i \in c + 1 .. c + MaxLine - 1,
         \A j \in c .. i - 1 : j \notin nl
  PROVE  ~Aligned(nl, i)
<1> SUFFICES ASSUME Aligned(nl, i) PROVE FALSE
  OBVIOUS
<1> DEFINE a == LineStart(nl, c)
<1>1. MaxLine \in Nat \ {0}
  BY StreamAssumptions
<1>2. PICK k \in 0 .. c : c = a + k * MaxLine
  BY DEF Aligned
<1>3. LineStart(nl, i) = a
  BY <1>1, SameLine
<1>4. PICK m \in 0 .. i : i = a + m * MaxLine
  BY <1>3 DEF Aligned
<1>5. a \in Nat /\ k * MaxLine \in Nat /\ m * MaxLine \in Nat
  BY <1>1, LineStartFacts DEF StartsLine
<1> HIDE DEF a
<1>6. k * MaxLine < m * MaxLine /\ m * MaxLine < k * MaxLine + MaxLine
  BY <1>1, <1>2, <1>4, <1>5
<1>7. k < m
  <2> SUFFICES ASSUME m <= k PROVE FALSE
    OBVIOUS
  <2>1. m * MaxLine <= k * MaxLine
    BY <1>1
  <2> QED
    BY <1>5, <1>6, <2>1
<1>8. (k + 1) * MaxLine <= m * MaxLine
  BY <1>1, <1>7
<1>9. (k + 1) * MaxLine = k * MaxLine + MaxLine
  BY <1>1
<1> QED
  BY <1>1, <1>5, <1>6, <1>8, <1>9

-----------------------------------------------------------------------------
\* The reference for the bytes of any log g.
NewlinesIn(g, s) == {i \in DOMAIN s : g[s[i]].kind = "nl"}

LastKept(g, line) == Max({0} \cup {i \in 1 .. Len(line) : ~(g[line[i]].kind = "cr")})

TrimIn(g, line) == SubSeq(line, 1, LastKept(g, line))

EmitIn(g, logged, line) ==
    IF TrimIn(g, line) = <<>> THEN logged ELSE Append(logged, TrimIn(g, line))

PieceIn(g, s, i) == SubSeq(s, i, PieceEnd(NewlinesIn(g, s), Len(s), i))

\* The pieces that start before c.
StartsIn(g, s, c) ==
    {i \in 1 .. c - 1 :
        PieceStart(NewlinesIn(g, s), i) /\ TrimIn(g, PieceIn(g, s, i)) # <<>>}

LinesIn(g, logged, s, starts) ==
    \E start \in [1 .. Len(logged) -> starts] :
        /\ \A i \in starts : \E n \in 1 .. Len(logged) : start[n] = i
        /\ \A n \in 1 .. Len(logged) :
            /\ logged[n] = TrimIn(g, PieceIn(g, s, start[n]))
            /\ \A m \in 1 .. n - 1 : start[m] < start[n]

\* The bytes of s before c are all in the lines logged and end where a piece
\* does, and no piece among them is still open.
CutUpTo(g, s, c, logged) ==
    /\ c \in 1 .. Len(s) + 1
    /\ Aligned(NewlinesIn(g, s), c)
    /\ \A i \in 1 .. c - 1 :
           PieceStart(NewlinesIn(g, s), i) => PieceEnd(NewlinesIn(g, s), Len(s), i) < Len(s)
    /\ LinesIn(g, logged, s, StartsIn(g, s, c))

LEMMA TrimInType ==
  ASSUME NEW g, NEW S, NEW line \in Seq(S)
  PROVE  LastKept(g, line) \in 0 .. Len(line) /\ TrimIn(g, line) \in Seq(S)
<1> DEFINE T == {0} \cup {i \in 1 .. Len(line) : ~(g[line[i]].kind = "cr")}
<1>1. Len(line) \in Nat /\ \A i \in 1 .. Len(line) : line[i] \in S
  BY LenProperties, ElementOfSeq
<1>2. LastKept(g, line) \in 0 .. Len(line)
  <2>1. T \subseteq 0 .. Len(line) /\ T # {}
    BY <1>1
  <2> HIDE DEF T
  <2>2. Max(T) \in 0 .. Len(line)
    BY <1>1, <2>1, MaxOfBounded
  <2> QED
    BY <2>2 DEF LastKept, T
<1>3. \A i \in 1 .. LastKept(g, line) : line[i] \in S
  BY <1>1, <1>2
<1> QED
  BY <1>1, <1>2, <1>3, SubSeqProperties DEF TrimIn

\* Nothing is logged of an empty line.
LEMMA EmitNothing ==
  ASSUME NEW g, NEW logged
  PROVE  EmitIn(g, logged, <<>>) = logged
<1>1. <<>> \in Seq({}) /\ Len(<<>>) = 0
  BY EmptySeq
<1>2. LastKept(g, <<>>) \in 0 .. Len(<<>>)
  BY <1>1, TrimInType
<1>3. LastKept(g, <<>>) = 0
  BY <1>1, <1>2
<1>4. TrimIn(g, <<>>) = <<>>
  BY <1>3, SubSeqEmpty DEF TrimIn
<1> QED
  BY <1>4 DEF EmitIn

\* A line more, with the piece at c, are the lines of the pieces up to d.
LEMMA OnePieceMore ==
  ASSUME NEW g, NEW S, NEW s \in Seq(S), NEW logged \in Seq(Seq(S)),
         NEW c \in 1 .. Len(s), NEW d \in c + 1 .. Len(s) + 1,
         NEW line \in Seq(S), line = PieceIn(g, s, c),
         PieceStart(NewlinesIn(g, s), c),
         \A i \in c + 1 .. d - 1 : ~PieceStart(NewlinesIn(g, s), i),
         LinesIn(g, logged, s, StartsIn(g, s, c))
  PROVE  LinesIn(g, EmitIn(g, logged, line), s, StartsIn(g, s, d))
<1> DEFINE C == StartsIn(g, s, c)
           D == StartsIn(g, s, d)
           t == TrimIn(g, line)
           L == Len(logged)
<1>1. Len(s) \in Nat /\ L \in Nat
  BY LenProperties
<1>2. t \in Seq(S)
  BY TrimInType
<1>3. \A i : i \in D <=> i \in C \/ (i = c /\ t # <<>>)
  BY <1>1 DEF StartsIn
<1>4. PICK start \in [1 .. L -> C] :
        /\ \A i \in C : \E n \in 1 .. L : start[n] = i
        /\ \A n \in 1 .. L :
            /\ logged[n] = TrimIn(g, PieceIn(g, s, start[n]))
            /\ \A m \in 1 .. n - 1 : start[m] < start[n]
  BY DEF LinesIn
<1>5. C \subseteq 1 .. c - 1
  BY DEF StartsIn
<1>6. CASE t = <<>>
  <2>1. D = C /\ EmitIn(g, logged, line) = logged
    BY <1>3, <1>6 DEF EmitIn
  <2> QED
    BY <2>1
<1>7. CASE t # <<>>
  <2> DEFINE o == Append(logged, t)
             next2 == [n \in 1 .. L + 1 |-> IF n <= L THEN start[n] ELSE c]
  <2> HIDE DEF C, D, t, L
  <2>1. D = C \cup {c} /\ EmitIn(g, logged, line) = o
    BY <1>3, <1>7 DEF EmitIn, t
  <2>2. Len(o) = L + 1 /\ \A n \in 1 .. L + 1 : o[n] = IF n <= L THEN logged[n] ELSE t
    <3>1. logged \in Seq(Seq(S)) /\ t \in Seq(S) /\ L = Len(logged)
      BY <1>2 DEF L
    <3>2. /\ Len(o) = Len(logged) + 1
          /\ \A n \in 1 .. Len(logged) : o[n] = logged[n]
          /\ o[Len(logged) + 1] = t
      BY <3>1, AppendProperties
    <3> HIDE DEF o
    <3> QED
      BY <1>1, <3>1, <3>2
  <2>3. next2 \in [1 .. L + 1 -> D]
    BY <1>1, <1>4, <2>1
  <2>4. \A n \in 1 .. L : next2[n] = start[n]
    BY <1>1
  <2>5. next2[L + 1] = c
    BY <1>1
  <2> HIDE DEF next2, o
  <2>6. \A i \in D : \E n \in 1 .. L + 1 : next2[n] = i
    <3> TAKE i \in D
    <3>1. CASE i \in C
      <4>1. PICK n \in 1 .. L : start[n] = i
        BY <1>4, <3>1
      <4>2. n \in 1 .. L + 1 /\ next2[n] = i
        BY <1>1, <2>4, <4>1
      <4> QED
        BY <4>2
    <3>2. CASE i = c
      BY <1>1, <2>5, <3>2
    <3> QED
      BY <2>1, <3>1, <3>2
  <2>7. \A n \in 1 .. L + 1 : o[n] = TrimIn(g, PieceIn(g, s, next2[n]))
    <3> TAKE n \in 1 .. L + 1
    <3>1. CASE n <= L
      <4>1. n \in 1 .. L
        BY <1>1, <3>1
      <4> QED
        BY <1>4, <2>2, <2>4, <3>1, <4>1
    <3>2. CASE n = L + 1
      <4>1. ~(n <= L)
        BY <1>1, <3>2
      <4> QED
        BY <2>2, <2>5, <3>2, <4>1 DEF t
    <3> QED
      BY <1>1, <3>1, <3>2
  <2>8. \A n \in 1 .. L + 1 : \A m \in 1 .. n - 1 : next2[m] < next2[n]
    <3> TAKE n \in 1 .. L + 1
    <3> TAKE m \in 1 .. n - 1
    <3>0. m \in 1 .. L
      BY <1>1
    <3>1. CASE n <= L
      <4>1. n \in 1 .. L
        BY <1>1, <3>1
      <4> QED
        BY <1>4, <2>4, <3>0, <4>1
    <3>2. CASE n = L + 1
      <4>1. next2[m] \in 1 .. c - 1
        BY <1>4, <1>5, <2>4, <3>0
      <4> QED
        BY <2>5, <3>2, <4>1
    <3> QED
      BY <1>1, <3>1, <3>2
  <2>9. LinesIn(g, o, s, D)
    <3> DEFINE K == Len(o)
    <3>1. K = L + 1
      BY <2>2
    <3> HIDE DEF K
    <3>2. /\ next2 \in [1 .. K -> D]
          /\ \A i \in D : \E n \in 1 .. K : next2[n] = i
      BY <2>3, <2>6, <3>1
    <3>3. \A n \in 1 .. K : o[n] = TrimIn(g, PieceIn(g, s, next2[n]))
      BY <2>7, <3>1
    <3>4. \A n \in 1 .. K : \A m \in 1 .. n - 1 : next2[m] < next2[n]
      BY <2>8, <3>1
    <3> QED
      BY Zenon, <3>2, <3>3, <3>4 DEF LinesIn, K
  <2> QED
    BY <2>1, <2>9 DEF D
<1> QED
  BY <1>6, <1>7

\* A full piece is cut off, and more of its line is to come.
LEMMA CutFull ==
  ASSUME NEW g, NEW S, NEW s \in Seq(S), NEW logged \in Seq(Seq(S)), NEW c,
         CutUpTo(g, s, c, logged), c + MaxLine - 1 < Len(s),
         \A k \in c .. c + MaxLine - 1 : k \notin NewlinesIn(g, s)
  PROVE  CutUpTo(g, s, c + MaxLine, EmitIn(g, logged, SubSeq(s, c, c + MaxLine - 1)))
<1> DEFINE nl == NewlinesIn(g, s)
           e == c + MaxLine - 1
           line == SubSeq(s, c, e)
           d == c + MaxLine
<1>1. MaxLine \in Nat \ {0} /\ Len(s) \in Nat /\ c \in 1 .. Len(s) + 1
  BY StreamAssumptions, LenProperties DEF CutUpTo
<1>2. c \in 1 .. Len(s) /\ e \in c .. Len(s) /\ d \in c + 1 .. Len(s) + 1
  BY <1>1
<1>3. PieceEnd(nl, Len(s), c) = e
  <2>1. e < c + MaxLine /\ e + 1 = c + MaxLine
    BY <1>1
  <2>2. EndsPiece(nl, Len(s), c, e)
    BY <1>1, <1>2, <2>1 DEF EndsPiece
  <2> QED
    BY <1>1, <1>2, <2>2, PieceEndIs
<1>4. line \in Seq(S) /\ line = PieceIn(g, s, c)
  <2>1. \A i \in c .. e : s[i] \in S
    BY <1>1, <1>2, ElementOfSeq
  <2> QED
    BY <1>1, <1>2, <1>3, <2>1, SubSeqProperties DEF PieceIn
<1>5. Aligned(nl, c) /\ c \notin nl
  BY <1>1, <1>2 DEF CutUpTo
<1>6. PieceStart(nl, c)
  BY <1>5 DEF PieceStart, Aligned
<1>7. \A i \in c + 1 .. d - 1 : ~PieceStart(nl, i)
  <2> TAKE i \in c + 1 .. d - 1
  <2>1. i \in c + 1 .. c + MaxLine - 1 /\ \A j \in c .. i - 1 : j \notin nl
    BY <1>1
  <2>2. ~Aligned(nl, i)
    BY <1>1, <1>5, <2>1, NoneBetween
  <2> QED
    BY <2>2 DEF PieceStart, Aligned
<1> HIDE DEF nl, e, line
<1>8. LinesIn(g, EmitIn(g, logged, line), s, StartsIn(g, s, d))
  BY <1>2, <1>4, <1>6, <1>7, OnePieceMore DEF CutUpTo, nl
<1>9. Aligned(nl, d)
  BY <1>1, <1>5, AlignedAfterPiece DEF nl
<1>10. \A i \in 1 .. d - 1 : PieceStart(nl, i) => PieceEnd(nl, Len(s), i) < Len(s)
  <2> TAKE i \in 1 .. d - 1
  <2>1. CASE i < c
    BY <1>1, <2>1 DEF CutUpTo, nl
  <2>2. CASE i = c
    BY <1>3, <2>2 DEF e
  <2>3. CASE i > c
    BY <1>1, <1>7, <2>3
  <2> QED
    BY <1>1, <2>1, <2>2, <2>3
<1>11. d \in 1 .. Len(s) + 1
  BY <1>1, <1>2
<1> QED
  BY <1>8, <1>9, <1>10, <1>11 DEF CutUpTo, nl, line, e

\* What is left of a line is cut off at its newline.
LEMMA CutAtNewline ==
  ASSUME NEW g, NEW S, NEW s \in Seq(S), NEW logged \in Seq(Seq(S)), NEW c,
         CutUpTo(g, s, c, logged), NEW e \in c - 1 .. c + MaxLine - 1,
         e + 1 \in NewlinesIn(g, s),
         \A k \in c .. e : k \notin NewlinesIn(g, s)
  PROVE  CutUpTo(g, s, e + 2, EmitIn(g, logged, SubSeq(s, c, e)))
<1> DEFINE nl == NewlinesIn(g, s)
           line == SubSeq(s, c, e)
           d == e + 2
<1>1. /\ MaxLine \in Nat \ {0} /\ Len(s) \in Nat /\ c \in 1 .. Len(s) + 1
      /\ DOMAIN s = 1 .. Len(s)
  BY StreamAssumptions, LenProperties DEF CutUpTo
<1>2. e \in Nat /\ e + 1 \in 1 .. Len(s) /\ d \in 1 .. Len(s) + 1 /\ d - 1 = e + 1
  BY <1>1 DEF NewlinesIn
<1>3. Aligned(nl, d)
  BY <1>2, AlignedAfterNewline
<1>4. ~PieceStart(nl, e + 1)
  BY DEF PieceStart
<1>5. ASSUME e < c
      PROVE  /\ LinesIn(g, EmitIn(g, logged, line), s, StartsIn(g, s, d))
             /\ \A i \in 1 .. d - 1 : PieceStart(nl, i) => PieceEnd(nl, Len(s), i) < Len(s)
  <2>1. e = c - 1 /\ d = c + 1
    BY <1>1, <1>2, <1>5
  <2>2. EmitIn(g, logged, line) = logged
    <3>1. line = <<>>
      BY <1>1, <1>2, <1>5, SubSeqEmpty
    <3> QED
      BY <3>1, EmitNothing
  <2>3. \A i : i \in 1 .. d - 1 <=> i \in 1 .. c - 1 \/ i = e + 1
    BY <1>1, <2>1
  <2>4. StartsIn(g, s, d) = StartsIn(g, s, c)
    BY <1>4, <2>3 DEF StartsIn
  <2> QED
    BY <1>4, <2>2, <2>3, <2>4 DEF CutUpTo
<1>6. ASSUME c <= e
      PROVE  /\ LinesIn(g, EmitIn(g, logged, line), s, StartsIn(g, s, d))
             /\ \A i \in 1 .. d - 1 : PieceStart(nl, i) => PieceEnd(nl, Len(s), i) < Len(s)
  <2>1. c \in 1 .. Len(s) /\ e \in c .. Len(s) /\ d \in c + 1 .. Len(s) + 1
    BY <1>1, <1>2, <1>6
  <2>2. PieceEnd(nl, Len(s), c) = e
    <3>1. e < c + MaxLine
      BY <1>1, <1>2
    <3>2. EndsPiece(nl, Len(s), c, e)
      BY <2>1, <3>1 DEF EndsPiece
    <3> QED
      BY <1>1, <2>1, <3>2, PieceEndIs
  <2>3. line \in Seq(S) /\ line = PieceIn(g, s, c)
    <3>1. \A i \in c .. e : s[i] \in S
      BY <1>1, <2>1, ElementOfSeq
    <3> QED
      BY <1>1, <2>1, <2>2, <3>1, SubSeqProperties DEF PieceIn
  <2>4. Aligned(nl, c) /\ c \notin nl
    BY <1>1, <2>1 DEF CutUpTo
  <2>5. PieceStart(nl, c)
    BY <2>4 DEF PieceStart, Aligned
  <2>6. \A i \in c + 1 .. d - 1 : ~PieceStart(nl, i)
    <3> TAKE i \in c + 1 .. d - 1
    <3>1. CASE i = e + 1
      BY <1>4, <3>1
    <3>2. CASE i # e + 1
      <4>1. i \in c + 1 .. c + MaxLine - 1 /\ \A j \in c .. i - 1 : j \notin nl
        BY <1>1, <1>2, <2>1, <3>2
      <4>2. ~Aligned(nl, i)
        BY <1>1, <2>4, <4>1, NoneBetween
      <4> QED
        BY <4>2 DEF PieceStart, Aligned
    <3> QED
      BY <3>1, <3>2
  <2> HIDE DEF nl, line, d
  <2>7. LinesIn(g, EmitIn(g, logged, line), s, StartsIn(g, s, d))
    BY <2>1, <2>3, <2>5, <2>6, OnePieceMore DEF CutUpTo, nl
  <2>8. \A i \in 1 .. d - 1 : PieceStart(nl, i) => PieceEnd(nl, Len(s), i) < Len(s)
    <3> TAKE i \in 1 .. d - 1
    <3>1. CASE i < c
      BY <1>1, <3>1 DEF CutUpTo, nl
    <3>2. CASE i = c
      BY <1>1, <1>2, <2>2, <3>2
    <3>3. CASE i > c
      BY <1>1, <1>2, <2>6, <3>3
    <3> QED
      BY <1>1, <1>2, <3>1, <3>2, <3>3
  <2> QED
    BY <2>7, <2>8
<1> QED
  BY <1>1, <1>2, <1>3, <1>5, <1>6 DEF CutUpTo

\* At the end, what is left is the last piece, or there is none.
LEMMA CutLast ==
  ASSUME NEW g, NEW S, NEW s \in Seq(S), NEW logged \in Seq(Seq(S)), NEW c,
         CutUpTo(g, s, c, logged), Len(s) < c + MaxLine,
         \A k \in c .. Len(s) : k \notin NewlinesIn(g, s)
  PROVE  LinesIn(g, EmitIn(g, logged, SubSeq(s, c, Len(s))), s, StartsIn(g, s, Len(s) + 1))
<1> DEFINE nl == NewlinesIn(g, s)
           e == Len(s)
           line == SubSeq(s, c, e)
           d == Len(s) + 1
<1>1. MaxLine \in Nat \ {0} /\ e \in Nat /\ c \in 1 .. e + 1
  BY StreamAssumptions, LenProperties DEF CutUpTo
<1>2. CASE c = d
  <2>1. EmitIn(g, logged, line) = logged
    <3>1. line = <<>>
      BY <1>1, <1>2, SubSeqEmpty
    <3> QED
      BY <3>1, EmitNothing
  <2> QED
    BY <1>2, <2>1 DEF CutUpTo
<1>3. CASE c # d
  <2>1. c \in 1 .. Len(s) /\ e \in c .. Len(s) /\ d \in c + 1 .. Len(s) + 1
    BY <1>1, <1>3
  <2>2. PieceEnd(nl, Len(s), c) = e
    <3>1. EndsPiece(nl, Len(s), c, e)
      BY <2>1 DEF EndsPiece
    <3> QED
      BY <1>1, <2>1, <3>1, PieceEndIs
  <2>3. line \in Seq(S) /\ line = PieceIn(g, s, c)
    <3>1. \A i \in c .. e : s[i] \in S
      BY <1>1, <2>1, ElementOfSeq
    <3> QED
      BY <1>1, <2>1, <2>2, <3>1, SubSeqProperties DEF PieceIn
  <2>4. Aligned(nl, c) /\ c \notin nl
    BY <1>1, <2>1 DEF CutUpTo
  <2>5. PieceStart(nl, c)
    BY <2>4 DEF PieceStart, Aligned
  <2>6. \A i \in c + 1 .. d - 1 : ~PieceStart(nl, i)
    <3> TAKE i \in c + 1 .. d - 1
    <3>1. i \in c + 1 .. c + MaxLine - 1 /\ \A j \in c .. i - 1 : j \notin nl
      BY <1>1, <2>1
    <3>2. ~Aligned(nl, i)
      BY <1>1, <2>4, <3>1, NoneBetween
    <3> QED
      BY <3>2 DEF PieceStart, Aligned
  <2> HIDE DEF nl, line, d
  <2> QED
    BY <2>1, <2>3, <2>5, <2>6, OnePieceMore DEF CutUpTo, nl, line, d
<1> QED
  BY <1>2, <1>3

-----------------------------------------------------------------------------
LEMMA PieceInType ==
  ASSUME NEW g, NEW S, NEW s \in Seq(S), NEW i \in 1 .. Len(s), i \notin NewlinesIn(g, s)
  PROVE  PieceIn(g, s, i) \in Seq(S)
<1> DEFINE e == PieceEnd(NewlinesIn(g, s), Len(s), i)
<1>1. Len(s) \in Nat
  BY LenProperties
<1>2. EndsPiece(NewlinesIn(g, s), Len(s), i, e)
  BY <1>1, PieceEndFacts
<1> HIDE DEF e
<1>3. e \in i .. Len(s)
  BY <1>2 DEF EndsPiece
<1>4. \A k \in i .. e : s[k] \in S
  BY <1>1, <1>3, ElementOfSeq
<1>5. SubSeq(s, i, e) \in Seq(S)
  BY <1>1, <1>3, <1>4, SubSeqProperties
<1> QED
  BY <1>5 DEF PieceIn, e

\* A piece that ends before the end goes on ending there.
LEMMA ClosedStays ==
  ASSUME NEW nl, NEW ml, NEW len \in Nat, NEW more \in Nat, len <= more,
         \A k \in 1 .. len : k \in nl <=> k \in ml,
         NEW i \in 1 .. len, NEW e, EndsPiece(nl, len, i, e), e < len
  PROVE  EndsPiece(ml, more, i, e) /\ i \in 1 .. more
<1>1. /\ e \in i .. len /\ e < i + MaxLine /\ \A k \in i .. e : k \notin nl
      /\ e + 1 = i + MaxLine \/ e + 1 \in nl
  BY DEF EndsPiece
<1>2. \A k \in i .. e : k \notin ml
  BY <1>1
<1>3. e + 1 \in 1 .. len /\ e \in i .. more
  BY <1>1
<1> QED
  BY <1>1, <1>2, <1>3 DEF EndsPiece

\* Bytes that come later change nothing of the pieces that were closed.
LEMMA CutExtends ==
  ASSUME NEW g, NEW S, NEW s \in Seq(S), NEW q \in Seq(S), Len(s) <= Len(q),
         \A i \in 1 .. Len(s) : q[i] = s[i],
         NEW logged, NEW c, CutUpTo(g, s, c, logged)
  PROVE  CutUpTo(g, q, c, logged)
<1> DEFINE nl == NewlinesIn(g, s)
           ml == NewlinesIn(g, q)
<1>1. /\ Len(s) \in Nat /\ Len(q) \in Nat /\ c \in 1 .. Len(s) + 1 /\ MaxLine \in Nat \ {0}
      /\ DOMAIN s = 1 .. Len(s) /\ DOMAIN q = 1 .. Len(q)
  BY StreamAssumptions, LenProperties DEF CutUpTo
<1>2. \A i \in 1 .. Len(s) : i \in nl <=> i \in ml
  BY <1>1 DEF NewlinesIn
<1> HIDE DEF nl, ml
<1>3. \A i \in 1 .. c : LineStart(nl, i) = LineStart(ml, i)
  <2> TAKE i \in 1 .. c
  <2>1. i \in Nat \ {0} /\ \A j \in 1 .. i - 1 : j \in nl <=> j \in ml
    BY <1>1, <1>2
  <2> QED
    BY <2>1, LineStartAgrees
<1>4. c \in 1 .. c
  BY <1>1
<1>5. Aligned(ml, c)
  BY <1>3, <1>4 DEF CutUpTo, Aligned, nl
<1>6. \A i \in 1 .. c - 1 : i \in 1 .. c /\ i \in 1 .. Len(s)
  BY <1>1
<1>7. \A i \in 1 .. c - 1 : PieceStart(ml, i) <=> PieceStart(nl, i)
  BY <1>2, <1>3, <1>6 DEF PieceStart
<1>8. ASSUME NEW i \in 1 .. c - 1, PieceStart(nl, i)
      PROVE  PieceEnd(ml, Len(q), i) = PieceEnd(nl, Len(s), i) /\ PieceEnd(nl, Len(s), i) < Len(s)
  <2> DEFINE e == PieceEnd(nl, Len(s), i)
  <2>1. e < Len(s)
    BY <1>8 DEF CutUpTo, nl
  <2>2. EndsPiece(nl, Len(s), i, e)
    BY <1>1, <1>6, <1>8, PieceEndFacts DEF PieceStart
  <2> HIDE DEF e
  <2>3. i \in 1 .. Len(s)
    BY <1>6
  <2>4. EndsPiece(ml, Len(q), i, e) /\ i \in 1 .. Len(q)
    BY <1>1, <1>2, <2>1, <2>2, <2>3, ClosedStays
  <2>5. PieceEnd(ml, Len(q), i) = e
    BY <1>1, <2>4, PieceEndIs
  <2> QED
    BY <2>1, <2>5 DEF e
<1>9. ASSUME NEW i \in 1 .. c - 1, PieceStart(nl, i)
      PROVE  PieceIn(g, q, i) = PieceIn(g, s, i)
  <2> DEFINE e == PieceEnd(nl, Len(s), i)
  <2>1. e < Len(s) /\ PieceEnd(ml, Len(q), i) = e
    BY <1>8, <1>9
  <2>2. EndsPiece(nl, Len(s), i, e)
    BY <1>1, <1>6, <1>9, PieceEndFacts DEF PieceStart
  <2> HIDE DEF e
  <2>3. e \in i .. Len(s)
    BY <2>2 DEF EndsPiece
  <2>4. \A k \in i .. e : q[k] = s[k] /\ s[k] \in S
    <3> TAKE k \in i .. e
    <3>1. k \in 1 .. Len(s)
      BY <1>1, <2>3
    <3> QED
      BY <3>1, ElementOfSeq
  <2> DEFINE x == SubSeq(s, i, e)
             y == SubSeq(q, i, e)
  <2>5. /\ x \in Seq(S) /\ y \in Seq(S) /\ Len(x) = Len(y) /\ Len(x) = e - i + 1
        /\ \A k \in 1 .. e - i + 1 : x[k] = s[i + k - 1] /\ y[k] = q[i + k - 1]
    <3>1. i \in Int /\ e \in Int /\ i <= e /\ \A k \in i .. e : q[k] \in S /\ s[k] \in S
      BY <2>3, <2>4
    <3>2. /\ x \in Seq(S) /\ Len(x) = e - i + 1
          /\ \A k \in 1 .. e - i + 1 : x[k] = s[i + k - 1]
      BY <3>1, SubSeqProperties
    <3>3. /\ y \in Seq(S) /\ Len(y) = e - i + 1
          /\ \A k \in 1 .. e - i + 1 : y[k] = q[i + k - 1]
      BY <3>1, SubSeqProperties
    <3> QED
      BY <3>2, <3>3
  <2> HIDE DEF x, y
  <2>6. \A k \in 1 .. Len(x) : x[k] = y[k]
    <3> TAKE k \in 1 .. Len(x)
    <3>1. i + k - 1 \in i .. e
      BY <2>3, <2>5
    <3> QED
      BY <2>4, <2>5, <3>1
  <2>7. x = y
    BY <2>5, <2>6, SeqEqual
  <2> QED
    BY <2>1, <2>7 DEF PieceIn, x, y, e, nl, ml
<1>10. StartsIn(g, q, c) = StartsIn(g, s, c)
  BY <1>7, <1>9 DEF StartsIn, nl, ml
<1>11. \A i \in StartsIn(g, s, c) : PieceIn(g, q, i) = PieceIn(g, s, i)
  BY <1>9 DEF StartsIn, nl
<1>12. LinesIn(g, logged, q, StartsIn(g, q, c))
  <2> DEFINE C == StartsIn(g, s, c)
  <2> HIDE DEF C
  <2>1. PICK start \in [1 .. Len(logged) -> C] :
          /\ \A i \in C : \E n \in 1 .. Len(logged) : start[n] = i
          /\ \A n \in 1 .. Len(logged) :
              /\ logged[n] = TrimIn(g, PieceIn(g, s, start[n]))
              /\ \A m \in 1 .. n - 1 : start[m] < start[n]
    BY DEF CutUpTo, LinesIn, C
  <2>2. \A n \in 1 .. Len(logged) : logged[n] = TrimIn(g, PieceIn(g, q, start[n]))
    <3> TAKE n \in 1 .. Len(logged)
    <3>1. start[n] \in C
      BY <2>1
    <3>2. PieceIn(g, q, start[n]) = PieceIn(g, s, start[n])
      BY <1>11, <3>1 DEF C
    <3> QED
      BY <2>1, <3>2
  <2>3. LinesIn(g, logged, q, C)
    BY Zenon, <2>1, <2>2 DEF LinesIn
  <2> QED
    BY <1>10, <2>3 DEF C
<1>13. c \in 1 .. Len(q) + 1
  BY <1>1
<1>14. \A i \in 1 .. c - 1 : PieceStart(ml, i) => PieceEnd(ml, Len(q), i) < Len(q)
  <2> SUFFICES ASSUME NEW i \in 1 .. c - 1, PieceStart(nl, i)
               PROVE  PieceEnd(ml, Len(q), i) < Len(q)
    BY <1>7
  <2>1. PieceEnd(ml, Len(q), i) = PieceEnd(nl, Len(s), i) /\ PieceEnd(nl, Len(s), i) < Len(s)
    BY <1>8
  <2>2. PieceEnd(nl, Len(s), i) \in Nat
    BY <1>1, <1>6, PieceEndFacts DEF PieceStart, EndsPiece
  <2> QED
    BY <1>1, <2>1, <2>2
<1> QED
  BY <1>5, <1>12, <1>13, <1>14 DEF CutUpTo, ml

\* A log that grows says the same of the bytes it had.
LEMMA LinesGrow ==
  ASSUME NEW g, NEW h, NEW S, \A p \in S : g[p] = h[p],
         NEW s \in Seq(S), NEW logged, NEW c, c - 1 <= Len(s), c \in Int
  PROVE  /\ NewlinesIn(h, s) = NewlinesIn(g, s)
         /\ LinesIn(g, logged, s, StartsIn(g, s, c)) => LinesIn(h, logged, s, StartsIn(h, s, c))
<1> DEFINE nl == NewlinesIn(g, s)
<1>1. Len(s) \in Nat /\ DOMAIN s = 1 .. Len(s) /\ \A i \in 1 .. Len(s) : s[i] \in S
  BY LenProperties, ElementOfSeq
<1>2. NewlinesIn(h, s) = nl
  BY <1>1 DEF NewlinesIn
<1>3. \A i : PieceIn(h, s, i) = PieceIn(g, s, i)
  BY <1>2 DEF PieceIn
<1>4. ASSUME NEW line \in Seq(S) PROVE TrimIn(h, line) = TrimIn(g, line)
  <2>1. \A i \in 1 .. Len(line) : line[i] \in S
    BY ElementOfSeq
  <2>2. {i \in 1 .. Len(line) : ~(h[line[i]].kind = "cr")}
            = {i \in 1 .. Len(line) : ~(g[line[i]].kind = "cr")}
    BY <2>1
  <2>3. LastKept(h, line) = LastKept(g, line)
    BY <2>2 DEF LastKept
  <2> QED
    BY <2>3 DEF TrimIn
<1>5. ASSUME NEW i \in 1 .. c - 1, PieceStart(nl, i)
      PROVE  TrimIn(h, PieceIn(h, s, i)) = TrimIn(g, PieceIn(g, s, i))
  <2>1. i \in 1 .. Len(s) /\ i \notin nl
    BY <1>1, <1>5 DEF PieceStart
  <2>2. PieceIn(g, s, i) \in Seq(S)
    BY <2>1, PieceInType
  <2> QED
    BY <1>3, <1>4, <2>2
<1>6. StartsIn(h, s, c) = StartsIn(g, s, c)
  BY <1>2, <1>5 DEF StartsIn
<1>7. ASSUME LinesIn(g, logged, s, StartsIn(g, s, c))
      PROVE  LinesIn(h, logged, s, StartsIn(h, s, c))
  <2> DEFINE C == StartsIn(g, s, c)
  <2> HIDE DEF C
  <2>1. PICK start \in [1 .. Len(logged) -> C] :
          /\ \A i \in C : \E n \in 1 .. Len(logged) : start[n] = i
          /\ \A n \in 1 .. Len(logged) :
              /\ logged[n] = TrimIn(g, PieceIn(g, s, start[n]))
              /\ \A m \in 1 .. n - 1 : start[m] < start[n]
    BY <1>7 DEF LinesIn, C
  <2>2. \A n \in 1 .. Len(logged) : logged[n] = TrimIn(h, PieceIn(h, s, start[n]))
    <3> TAKE n \in 1 .. Len(logged)
    <3>1. start[n] \in C
      BY <2>1
    <3>2. start[n] \in 1 .. c - 1 /\ PieceStart(nl, start[n])
      BY <3>1 DEF C, StartsIn
    <3>3. TrimIn(h, PieceIn(h, s, start[n])) = TrimIn(g, PieceIn(g, s, start[n]))
      BY <1>5, <3>2
    <3> QED
      BY <2>1, <3>3
  <2>3. LinesIn(h, logged, s, C)
    BY Zenon, <2>1, <2>2 DEF LinesIn
  <2> QED
    BY <1>6, <2>3 DEF C
<1> QED
  BY <1>2, <1>7

LEMMA CutGrows ==
  ASSUME NEW g, NEW h, NEW S, \A p \in S : g[p] = h[p],
         NEW s \in Seq(S), NEW logged, NEW c, CutUpTo(g, s, c, logged)
  PROVE  CutUpTo(h, s, c, logged)
<1>1. Len(s) \in Nat /\ c \in 1 .. Len(s) + 1
  BY LenProperties DEF CutUpTo
<1>2. c - 1 <= Len(s) /\ c \in Int
  BY <1>1
<1>3. /\ NewlinesIn(h, s) = NewlinesIn(g, s)
      /\ LinesIn(h, logged, s, StartsIn(h, s, c))
  BY <1>2, LinesGrow DEF CutUpTo
<1> QED
  BY <1>1, <1>3 DEF CutUpTo

\* Of the pieces that are closed none starts at c or later.
LEMMA ClosedPieces ==
  ASSUME NEW g, NEW S, NEW s \in Seq(S), NEW logged, NEW c,
         CutUpTo(g, s, c, logged), Len(s) < c + MaxLine,
         \A k \in c .. Len(s) : k \notin NewlinesIn(g, s),
         NEW i \in 1 .. Len(s), PieceStart(NewlinesIn(g, s), i)
  PROVE  PieceEnd(NewlinesIn(g, s), Len(s), i) < Len(s) <=> i < c
<1> DEFINE nl == NewlinesIn(g, s)
<1>1. MaxLine \in Nat \ {0} /\ Len(s) \in Nat /\ c \in 1 .. Len(s) + 1
  BY StreamAssumptions, LenProperties DEF CutUpTo
<1>2. i < c => PieceEnd(nl, Len(s), i) < Len(s)
  BY <1>1 DEF CutUpTo
<1>3. i > c => FALSE
  <2> SUFFICES ASSUME i > c PROVE FALSE
    OBVIOUS
  <2>1. i \in c + 1 .. c + MaxLine - 1 /\ \A j \in c .. i - 1 : j \notin nl
    BY <1>1
  <2>2. ~Aligned(nl, i)
    BY <1>1, <2>1, NoneBetween DEF CutUpTo
  <2> QED
    BY <2>2 DEF PieceStart, Aligned
<1>4. i = c => PieceEnd(nl, Len(s), i) = Len(s)
  <2> SUFFICES ASSUME i = c PROVE PieceEnd(nl, Len(s), i) = Len(s)
    OBVIOUS
  <2>1. EndsPiece(nl, Len(s), i, Len(s))
    BY <1>1 DEF EndsPiece
  <2> QED
    BY <1>1, <2>1, PieceEndIs
<1> QED
  BY <1>1, <1>2, <1>3, <1>4

-----------------------------------------------------------------------------
\* The lines logged are those of the reference.

\* The first byte w's writer was given that is not in a line logged.
Uncut(w) == Len(received[w]) - Unread(w) - Len(buf[w]) + 1

\* What is logged is what was given, up to there; and at the end, all of it.
CutInv ==
    \A w \in Streams :
        IF loop = "exited"
        THEN LinesIn(log, out[w], received[w], StartsIn(log, received[w], Len(received[w]) + 1))
        ELSE CutUpTo(log, received[w], Uncut(w), out[w])

LEMMA EmitIsEmitIn ==
  ASSUME NEW logged, NEW line
  PROVE  Emit(logged, line) = EmitIn(log, logged, line) /\ TrimRight(line) = TrimIn(log, line)
BY DEF Emit, TrimRight, IsCR, EmitIn, TrimIn, LastKept

\* The buffer holds the bytes from Uncut on, which have no newline.
LEMMA BufIsUncut ==
  ASSUME TypeOK, WholeInv, loop # "writing", NEW w \in Streams
  PROVE  LET s == received[w] IN
         /\ buf[w] = SubSeq(s, Uncut(w), Len(s))
         /\ Uncut(w) \in 1 .. Len(s) + 1
         /\ Len(s) < Uncut(w) + MaxLine
         /\ \A k \in Uncut(w) .. Len(s) : k \notin NewlinesIn(log, s)
<1> DEFINE s == received[w]
           b == buf[w]
           c == Uncut(w)
           x == SubSeq(s, c, Len(s))
<1>1. /\ s \in Seq(Positions) /\ Len(s) \in Nat /\ DOMAIN s = 1 .. Len(s)
      /\ \A i \in 1 .. Len(s) : s[i] \in Positions
      /\ b \in Seq(Positions) /\ Len(b) \in Nat /\ Len(b) <= MaxLine /\ MaxLine \in Nat \ {0}
  BY LinesFacts, ReceivedType, StreamAssumptions
<1>2. Unread(w) = 0
  BY DEF Unread
<1>3. /\ Len(b) + 0 <= Len(s)
      /\ \A i \in 1 .. Len(b) : ~IsNL(b[i]) /\ b[i] = s[Len(s) - 0 - Len(b) + i]
  BY <1>2 DEF WholeInv, BufBeforeRest
<1>4. c = Len(s) - 0 - Len(b) + 1
  BY <1>2 DEF Uncut
<1> HIDE DEF s, b, c
<1>5. c \in 1 .. Len(s) + 1 /\ Len(s) < c + MaxLine /\ Len(s) - c + 1 = Len(b)
  BY <1>1, <1>3, <1>4
<1>6. \A i \in 1 .. Len(b) : ~IsNL(b[i]) /\ b[i] = s[c + i - 1]
  <2> TAKE i \in 1 .. Len(b)
  <2>1. Len(s) - 0 - Len(b) + i = c + i - 1
    BY <1>1, <1>4
  <2> QED
    BY <1>3, <2>1
<1>7. ASSUME NEW k \in c .. Len(s) PROVE k \notin NewlinesIn(log, s)
  <2>1. k - c + 1 \in 1 .. Len(b) /\ c + (k - c + 1) - 1 = k
    BY <1>1, <1>5
  <2>2. ~IsNL(s[k])
    BY <1>6, <2>1
  <2> QED
    BY <2>2 DEF NewlinesIn, IsNL
<1>8. b = x
  <2>1. \A i \in c .. Len(s) : s[i] \in Positions
    BY <1>1, <1>5
  <2>2. /\ x \in Seq(Positions)
        /\ Len(x) = IF c <= Len(s) THEN Len(s) - c + 1 ELSE 0
        /\ \A i \in 1 .. Len(s) - c + 1 : x[i] = s[c + i - 1]
    BY <1>1, <1>5, <2>1, SubSeqProperties
  <2> HIDE DEF x
  <2>3. Len(x) = Len(b)
    BY <1>1, <1>5, <2>2
  <2>4. \A i \in 1 .. Len(b) : b[i] = x[i]
    BY <1>5, <1>6, <2>2
  <2> QED
    BY <1>1, <2>2, <2>3, <2>4, SeqEqual
<1> QED
  BY <1>5, <1>7, <1>8 DEF s, b, c

\* The line that is made next is cut from the bytes the writer was given.
LEMMA NextLineIsCut ==
  ASSUME TypeOK, WholeInv, loop = "writing", NEW n \in 0 .. Len(rest),
         Len(buf[writer]) + n <= MaxLine, \A j \in 1 .. n : ~IsNL(rest[j])
  PROVE  LET s == received[writer]
             c == Uncut(writer)
             e == c + Len(buf[writer]) + n - 1
         IN  /\ c = Len(s) - Len(rest) - Len(buf[writer]) + 1
             /\ c \in 1 .. Len(s) + 1
             /\ e \in c - 1 .. Len(s) /\ e - c + 1 <= MaxLine
             /\ NextLine(n) = SubSeq(s, c, e)
             /\ \A k \in c .. e : k \notin NewlinesIn(log, s)
             /\ n < Len(rest) => e + 1 \in 1 .. Len(s) /\ s[e + 1] = rest[n + 1]
<1> DEFINE s == received[writer]
           b == buf[writer]
           c == Uncut(writer)
           e == c + Len(b) + n - 1
           l == NextLine(n)
           x == SubSeq(s, c, e)
<1>0. writer \in Streams
  BY TypeSplit DEF LinesType
<1>1. /\ s \in Seq(Positions) /\ Len(s) \in Nat /\ DOMAIN s = 1 .. Len(s)
      /\ \A i \in 1 .. Len(s) : s[i] \in Positions
      /\ Len(b) \in Nat /\ Len(rest) \in Nat /\ MaxLine \in Nat \ {0} /\ n \in Nat
  BY <1>0, LinesFacts, ReceivedType, StreamAssumptions
<1>2. Unread(writer) = Len(rest)
  BY DEF Unread
<1>3. c = Len(s) - Len(rest) - Len(b) + 1
  BY <1>2 DEF Uncut
<1>4. /\ Len(b) + Len(rest) <= Len(s)
      /\ \A i \in 1 .. Len(b) : ~IsNL(b[i]) /\ b[i] = s[Len(s) - Len(rest) - Len(b) + i]
  BY <1>0, <1>2 DEF WholeInv, BufBeforeRest
<1>5. \A i \in 1 .. Len(rest) : rest[i] = s[Len(s) - Len(rest) + i]
  BY DEF WholeInv, RestAtEnd, EndsWith
<1>6. /\ l \in Seq(Positions)
      /\ Len(l) = Len(b) + n
      /\ \A i \in 1 .. Len(b) : l[i] = b[i]
      /\ \A i \in 1 .. n : l[Len(b) + i] = rest[i]
  BY NextLineType
<1>7. Len(b) + n <= MaxLine
  OBVIOUS
<1> HIDE DEF s, b, c, l
<1>8. /\ c \in 1 .. Len(s) + 1 /\ e \in c - 1 .. Len(s) /\ e - c + 1 <= MaxLine
      /\ e - c + 1 = Len(l)
  <2>1. Len(s) \in Nat /\ Len(b) \in Nat /\ Len(rest) \in Nat /\ n \in Nat /\ MaxLine \in Nat
    BY <1>1
  <2>2. Len(b) + Len(rest) <= Len(s) /\ n <= Len(rest)
    BY <1>4
  <2>3. c \in 1 .. Len(s) + 1
    BY <1>3, <2>1, <2>2
  <2>4. e - c + 1 = Len(b) + n
    BY <2>1, <2>3
  <2>5. e \in c - 1 .. Len(s)
    BY <1>3, <2>1, <2>2
  <2> QED
    BY <1>6, <1>7, <2>3, <2>4, <2>5
<1>9. \A i \in 1 .. Len(l) : ~IsNL(l[i]) /\ l[i] = s[c + i - 1]
  <2> TAKE i \in 1 .. Len(l)
  <2>1. CASE i <= Len(b)
    <3>1. i \in 1 .. Len(b) /\ Len(s) - Len(rest) - Len(b) + i = c + i - 1
      BY <1>1, <1>3, <1>6, <2>1
    <3> QED
      BY <1>4, <1>6, <3>1
  <2>2. CASE i > Len(b)
    <3> DEFINE j == i - Len(b)
    <3>1. /\ j \in 1 .. n /\ j \in 1 .. Len(rest) /\ i = Len(b) + j
          /\ Len(s) - Len(rest) + j = c + i - 1
      BY <1>1, <1>3, <1>6, <2>2
    <3> HIDE DEF j
    <3>2. l[i] = rest[j] /\ rest[j] = s[c + i - 1]
      BY <1>5, <1>6, <3>1
    <3> QED
      BY <3>1, <3>2
  <2> QED
    BY <1>1, <1>6, <2>1, <2>2
<1>10. ASSUME NEW k \in c .. e PROVE k \notin NewlinesIn(log, s)
  <2>1. k - c + 1 \in 1 .. Len(l) /\ c + (k - c + 1) - 1 = k
    BY <1>1, <1>8
  <2>2. ~IsNL(s[k])
    BY <1>9, <2>1
  <2> QED
    BY <2>2 DEF NewlinesIn, IsNL
<1>11. ASSUME n < Len(rest) PROVE e + 1 \in 1 .. Len(s) /\ s[e + 1] = rest[n + 1]
  <2>1. e + 1 \in 1 .. Len(s) /\ n + 1 \in 1 .. Len(rest) /\ Len(s) - Len(rest) + (n + 1) = e + 1
    BY <1>1, <1>3, <1>4, <1>11
  <2> HIDE DEF e
  <2> QED
    BY <1>5, <2>1
<1> HIDE DEF e
<1>12. l = x
  <2>1. c \in Int /\ e \in Int /\ \A i \in c .. e : s[i] \in Positions
    BY <1>1, <1>8
  <2>2. /\ x \in Seq(Positions)
        /\ Len(x) = IF c <= e THEN e - c + 1 ELSE 0
        /\ \A i \in 1 .. e - c + 1 : x[i] = s[c + i - 1]
    BY <2>1, SubSeqProperties
  <2> HIDE DEF x
  <2>3. Len(x) = Len(l)
    BY <1>8, <2>1, <2>2
  <2>4. \A i \in 1 .. Len(l) : l[i] = x[i]
    BY <1>8, <1>9, <2>2
  <2> QED
    BY <1>6, <2>2, <2>3, <2>4, SeqEqual
<1> QED
  BY <1>3, <1>8, <1>10, <1>11, <1>12 DEF s, b, c, l, e

LEMMA WriteCut ==
  ASSUME TypeOK, WholeInv, CutInv, WriteStep
  PROVE  CutInv'
<1> DEFINE s == received[writer]
           b == buf[writer]
           c == Uncut(writer)
           o == out[writer]
<1>1. /\ log' = log /\ writer' = writer /\ received' = received
      /\ loop = "writing" /\ loop' # "exited"
  BY WriteTurn DEF WriteStep, env, FillsLine, EndsLine, KeepsLine
<1>2. /\ writer \in Streams /\ s \in Seq(Positions) /\ Len(s) \in Nat
      /\ o \in Seq(Seq(Positions))
      /\ rest \in Seq(Positions) /\ Len(rest) \in Nat /\ Len(b) \in Nat /\ MaxLine \in Nat \ {0}
      /\ out \in [Streams -> Seq(Seq(Positions))] /\ buf \in [Streams -> Seq(Positions)]
  BY LinesFacts, ReceivedType, StreamAssumptions, TypeSplit DEF LinesType
<1>3. CutUpTo(log, s, c, o)
  BY <1>1, <1>2 DEF CutInv
<1>4. ASSUME NEW v \in Streams \ {writer}, buf'[v] = buf[v], out'[v] = out[v]
      PROVE  CutUpTo(log, received[v], Uncut(v), out[v])'
  <2>1. Unread(v) = 0 /\ Unread(v)' = 0
    BY <1>1 DEF Unread
  <2>2. Uncut(v)' = Uncut(v)
    BY <1>1, <1>4, <2>1 DEF Uncut
  <2>3. CutUpTo(log, received[v], Uncut(v), out[v])
    BY <1>1 DEF CutInv
  <2> QED
    BY <1>1, <1>4, <2>2, <2>3
<1>5. PICK n \in 0 .. Len(rest) :
        /\ \A j \in 1 .. n : ~IsNL(rest[j])
        /\ FillsLine(n) \/ EndsLine(n) \/ KeepsLine(n)
  BY WriteTurn
<1> DEFINE e == c + Len(b) + n - 1
<1>6. /\ c = Len(s) - Len(rest) - Len(b) + 1
      /\ c \in 1 .. Len(s) + 1
      /\ e \in c - 1 .. Len(s) /\ e - c + 1 <= MaxLine
      /\ NextLine(n) = SubSeq(s, c, e)
      /\ \A k \in c .. e : k \notin NewlinesIn(log, s)
      /\ n < Len(rest) => e + 1 \in 1 .. Len(s) /\ s[e + 1] = rest[n + 1]
  <2>1. Len(b) + n <= MaxLine
    BY <1>2, <1>5 DEF FillsLine, EndsLine, KeepsLine
  <2> QED
    BY <1>1, <1>5, <2>1, NextLineIsCut
<1>7. ASSUME out' = [out EXCEPT ![writer] = Emit(@, NextLine(n))],
             buf' = [buf EXCEPT ![writer] = <<>>], loop' = loop,
             NEW m \in 1 .. Len(rest) + 1, rest' = SubSeq(rest, m, Len(rest)),
             CutUpTo(log, s, c + Len(b) + m - 1, EmitIn(log, o, SubSeq(s, c, e)))
      PROVE  CutInv'
  <2>1. out'[writer] = EmitIn(log, o, SubSeq(s, c, e)) /\ buf'[writer] = <<>>
    BY <1>2, <1>6, <1>7, EmitIsEmitIn
  <2>2. Len(rest') = Len(rest) - m + 1
    <3>1. m \in Nat \ {0} /\ Len(rest) \in 0 .. Len(rest)
      BY <1>2
    <3>2. Len(rest') = IF m <= Len(rest) THEN Len(rest) - m + 1 ELSE 0
      BY <1>7, <3>1, PartOfRest
    <3> QED
      BY <1>2, <3>1, <3>2
  <2>3. Uncut(writer)' = c + Len(b) + m - 1
    <3>1. Unread(writer)' = Len(rest')
      BY <1>1, <1>7 DEF Unread
    <3>2. Uncut(writer)' = Len(s) - Len(rest') - 0 + 1
      BY <1>1, <2>1, <3>1, EmptySeq DEF Uncut
    <3> HIDE DEF s, b, c
    <3> QED
      BY <1>2, <1>6, <2>2, <3>2
  <2>4. CutUpTo(log, received[writer], Uncut(writer), out[writer])'
    BY <1>1, <1>7, <2>1, <2>3
  <2>5. \A v \in Streams \ {writer} : buf'[v] = buf[v] /\ out'[v] = out[v]
    BY <1>2, <1>7
  <2> QED
    BY <1>1, <1>4, <2>4, <2>5 DEF CutInv
<1>8. CASE FillsLine(n)
  <2>1. Len(b) + n = MaxLine /\ n < Len(rest)
    BY <1>8 DEF FillsLine
  <2> HIDE DEF s, b, c, o
  <2>2. /\ e = c + MaxLine - 1 /\ c + Len(b) + (n + 1) - 1 = c + MaxLine
        /\ n + 1 \in 1 .. Len(rest) + 1
    <3>1. c \in Int /\ Len(b) \in Int /\ Len(rest) \in Nat /\ MaxLine \in Int
      BY <1>2, <1>6
    <3> QED
      BY <2>1, <3>1
  <2>3. c + MaxLine - 1 < Len(s)
    BY <1>2, <1>6, <2>1, <2>2
  <2> HIDE DEF e
  <2>4. CutUpTo(log, s, c + MaxLine, EmitIn(log, o, SubSeq(s, c, e)))
    BY <1>2, <1>3, <1>6, <2>2, <2>3, CutFull
  <2> QED
    BY <1>7, <1>8, <2>2, <2>4 DEF FillsLine, s, b, c, o, e
<1>9. CASE EndsLine(n)
  <2>1. n < Len(rest) /\ IsNL(rest[n + 1])
    BY <1>9 DEF EndsLine
  <2>2. DOMAIN s = 1 .. Len(s)
    BY <1>2, LenProperties
  <2> HIDE DEF s, b, c, o
  <2>3. e + 1 \in NewlinesIn(log, s)
    BY <1>6, <2>1, <2>2 DEF NewlinesIn, IsNL
  <2>4. /\ c + Len(b) + (n + 2) - 1 = e + 2 /\ n + 2 \in 1 .. Len(rest) + 1
        /\ e \in c - 1 .. c + MaxLine - 1
    <3>1. c \in Int /\ Len(b) \in Int /\ Len(rest) \in Nat /\ MaxLine \in Int /\ n \in Nat
      BY <1>2, <1>6
    <3>2. e >= c - 1 /\ e - c + 1 <= MaxLine
      BY <1>2, <1>6
    <3> QED
      BY <2>1, <3>1, <3>2
  <2> HIDE DEF e
  <2>5. CutUpTo(log, s, e + 2, EmitIn(log, o, SubSeq(s, c, e)))
    BY <1>2, <1>3, <1>6, <2>3, <2>4, CutAtNewline
  <2> QED
    BY <1>7, <1>9, <2>4, <2>5 DEF EndsLine, s, b, c, o, e
<1>10. CASE KeepsLine(n)
  <2>1. /\ n = Len(rest) /\ buf'[writer] = NextLine(n) /\ out' = out /\ loop' = "reading"
        /\ \A v \in Streams \ {writer} : buf'[v] = buf[v]
    BY <1>2, <1>10 DEF KeepsLine
  <2>2. Uncut(writer)' = c
    <3>1. Unread(writer)' = 0
      BY <2>1 DEF Unread
    <3>2. Len(NextLine(n)) = Len(b) + n
      BY NextLineType
    <3>3. Uncut(writer)' = Len(s) - 0 - Len(NextLine(n)) + 1
      BY <1>1, <2>1, <3>1 DEF Uncut
    <3> HIDE DEF s, b, c
    <3> QED
      BY <1>2, <1>6, <2>1, <3>2, <3>3
  <2>3. CutUpTo(log, received[writer], Uncut(writer), out[writer])'
    BY <1>1, <1>3, <2>1, <2>2
  <2> QED
    BY <1>1, <1>4, <2>1, <2>3 DEF CutInv
<1> QED
  BY <1>5, <1>8, <1>9, <1>10

LEMMA FrameCut ==
  ASSUME TypeOK, CutInv, NEW w \in Streams, NEW n \in 1 .. MaxLog, Frame(w, n)
  PROVE  CutInv'
<1> DEFINE frame == [i \in 1 .. n |-> next + i - 1]
<1>1. /\ log' = log /\ loop = "reading" /\ loop' = "writing" /\ writer' = w
      /\ rest' = frame /\ buf' = buf /\ out' = out
  BY DEF Frame, env
<1>2. n \in Nat \ {0} /\ Len(frame) = n
  BY FrameType
<1> HIDE DEF frame
<1>3. /\ received'[w] \in Seq(Positions)
      /\ Len(received'[w]) = Len(received[w]) + n
      /\ \A i \in 1 .. Len(received[w]) : received'[w][i] = received[w][i]
      /\ \A v \in Streams \ {w} : received'[v] = received[v]
  BY FrameReceived
<1>4. ASSUME NEW v \in Streams PROVE CutUpTo(log, received[v], Uncut(v), out[v])'
  <2>1. /\ received[v] \in Seq(Positions) /\ Len(received[v]) \in Nat /\ Len(buf[v]) \in Nat
        /\ Unread(v) = 0
    BY <1>1, ReceivedType, LinesFacts DEF Unread
  <2>2. CutUpTo(log, received[v], Uncut(v), out[v])
    BY <1>1 DEF CutInv
  <2>3. CASE v = w
    <3>1. Unread(v)' = n
      BY <1>1, <1>2, <2>3 DEF Unread
    <3>2. /\ Uncut(v)' = Len(received'[v]) - n - Len(buf[v]) + 1
          /\ Uncut(v) = Len(received[v]) - 0 - Len(buf[v]) + 1
      BY <1>1, <2>1, <3>1 DEF Uncut
    <3>3. Uncut(v)' = Uncut(v)
      BY <1>2, <1>3, <2>1, <2>3, <3>2
    <3>4. Len(received[v]) <= Len(received'[v])
      BY <1>2, <1>3, <2>1, <2>3
    <3>5. CutUpTo(log, received'[v], Uncut(v), out[v])
      BY <1>3, <2>1, <2>2, <2>3, <3>4, CutExtends
    <3> QED
      BY <1>1, <3>3, <3>5
  <2>4. CASE v # w
    <3>1. Unread(v)' = 0 /\ received'[v] = received[v]
      BY <1>1, <1>3, <2>4 DEF Unread
    <3>2. Uncut(v)' = Uncut(v)
      BY <1>1, <2>1, <3>1 DEF Uncut
    <3> QED
      BY <1>1, <2>2, <3>1, <3>2
  <2> QED
    BY <2>3, <2>4
<1> QED
  BY <1>1, <1>4 DEF CutInv

LEMMA ReturnCut ==
  ASSUME TypeOK, WholeInv, CutInv, Return, loop \notin {"writing", "exited"}
  PROVE  CutInv'
<1>1. log' = log /\ received' = received /\ loop' = "exited"
  BY DEF Return, env
<1>2. ASSUME NEW w \in Streams
      PROVE  LinesIn(log, out[w], received[w], StartsIn(log, received[w], Len(received[w]) + 1))'
  <2> DEFINE s == received[w]
             c == Uncut(w)
             o == out[w]
  <2>1. s \in Seq(Positions) /\ o \in Seq(Seq(Positions))
    BY ReceivedType, LinesFacts
  <2>2. /\ buf[w] = SubSeq(s, c, Len(s))
        /\ Len(s) < c + MaxLine
        /\ \A k \in c .. Len(s) : k \notin NewlinesIn(log, s)
    BY BufIsUncut
  <2>3. CutUpTo(log, s, c, o)
    BY DEF CutInv
  <2>4. out'[w] = EmitIn(log, o, SubSeq(s, c, Len(s)))
    BY <2>2, EmitIsEmitIn DEF Return, FlushBoth
  <2> HIDE DEF s, c, o
  <2>5. LinesIn(log, out'[w], s, StartsIn(log, s, Len(s) + 1))
    BY <2>1, <2>2, <2>3, <2>4, CutLast
  <2> QED
    BY <1>1, <2>5 DEF s
<1> QED
  BY <1>1, <1>2 DEF CutInv

LEMMA LogCut ==
  ASSUME TypeOK, CutInv, NEW b \in Writes, Log(b)
  PROVE  CutInv'
<1>1. /\ log' = Append(log, b) /\ loop' = loop /\ rest' = rest /\ writer' = writer
      /\ buf' = buf /\ out' = out /\ received' = received
  BY DEF Log, lines
<1>2. \A p \in Positions : log[p] = log'[p]
  BY <1>1, LenProperties DEF TypeOK, Positions
<1>3. ASSUME NEW w \in Streams, loop # "exited"
      PROVE  CutUpTo(log, received[w], Uncut(w), out[w])'
  <2>1. CutUpTo(log, received[w], Uncut(w), out[w]) /\ received[w] \in Seq(Positions)
    BY <1>3, ReceivedType DEF CutInv
  <2>2. CutUpTo(log', received[w], Uncut(w), out[w])
    BY <1>2, <2>1, CutGrows
  <2>3. Uncut(w)' = Uncut(w)
    BY <1>1 DEF Uncut, Unread
  <2> QED
    BY <1>1, <2>2, <2>3
<1>4. ASSUME NEW w \in Streams, loop = "exited"
      PROVE  LinesIn(log, out[w], received[w], StartsIn(log, received[w], Len(received[w]) + 1))'
  <2> DEFINE s == received[w]
  <2>1. /\ LinesIn(log, out[w], s, StartsIn(log, s, Len(s) + 1))
        /\ s \in Seq(Positions) /\ Len(s) \in Nat
    BY <1>4, ReceivedType DEF CutInv
  <2> HIDE DEF s
  <2>2. (Len(s) + 1) - 1 <= Len(s) /\ Len(s) + 1 \in Int
    BY <2>1
  <2>3. LinesIn(log', out[w], s, StartsIn(log', s, Len(s) + 1))
    BY <1>2, <2>1, <2>2, LinesGrow
  <2> QED
    BY <1>1, <2>3 DEF s
<1> QED
  BY <1>1, <1>3, <1>4 DEF CutInv

LEMMA StepCut ==
  ASSUME TypeOK, WholeInv, CutInv, [Next]_vars
  PROVE  CutInv'
<1>1. ASSUME UNCHANGED <<log, lines>>, loop \notin {"writing", "exited"},
             loop' \notin {"writing", "exited"}
      PROVE  CutInv'
  <2>1. \A w \in Streams : Uncut(w)' = Uncut(w)
    BY <1>1 DEF Uncut, Unread, lines
  <2> QED
    BY <1>1, <2>1 DEF CutInv, lines
<1>2. ASSUME UNCHANGED <<log, lines, loop>> PROVE CutInv'
  <2>1. \A w \in Streams : Uncut(w)' = Uncut(w)
    BY <1>2 DEF Uncut, Unread, lines
  <2> QED
    BY <1>2, <2>1 DEF CutInv, lines
<1>3. ASSUME NEW b \in Writes, Log(b) PROVE CutInv'
  BY <1>3, LogCut
<1>4. CASE Cancel \/ Terminate \/ UNCHANGED vars
  BY <1>2, <1>4 DEF Cancel, Terminate, vars, env
<1>5. CASE Start \/ OpenSucceeds \/ RecordSince \/ PauseElapses
  BY <1>1, <1>5 DEF Start, OpenSucceeds, OpenAt, RecordSince, PauseElapses, env
<1>6. ASSUME NEW fast \in BOOLEAN, ReadEOF(fast) PROVE CutInv'
  BY <1>1, <1>6 DEF ReadEOF, env
<1>7. CASE OpenFails \/ ReadFails \/ PauseCancelled
  BY <1>7, ReturnCut DEF OpenFails, ReadFails, PauseCancelled
<1>8. ASSUME NEW w \in Streams, NEW n \in 1 .. MaxLog, Frame(w, n) PROVE CutInv'
  BY <1>8, FrameCut
<1>9. CASE WriteStep
  BY <1>9, WriteCut
<1> QED
  BY <1>3, <1>4, <1>5, <1>6, <1>7, <1>8, <1>9 DEF Next, Goroutine

LEMMA InitCut == Init => CutInv
<1> SUFFICES ASSUME Init, NEW w \in Streams PROVE CutUpTo(log, received[w], Uncut(w), out[w])
  BY DEF Init, CutInv
<1>1. Len(<<>>) = 0 /\ DOMAIN <<>> = {}
  BY EmptySeq
<1>2. received[w] = <<>> /\ out[w] = <<>> /\ log = <<>> /\ Uncut(w) = 1
  BY <1>1 DEF Init, Uncut, Unread
<1>3. Aligned(NewlinesIn(log, <<>>), 1)
  BY AlignedAfterNewline
<1>4. StartsIn(log, <<>>, 1) = {}
  BY DEF StartsIn
<1>5. LinesIn(log, <<>>, <<>>, {})
  <2>1. [n \in 1 .. 0 |-> n] \in [1 .. 0 -> {}] /\ 1 .. 0 = {}
    OBVIOUS
  <2> QED
    BY <1>1, <2>1 DEF LinesIn
<1>6. 1 \in 1 .. Len(<<>>) + 1 /\ 1 .. 1 - 1 = {}
  BY <1>1
<1>7. CutUpTo(log, <<>>, 1, <<>>)
  BY <1>3, <1>4, <1>5, <1>6 DEF CutUpTo
<1> QED
  BY <1>2, <1>7

\* In the terms of LogStream.
LEMMA LinesAreLinesOf ==
  ASSUME TypeOK, NEW w \in Streams, NEW starts, LinesIn(log, out[w], received[w], starts)
  PROVE  AreLinesOf(out[w], received[w], starts)
<1> DEFINE o == out[w]
           s == received[w]
<1>1. DOMAIN o = 1 .. Len(o)
  BY LinesFacts, LenProperties
<1>2. \A i : TrimRight(Piece(s, i)) = TrimIn(log, PieceIn(log, s, i))
  <2>1. Newlines(s) = NewlinesIn(log, s)
    BY DEF Newlines, NewlinesIn, IsNL
  <2> QED
    BY <2>1, EmitIsEmitIn DEF Piece, PieceIn
<1> HIDE DEF o, s
<1> QED
  BY <1>1, <1>2 DEF LinesIn, AreLinesOf, o, s

LEMMA CutMatches ==
  ASSUME TypeOK, WholeInv, CutInv
  PROVE  LinesMatchBytes
<1> SUFFICES ASSUME loop # "writing", NEW w \in Streams
             PROVE  AreLinesOf(out[w], received[w], Pieces(received[w], loop = "exited"))
  BY DEF LinesMatchBytes
<1> DEFINE s == received[w]
           c == Uncut(w)
           nl == NewlinesIn(log, s)
<1>1. s \in Seq(Positions) /\ Len(s) \in Nat /\ DOMAIN s = 1 .. Len(s)
  BY ReceivedType
<1>2. Newlines(s) = nl /\ \A i : TrimRight(Piece(s, i)) = TrimIn(log, PieceIn(log, s, i))
  <2>1. Newlines(s) = nl
    BY DEF Newlines, NewlinesIn, IsNL
  <2> QED
    BY <2>1, EmitIsEmitIn DEF Piece, PieceIn
<1>3. CASE loop = "exited"
  <2>1. LinesIn(log, out[w], s, StartsIn(log, s, Len(s) + 1))
    BY <1>3 DEF CutInv
  <2>2. 1 .. (Len(s) + 1) - 1 = 1 .. Len(s)
    BY <1>1
  <2>3. Pieces(s, TRUE) = StartsIn(log, s, Len(s) + 1)
    BY <1>1, <1>2, <2>2 DEF Pieces, StartsIn
  <2> QED
    BY <1>3, <2>1, <2>3, LinesAreLinesOf
<1>4. CASE loop # "exited"
  <2>1. CutUpTo(log, s, c, out[w])
    BY <1>4 DEF CutInv
  <2>2. /\ c \in 1 .. Len(s) + 1 /\ Len(s) < c + MaxLine
        /\ \A k \in c .. Len(s) : k \notin nl
    BY BufIsUncut
  <2> HIDE DEF s, c, nl
  <2>3. ASSUME NEW i \in 1 .. Len(s), PieceStart(nl, i)
        PROVE  PieceEnd(nl, Len(s), i) < Len(s) <=> i < c
    BY <1>1, <2>1, <2>2, <2>3, ClosedPieces DEF nl
  <2>4. \A i : i \in 1 .. c - 1 <=> i \in 1 .. Len(s) /\ i < c
    BY <1>1, <2>2
  <2>5. Pieces(s, FALSE) = StartsIn(log, s, c)
    BY <1>1, <1>2, <2>3, <2>4 DEF Pieces, StartsIn, nl
  <2>6. LinesIn(log, out[w], s, StartsIn(log, s, c))
    BY <2>1 DEF CutUpTo
  <2>7. (loop = "exited") = FALSE
    BY <1>4
  <2> QED
    BY <2>5, <2>6, <2>7, LinesAreLinesOf DEF s
<1> QED
  BY <1>3, <1>4

\* The lines logged are those of the reference, which sees all bytes at once:
\* however long the lines and however the frames cut them, no byte a writer was
\* given is lost, doubled or put into another line, and the last line is there.
THEOREM LinesMatch == Spec => []LinesMatchBytes
<1>1. Init => WholeInv
  BY InitWhole
<1>2. TypeOK /\ WholeInv /\ [Next]_vars => WholeInv'
  BY StepWhole
<1>3. TypeOK /\ WholeInv /\ CutInv /\ [Next]_vars => CutInv'
  BY StepCut
<1>4. TypeOK /\ WholeInv /\ CutInv => LinesMatchBytes
  BY CutMatches
<1> QED
  BY InitCut, TypeCorrect, <1>1, <1>2, <1>3, <1>4, PTL DEF Spec

-----------------------------------------------------------------------------
\* The pause.

\* What the equation of Doubled says, up to n.
DoubledUpTo(n, f) ==
    /\ f \in [0 .. n -> Nat \ {0}]
    /\ f[0] = BaseBackoff
    /\ \A k \in 1 .. n : f[k] = 2 * f[k - 1]

LEMMA DoubledExtends ==
  ASSUME NEW n \in Nat, NEW f, DoubledUpTo(n, f)
  PROVE  DoubledUpTo(n + 1, [k \in 0 .. n + 1 |-> IF k <= n THEN f[k] ELSE 2 * f[n]])
<1> DEFINE h == [k \in 0 .. n + 1 |-> IF k <= n THEN f[k] ELSE 2 * f[n]]
<1>1. f \in [0 .. n -> Nat \ {0}]
  BY DEF DoubledUpTo
<1>2. h \in [0 .. n + 1 -> Nat \ {0}]
  <2>1. f[n] \in Nat \ {0}
    BY <1>1
  <2>2. 2 * f[n] \in Nat \ {0}
    BY <2>1
  <2>3. \A k \in 0 .. n + 1 : k <= n => f[k] \in Nat \ {0}
    BY <1>1
  <2> QED
    BY <2>2, <2>3
<1>3. \A k \in 0 .. n : h[k] = f[k]
  OBVIOUS
<1>4. h[n + 1] = 2 * f[n]
  OBVIOUS
<1> HIDE DEF h
<1>5. h[0] = BaseBackoff
  BY <1>3 DEF DoubledUpTo
<1>6. \A k \in 1 .. n + 1 : h[k] = 2 * h[k - 1]
  <2> TAKE k \in 1 .. n + 1
  <2>1. CASE k <= n
    <3>1. k \in 1 .. n /\ k \in 0 .. n /\ k - 1 \in 0 .. n
      BY <2>1
    <3> QED
      BY <1>3, <3>1 DEF DoubledUpTo
  <2>2. CASE k = n + 1
    <3>1. k - 1 = n /\ n \in 0 .. n
      BY <2>2
    <3> QED
      BY <1>3, <1>4, <2>2, <3>1
  <2> QED
    BY <2>1, <2>2
<1>7. DoubledUpTo(n + 1, h)
  BY <1>2, <1>5, <1>6 DEF DoubledUpTo
<1> QED
  BY <1>7 DEF h

\* There is one such f for each n, and longer ones agree with it.
LEMMA DoubledAgree ==
  ASSUME NEW n \in Nat, NEW m \in Nat, n <= m, NEW f, DoubledUpTo(n, f),
         NEW h, DoubledUpTo(m, h)
  PROVE  f[n] = h[n]
<1> DEFINE T == {k \in Nat : k <= n => f[k] = h[k]}
<1>1. 0 \in T
  BY DEF DoubledUpTo
<1>2. ASSUME NEW k \in T PROVE k + 1 \in T
  <2> SUFFICES ASSUME k + 1 <= n PROVE f[k + 1] = h[k + 1]
    OBVIOUS
  <2>1. k + 1 \in 1 .. n /\ k + 1 \in 1 .. m /\ (k + 1) - 1 = k /\ f[k] = h[k]
    OBVIOUS
  <2> QED
    BY <2>1 DEF DoubledUpTo
<1>3. T = Nat
  <2>1. T \subseteq Nat
    OBVIOUS
  <2> HIDE DEF T
  <2> QED
    BY <1>1, <1>2, <2>1, AllNats
<1> QED
  BY <1>3

LEMMA DoubledExists ==
  ASSUME NEW n \in Nat
  PROVE  \E f : DoubledUpTo(n, f)
<1> DEFINE T == {k \in Nat : \E f : DoubledUpTo(k, f)}
<1>1. 0 \in T
  <2>1. DoubledUpTo(0, [k \in 0 .. 0 |-> BaseBackoff])
    BY StreamAssumptions DEF DoubledUpTo
  <2> QED
    BY <2>1
<1>2. ASSUME NEW k \in T PROVE k + 1 \in T
  <2>1. PICK f : DoubledUpTo(k, f)
    OBVIOUS
  <2>2. k \in Nat /\ k + 1 \in Nat
    OBVIOUS
  <2>3. \E h : DoubledUpTo(k + 1, h)
    BY <2>1, <2>2, DoubledExtends
  <2> QED
    BY <2>2, <2>3
<1>3. T = Nat
  <2>1. T \subseteq Nat
    OBVIOUS
  <2> HIDE DEF T
  <2> QED
    BY <1>1, <1>2, <2>1, AllNats
<1> QED
  BY <1>3

\* The recursive function is what its equation says.
LEMMA DoubledIs ==
  /\ Doubled[0] = BaseBackoff
  /\ \A n \in Nat : Doubled[n] \in Nat \ {0} /\ Doubled[n + 1] = 2 * Doubled[n]
<1> DEFINE F == [n \in Nat |-> (CHOOSE f : DoubledUpTo(n, f))[n]]
<1>1. \A n \in Nat : \E f : DoubledUpTo(n, f) /\ F[n] = f[n]
  BY DoubledExists
<1> HIDE DEF F
<1>2. F[0] = BaseBackoff
  BY <1>1 DEF DoubledUpTo
<1>3. ASSUME NEW n \in Nat PROVE F[n] \in Nat \ {0} /\ F[n + 1] = 2 * F[n]
  <2>1. PICK f : DoubledUpTo(n, f) /\ F[n] = f[n]
    BY <1>1
  <2>2. PICK h : DoubledUpTo(n + 1, h) /\ F[n + 1] = h[n + 1]
    BY <1>1
  <2>3. f[n] = h[n]
    BY <2>1, <2>2, DoubledAgree
  <2>4. n + 1 \in 1 .. n + 1 /\ (n + 1) - 1 = n /\ n \in 0 .. n
    OBVIOUS
  <2>5. h[n + 1] = 2 * h[n]
    BY <2>2, <2>4 DEF DoubledUpTo
  <2>6. f[n] \in Nat \ {0}
    BY <2>1, <2>4 DEF DoubledUpTo
  <2> QED
    BY <2>1, <2>2, <2>3, <2>5, <2>6
<1>4. F = [n \in Nat |-> IF n = 0 THEN BaseBackoff ELSE 2 * F[n - 1]]
  <2>1. ASSUME NEW n \in Nat PROVE F[n] = IF n = 0 THEN BaseBackoff ELSE 2 * F[n - 1]
    <3>1. CASE n = 0
      BY <1>2, <3>1
    <3>2. CASE n # 0
      <4>1. n - 1 \in Nat /\ (n - 1) + 1 = n
        BY <3>2
      <4>2. F[n] = 2 * F[n - 1]
        BY <1>3, <4>1
      <4> QED
        BY <3>2, <4>2
    <3> QED
      BY <3>1, <3>2
  <2>2. F = [n \in Nat |-> F[n]]
    BY DEF F
  <2> QED
    BY <2>1, <2>2
<1>5. Doubled = [n \in Nat |-> IF n = 0 THEN BaseBackoff ELSE 2 * Doubled[n - 1]]
  <2>1. \E f : f = [n \in Nat |-> IF n = 0 THEN BaseBackoff ELSE 2 * f[n - 1]]
    BY <1>4
  <2> QED
    BY <2>1 DEF Doubled
<1>6. \A n \in Nat : n \in {k \in Nat : Doubled[k] = F[k]}
  <2> DEFINE T == {k \in Nat : Doubled[k] = F[k]}
  <2>1. 0 \in T
    BY <1>2, <1>5
  <2>2. ASSUME NEW n \in T PROVE n + 1 \in T
    <3>1. n \in Nat /\ n + 1 \in Nat /\ n + 1 # 0 /\ (n + 1) - 1 = n /\ Doubled[n] = F[n]
      OBVIOUS
    <3>2. Doubled[n + 1] = 2 * Doubled[n]
      BY <1>5, <3>1
    <3> QED
      BY <1>3, <3>1, <3>2
  <2>3. T \subseteq Nat
    OBVIOUS
  <2> HIDE DEF T
  <2>4. T = Nat
    BY <2>1, <2>2, <2>3, AllNats
  <2> QED
    BY <2>4 DEF T
<1>7. \A n \in Nat : n + 1 \in Nat
  OBVIOUS
<1> QED
  BY <1>2, <1>3, <1>6, <1>7

\* Doubling what was capped, and capping it, caps what was doubled.
LEMMA CapDoubled ==
  ASSUME NEW a \in Nat, NEW b \in Nat
  PROVE  Min({2 * Min({a, b}), b}) = Min({2 * a, b})
<1>1. ASSUME NEW x \in Nat, NEW y \in Nat PROVE Min({x, y}) = IF x <= y THEN x ELSE y
  <2> DEFINE m == IF x <= y THEN x ELSE y
  <2>1. m \in {x, y} /\ \A k \in {x, y} : m <= k
    BY <1>1
  <2>2. Min({x, y}) \in {x, y} /\ \A k \in {x, y} : Min({x, y}) <= k
    <3>1. \E k \in {x, y} : \A l \in {x, y} : k <= l
      BY <2>1
    <3> QED
      BY <3>1 DEF Min
  <2> QED
    BY <1>1, <2>1, <2>2
<1>2. Min({a, b}) = IF a <= b THEN a ELSE b
  BY <1>1
<1> DEFINE c == Min({a, b})
<1>3. c \in Nat
  BY <1>2
<1>4. Min({2 * c, b}) = IF 2 * c <= b THEN 2 * c ELSE b
  BY <1>1, <1>3
<1>5. Min({2 * a, b}) = IF 2 * a <= b THEN 2 * a ELSE b
  BY <1>1
<1> HIDE DEF c
<1> QED
  BY <1>2, <1>3, <1>4, <1>5 DEF c

\* The counters of bytes tell whether the stream went beyond where it began.
PauseInv ==
    /\ BackoffMatchesIdling
    /\ loop = "reading" => next >= first /\ (anyBytes <=> next > first)
    /\ loop = "writing" => next > first

LEMMA EOFPause ==
  ASSUME TypeOK, PauseInv, NEW fast \in BOOLEAN, ReadEOF(fast)
  PROVE  PauseInv'
<1>1. /\ loop = "reading" /\ loop' = "ended" /\ backoff' = NextBackoff(fast)
      /\ idle' = IF fast /\ next = first THEN idle + 1 ELSE 0
  BY DEF ReadEOF
<1>2. next \in Nat /\ first \in Nat /\ idle \in Nat /\ BaseBackoff \in Nat /\ MaxBackoff \in Nat
  BY StreamAssumptions DEF TypeOK
<1>3. next = first <=> ~anyBytes
  BY <1>1, <1>2 DEF PauseInv
<1>4. BackoffMatchesIdling'
  <2>1. CASE fast /\ ~anyBytes
    <3>1. idle' = idle + 1 /\ backoff' = Min({2 * backoff, MaxBackoff})
      BY <1>1, <1>3, <2>1 DEF NextBackoff
    <3>2. Doubled[idle] \in Nat /\ Doubled[idle + 1] = 2 * Doubled[idle] /\ Doubled[0] = BaseBackoff
      BY <1>2, DoubledIs
    <3>3. backoff = IF idle = 0 THEN BaseBackoff ELSE Min({Doubled[idle], MaxBackoff})
      BY DEF PauseInv, BackoffMatchesIdling
    <3>4. Min({2 * backoff, MaxBackoff}) = Min({Doubled[idle + 1], MaxBackoff})
      <4>1. CASE idle = 0
        BY <3>2, <3>3, <4>1
      <4>2. CASE idle # 0
        <5>1. Min({2 * Min({Doubled[idle], MaxBackoff}), MaxBackoff}) = Min({2 * Doubled[idle], MaxBackoff})
          BY <1>2, <3>2, CapDoubled
        <5> QED
          BY <3>2, <3>3, <4>2, <5>1
      <4> QED
        BY <4>1, <4>2
    <3>5. idle' # 0
      BY <1>2, <3>1
    <3> QED
      BY <3>1, <3>4, <3>5 DEF BackoffMatchesIdling
  <2>2. CASE ~(fast /\ ~anyBytes)
    <3>1. idle' = 0 /\ backoff' = BaseBackoff
      BY <1>1, <1>3, <2>2 DEF NextBackoff
    <3> QED
      BY <3>1 DEF BackoffMatchesIdling
  <2> QED
    BY <2>1, <2>2
<1> QED
  BY <1>1, <1>4 DEF PauseInv

LEMMA StepPause ==
  ASSUME TypeOK, PauseInv, [Next]_vars
  PROVE  PauseInv'
<1>1. next \in Nat /\ first \in Nat /\ anyBytes \in BOOLEAN
  BY DEF TypeOK
<1>2. UNCHANGED <<backoff, idle>> => BackoffMatchesIdling'
  BY DEF PauseInv, BackoffMatchesIdling
<1>3. ASSUME UNCHANGED <<backoff, idle>>, loop' \notin {"reading", "writing"} PROVE PauseInv'
  BY <1>2, <1>3 DEF PauseInv
<1>4. ASSUME UNCHANGED <<backoff, idle, loop, next, first, anyBytes>> PROVE PauseInv'
  BY <1>2, <1>4 DEF PauseInv
<1>5. CASE Cancel \/ Terminate \/ UNCHANGED vars \/ \E b \in Writes : Log(b)
  BY <1>4, <1>5 DEF Cancel, Terminate, Log, vars, stream, pace
<1>6. CASE Start \/ RecordSince \/ PauseElapses \/ Return
  BY <1>3, <1>6 DEF Start, RecordSince, PauseElapses, Return, stream, pace
<1>7. CASE OpenSucceeds
  <2>1. next' \in Nat /\ first' = next'
    BY <1>7, Opening
  <2>2. next' >= first' /\ ~(next' > first')
    BY <2>1
  <2>3. loop' = "reading" /\ ~anyBytes' /\ UNCHANGED <<backoff, idle>>
    BY <1>7, Opening DEF pace
  <2> QED
    BY <1>2, <2>2, <2>3 DEF PauseInv
<1>8. ASSUME NEW w \in Streams, NEW n \in 1 .. MaxLog, Frame(w, n) PROVE PauseInv'
  <2>1. loop = "reading" /\ loop' = "writing" /\ next' = next + n /\ UNCHANGED <<backoff, idle, first>>
    BY <1>8 DEF Frame, pace
  <2>2. next' > first'
    <3>1. n \in Nat \ {0} /\ next >= first
      BY <2>1, StreamAssumptions DEF PauseInv
    <3> QED
      BY <1>1, <2>1, <3>1
  <2> QED
    BY <1>2, <2>1, <2>2 DEF PauseInv
<1>9. CASE WriteStep
  <2>1. /\ loop = "writing" /\ UNCHANGED <<backoff, idle, first, next>>
        /\ loop' = "writing" \/ (loop' = "reading" /\ anyBytes' = TRUE)
    BY <1>9, WriteTurn DEF WriteStep, pace, FillsLine, EndsLine, KeepsLine
  <2>2. next' > first' /\ next' >= first'
    BY <1>1, <2>1 DEF PauseInv
  <2> QED
    BY <1>2, <2>1, <2>2 DEF PauseInv
<1>10. ASSUME NEW fast \in BOOLEAN, ReadEOF(fast) PROVE PauseInv'
  BY <1>10, EOFPause
<1> QED
  BY <1>5, <1>6, <1>7, <1>8, <1>9, <1>10
     DEF Next, Goroutine, OpenFails, ReadFails, PauseCancelled

\* The pause doubles, up to its cap, with each stream in a row that ended at
\* once and empty, and is the configured one after any other.
THEOREM PauseDoubles == Spec => []BackoffMatchesIdling
<1>1. Init => PauseInv
  BY DEF Init, PauseInv, BackoffMatchesIdling
<1>2. TypeOK /\ PauseInv /\ [Next]_vars => PauseInv'
  BY StepPause
<1>3. PauseInv => BackoffMatchesIdling
  BY DEF PauseInv
<1> QED
  BY TypeCorrect, <1>1, <1>2, <1>3, PTL DEF Spec
=============================================================================
