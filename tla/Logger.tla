--------------------------------- MODULE Logger ---------------------------------
(***************************************************************************)
(* kernel/logger: the main thread puts a line into a LOGStream of a pool   *)
(* and hands it over through a queue; the logger thread writes it to a     *)
(* file, a new one when the file is an hour old or large, and returns the  *)
(* stream to the pool.                                                     *)
(*                                                                         *)
(* The queue is the bounded FIFO that TQueue is shown to be.  Nothing      *)
(* calls Logger::Terminate, so that the thread never leaves Run: Kernel    *)
(* says what Destory does to it.                                           *)
(***************************************************************************)
EXTENDS Integers, Sequences, FiniteSets, SequencesExt

CONSTANTS Lines,        \* bound: lines logged in all
          LogSize,      \* slots of m_oQueueStream, 409600
          Block,        \* streams of a block of m_oPoolStream
          None

Stream == 1 .. Lines + Block

VARIABLES
    lfree, lused, lmade,    \* m_oPoolStream
    text,       \* the lines in each LOGStream, all it has ever been given
    lqueue,     \* m_oQueueStream
    adding,     \* the stream Log holds on the main thread
    lpc, taken, \* where the logger thread is, and pLog
    file,       \* m_oFileInfo: whether open, and what m_lOpenTick and m_lFileSize
                \* say of its age: "zero", "recent", or "past" an hour or the size
    logged,     \* number of lines logged
    written,    \* what came to the files, in order
    dropped,    \* the lines that were in no file when their turn was over
    halted      \* what ended the process

logPool == <<lfree, lused, lmade>>
fate == <<logged, written, dropped>>
logVars == <<logPool, text, lqueue, adding, lpc, taken, file, fate>>

LogPool == INSTANCE TPool WITH list <- lfree, inUse <- lused, made <- lmade

Closed == [open |-> FALSE, age |-> "zero"]
Fresh == [open |-> TRUE, age |-> "recent"]

LogInit == /\ LogPool!Constructed
           /\ text = [u \in Stream |-> <<>>] /\ lqueue = <<>> /\ adding = None
           /\ lpc = "none" /\ taken = None /\ file = Closed
           /\ logged = 0 /\ written = <<>> /\ dropped = {}

------------------------------------------------------------------------------
(* Main thread *)

\* Log, up to the queue.  Nothing empties a stream that has been used before:
\* its old text stays in front.
Log ==
    /\ adding = None /\ logged < Lines
    /\ \E u \in Stream :
          /\ LogPool!Create(u) /\ adding' = u
          /\ text' = [text EXCEPT ![u] = Append(@, logged + 1)]
    /\ logged' = logged + 1
    /\ UNCHANGED <<lqueue, lpc, taken, file, written, dropped, halted>>

\* Add waits for a free slot.
LogAdd ==
    /\ adding # None /\ Len(lqueue) < LogSize
    /\ lqueue' = Append(lqueue, adding) /\ adding' = None
    /\ UNCHANGED <<logPool, text, lpc, taken, file, fate, halted>>

------------------------------------------------------------------------------
(* Logger thread: Run *)

LogRun == /\ lpc = "created" /\ lpc' = "read"
          /\ UNCHANGED <<logPool, text, lqueue, adding, taken, file, fate, halted>>

\* Mutant: the stream goes back before its line is written.
LogReadRecovers ==
    /\ lpc = "read" /\ lqueue # <<>>
    /\ lpc' = "write" /\ taken' = Head(lqueue) /\ lqueue' = Tail(lqueue)
    /\ LogPool!Recover(taken')
    /\ UNCHANGED <<text, adding, file, fate, halted>>

LogRead ==
    /\ lpc = "read" /\ lqueue # <<>>
    /\ lpc' = "write" /\ taken' = Head(lqueue) /\ lqueue' = Tail(lqueue)
    /\ UNCHANGED <<logPool, text, adding, file, fate, halted>>

\* What fopen may leave of a file that is not open.
FILEOpen(f) == {f, Fresh}

\* Mutant: the size is reset, the tick is not, of a file closed for its size.
FILECloseKeepsTick(f) == [Closed EXCEPT !.age = "recent"]

FILEClose(f) == Closed

\* Run tests the age of the file, or of no file: that is always old.
Expired(f) == f.age # "recent"

\* The whole stream is written, with what earlier lines have left in it.
FILEWrite(f) ==
    IF f.open THEN /\ file' = f /\ written' = written \o text[taken]
                   /\ UNCHANGED <<dropped, halted>>
              ELSE halted' = "Logger.h:48" /\ UNCHANGED <<file, written, dropped>>

Drop(f) == /\ file' = f
           /\ dropped' = dropped \cup (Range(text[taken]) \ Range(written))
           /\ UNCHANGED <<written, halted>>

\* Run opens a file if there is none; an expired one is closed and another
\* opened; a line for which that fails is dropped.
LogWrite ==
    /\ lpc = "write" /\ lpc' = "recover"
    /\ \E f \in IF file.open THEN {file} ELSE FILEOpen(file) :
          \/ ~Expired(f) /\ FILEWrite(f)
          \/ Expired(f) /\ ~f.open /\ Drop(f)
          \/ Expired(f) /\ f.open
             /\ \E g \in FILEOpen(FILEClose(f)) : IF g.open THEN FILEWrite(g) ELSE Drop(g)
    /\ UNCHANGED <<logPool, text, lqueue, adding, taken, logged>>

\* fclose or fwrite fails, against an assertion.
LogFileFails ==
    /\ lpc = "write" /\ lpc' = "recover"
    /\ halted' \in {"Logger.h:51"} \cup (IF Expired(file) /\ file.open THEN {"Logger.h:41"}
                                                                      ELSE {})
    /\ UNCHANGED <<logPool, text, lqueue, adding, taken, file, fate>>

\* Mutant: the stream of a dropped line is forgotten.
LogRecoverWritten ==
    /\ lpc = "recover" /\ lpc' = "read" /\ taken' = None
    /\ IF Range(text[taken]) \subseteq Range(written) THEN LogPool!Recover(taken)
                                                     ELSE UNCHANGED logPool
    /\ UNCHANGED <<text, lqueue, adding, file, fate, halted>>

LogRecover ==
    /\ lpc = "recover" /\ lpc' = "read" /\ taken' = None
    /\ LogPool!Recover(taken)
    /\ UNCHANGED <<text, lqueue, adding, file, fate, halted>>

\* An hour passes, or what has been written exceeds the size.
FileAges == /\ file.age = "recent" /\ file' = [file EXCEPT !.age = "past"]
            /\ UNCHANGED <<logPool, text, lqueue, adding, lpc, taken, fate, halted>>

LoggerStep == LogRun \/ LogRead \/ LogWrite \/ LogFileFails \/ LogRecover

------------------------------------------------------------------------------
(* Properties *)

LogTypeOK ==
    /\ text \in [Stream -> Seq(1 .. Lines)] /\ lqueue \in Seq(Stream)
    /\ Len(lqueue) <= LogSize /\ adding \in Stream \cup {None}
    /\ lpc \in {"none", "created", "read", "write", "recover"}
    /\ taken \in Stream \cup {None}
    /\ file \in [open : BOOLEAN, age : {"zero", "recent", "past"}]
    /\ logged \in 0 .. Lines /\ written \in Seq(1 .. Lines)

\* A stream is in one pair of hands: the main thread, the queue, the logger
\* thread or the pool.  The pool neither loses one nor hands one out twice
\* although two threads use it (Logger.cpp 66, 97-99, TPool.h 51-90).
Held == {lqueue[k] : k \in DOMAIN lqueue} \cup ({adding, taken} \ {None})
StreamsAccounted ==
    /\ LogPool!Accounted
    /\ lused = Held
    /\ Cardinality(Held) = Len(lqueue) + Cardinality({adding} \ {None})
                                       + Cardinality({taken} \ {None})

\* The turn of each line comes in the order of the calls of Log: by then it is
\* in a file or given up for want of one, no later line is, and no line is in
\* the files before an earlier one that is not given up.  A line may be there
\* again: a recycled stream brings all its old lines (Logger.cpp 43-66, 97-99).
Waiting == Len(lqueue) + (IF adding = None THEN 0 ELSE 1) + (IF lpc = "write" THEN 1 ELSE 0)
LinesInOrder ==
    halted = "no" =>
        /\ Range(written) \cup dropped = 1 .. logged - Waiting
        /\ \A k \in DOMAIN written : \A l \in 1 .. written[k] :
              l \in dropped \/ \E h \in 1 .. k : written[h] = l

\* What a reader of the log would expect, and is not so once a stream of the
\* pool is used again.
LinesOnce == \A h, k \in DOMAIN written : written[h] = written[k] => h = k

\* FILEWrite never meets a closed file, whichever opening has failed before:
\* no file counts as an old one, and is opened before anything is written
\* (Logger.cpp 45-62, Logger.h 30-45).
WritesToFile == halted # "Logger.h:48"
=============================================================================
