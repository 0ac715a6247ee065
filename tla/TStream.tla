-------------------------------- MODULE TStream --------------------------------
(***************************************************************************)
(* tlib::TStream (Public/TStream.h): the growing buffer that carries the   *)
(* bytes of one direction of a connection.  One thread writes (the worker  *)
(* into m_oRecvStream, the main thread into m_oSendStream), readers take   *)
(* turns with LockRead and FreeRead (the main thread in Processing; the    *)
(* main thread in Send and the worker in DoSend).  The writer takes that   *)
(* lock, m_pRlock, only to move the bytes, not to add to them.             *)
(*                                                                         *)
(* Readers touch the stream between LockRead and FreeRead only.            *)
(***************************************************************************)
EXTENDS Integers, Sequences

CONSTANTS Bytes, Unset,  \* Unset: what lies in a byte nothing has written
          Readers, NoReader, NoView,
          Sizes,         \* arguments of in(): how much is written at once
          buff_length,   \* template parameter: first size and unit of growth
          MaxContent     \* bound: bytes the stream holds at once

ASSUME SizeAssumption ==
    /\ buff_length \in Nat \ {0}
    /\ Sizes \subseteq Nat /\ MaxContent \in Nat

ASSUME NoneAssumption ==
    Unset \notin Bytes /\ NoReader \notin Readers /\ NoView \notin Seq(Bytes)

VARIABLES pbuff, read, write, max,
          rlock,             \* holder of m_pRlock
          wpc, data,         \* writer: step and argument of in()
          newSize,           \* writer: nNewSize
          rpc, start, len    \* per reader: step, buff() and size()

buffer == <<pbuff, read, write, max>>
writer == <<wpc, data, newSize>>
reader == <<rpc, start, len, rlock>>
vars == <<buffer, writer, reader>>

Init == /\ max = buff_length
        /\ pbuff = [i \in 0 .. buff_length - 1 |-> Unset]
        /\ read = 0 /\ write = 0
        /\ rlock = NoReader
        /\ wpc = "idle" /\ data = <<>> /\ newSize = 0
        /\ rpc = [r \in Readers |-> "idle"]
        /\ start = [r \in Readers |-> 0]
        /\ len = [r \in Readers |-> 0]

------------------------------------------------------------------------------
(* The writer: in *)

WGoto(from, to) == wpc = from /\ wpc' = to

CallIn(n) ==
    /\ WGoto("idle", "test")
    /\ write - read + n <= MaxContent
    /\ data' \in [1 .. n -> Bytes]
    /\ UNCHANGED <<buffer, newSize, reader>>

\* Mutant: the end of the buffer is taken for a free byte.
InFitsOneMore ==
    /\ WGoto("test", "copy")
    /\ Len(data) <= max - write + 1
    /\ UNCHANGED <<buffer, data, newSize, reader>>

InFits ==
    /\ WGoto("test", "copy")
    /\ Len(data) <= max - write
    /\ UNCHANGED <<buffer, data, newSize, reader>>

\* m_read is looked at without the lock.
InCompacts ==
    /\ WGoto("test", "compact")
    /\ Len(data) > max - write
    /\ max - (write - read) > Len(data)
    /\ UNCHANGED <<buffer, data, newSize, reader>>

\* The loop adds buff_length until the data fits, with a byte to spare.
InGrows ==
    /\ WGoto("test", "grow")
    /\ Len(data) > max - write
    /\ max - (write - read) <= Len(data)
    /\ \E k \in 1 .. Len(data) + 1 :
          /\ newSize' = max + k * buff_length
          /\ newSize' - (write - read) > Len(data)
          /\ k = 1 \/ newSize' - buff_length - (write - read) <= Len(data)
    /\ UNCHANGED <<buffer, data, reader>>

\* The bytes not yet consumed move to the front of a buffer of n bytes.  The
\* copy overlaps itself when read < write - read; it then goes upwards.
Moved(n) == [i \in 0 .. n - 1 |->
                IF i < write - read THEN pbuff[read + i]
                ELSE IF n = max THEN pbuff[i] ELSE Unset]

\* Mutant: the bytes are moved without the lock.
CompactUnlocked ==
    /\ WGoto("compact", "copy")
    /\ pbuff' = Moved(max)
    /\ write' = write - read /\ read' = 0
    /\ UNCHANGED <<max, data, newSize, reader>>

Compact ==
    /\ WGoto("compact", "copy") /\ rlock = NoReader
    /\ pbuff' = Moved(max)
    /\ write' = write - read /\ read' = 0
    /\ UNCHANGED <<max, data, newSize, reader>>

\* Mutant: m_max keeps the size of the old buffer.
GrowForgetsMax ==
    /\ WGoto("grow", "copy") /\ rlock = NoReader
    /\ pbuff' = Moved(newSize)
    /\ write' = write - read /\ read' = 0
    /\ newSize' = 0
    /\ UNCHANGED <<max, data, reader>>

\* malloc_new_size
Grow ==
    /\ WGoto("grow", "copy") /\ rlock = NoReader
    /\ max' = newSize
    /\ pbuff' = Moved(newSize)
    /\ write' = write - read /\ read' = 0
    /\ newSize' = 0
    /\ UNCHANGED <<data, reader>>

InCopy ==
    /\ WGoto("copy", "publish")
    /\ pbuff' = [i \in DOMAIN pbuff |->
                    IF i - write + 1 \in DOMAIN data THEN data[i - write + 1] ELSE pbuff[i]]
    /\ UNCHANGED <<read, write, max, data, newSize, reader>>

InPublish ==
    /\ WGoto("publish", "idle")
    /\ write' = write + Len(data)
    /\ data' = <<>>
    /\ UNCHANGED <<pbuff, read, max, newSize, reader>>

\* Called when the connection has ended and nobody uses the stream.
Clear ==
    /\ wpc = "idle" /\ \A r \in Readers : rpc[r] = "idle"
    /\ read' = 0 /\ write' = 0
    /\ max' = buff_length
    /\ pbuff' = [i \in 0 .. buff_length - 1 |-> Unset]
    /\ rlock' = NoReader
    /\ UNCHANGED <<writer, rpc, start, len>>

------------------------------------------------------------------------------
(* The readers *)

RGoto(r, from, to) == rpc[r] = from /\ rpc' = [rpc EXCEPT ![r] = to]

LockRead(r) ==
    /\ RGoto(r, "idle", "locked")
    /\ rlock = NoReader /\ rlock' = r
    /\ UNCHANGED <<buffer, writer, start, len>>

\* buff and size: the reader is given a pointer.
Look(r) ==
    /\ RGoto(r, "locked", "using")
    /\ start' = [start EXCEPT ![r] = read]
    /\ len' = [len EXCEPT ![r] = write - read]
    /\ UNCHANGED <<buffer, writer, rlock>>

\* A reader consumes at most what it has been shown.
Out(r) ==
    /\ RGoto(r, "using", "locked")
    /\ \E n \in 0 .. len[r] : read' = read + n
    /\ start' = [start EXCEPT ![r] = 0]
    /\ len' = [len EXCEPT ![r] = 0]
    /\ UNCHANGED <<pbuff, write, max, writer, rlock>>

FreeRead(r) ==
    /\ RGoto(r, "locked", "idle")
    /\ rlock' = NoReader
    /\ UNCHANGED <<buffer, writer, start, len>>

------------------------------------------------------------------------------
Next == \/ \E n \in Sizes : CallIn(n)
        \/ InFits \/ InCompacts \/ InGrows \/ Compact \/ Grow \/ InCopy \/ InPublish
        \/ Clear
        \/ \E r \in Readers : LockRead(r) \/ Look(r) \/ Out(r) \/ FreeRead(r)

Spec == Init /\ [][Next]_vars

------------------------------------------------------------------------------
(* Properties *)

TypeOK ==
    /\ max \in Nat /\ read \in Nat /\ write \in Nat
    /\ pbuff \in [0 .. max - 1 -> Bytes \cup {Unset}]
    /\ rlock \in Readers \cup {NoReader}
    /\ wpc \in {"idle", "test", "compact", "grow", "copy", "publish"}
    /\ data \in Seq(Bytes) /\ newSize \in Nat
    /\ rpc \in [Readers -> {"idle", "locked", "using"}]
    /\ start \in [Readers -> Nat] /\ len \in [Readers -> Nat]

\* The decision to grow or to compact, taken without the lock, never leaves
\* too little room for the copy: SafeMemcpy's assertion holds (lines 84-102).
CopyFits == /\ read <= write /\ write <= max
            /\ wpc \in {"copy", "publish"} => write + Len(data) <= max

\* The bytes in the stream, and those a reader looks at.
Content == [i \in 1 .. write - read |-> pbuff[read + i - 1]]
View(r) == IF rpc[r] = "using" THEN [i \in 1 .. len[r] |-> pbuff[start[r] + i - 1]]
           ELSE NoView

\* TStream implements a byte stream: in() takes effect when m_write goes on,
\* nothing is lost or changed by compaction and growth, and a reader keeps
\* its bytes and its place while in() runs.
Abstract == INSTANCE ByteStream WITH content <- Content, arg <- data,
                                     view <- [r \in Readers |-> View(r)]

ImplementsByteStream == Abstract!Spec

\* Tools.h 30 declares the ranges of a copy __restrict: compaction never copies
\* a range onto itself.
CopiesDoNotOverlap == wpc = "compact" /\ rlock = NoReader => write - read <= read
=============================================================================
