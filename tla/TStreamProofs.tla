----------------------------- MODULE TStreamProofs -----------------------------
(***************************************************************************)
(* Proofs about TStream for every buffer size, every way of cutting the    *)
(* bytes into calls of in(), and every set of readers.                     *)
(***************************************************************************)
EXTENDS TStream, SequenceTheorems, TLAPS

(***************************************************************************)
(* CopyFits is inductive once the outcome of the test made without the     *)
(* lock is remembered: readers only consume, so there is never less room   *)
(* than the writer has seen.                                               *)
(***************************************************************************)
RoomIsMade ==
    /\ wpc = "compact" => max - (write - read) > Len(data)
    /\ wpc = "grow" => newSize - (write - read) > Len(data)

\* A reader that is at the stream holds the lock, and its pointer stays good.
ReaderHolds ==
    \A r \in Readers :
        /\ rpc[r] # "idle" => rlock = r
        /\ rpc[r] = "using" => start[r] = read /\ start[r] + len[r] <= write

\* The bytes between the two ends have been written, and those of the call of
\* in() that is going on are where they will be published.
BytesInPlace ==
    /\ \A i \in Int : read <= i /\ i < write => pbuff[i] \in Bytes
    /\ wpc = "publish" => \A i \in 1 .. Len(data) : pbuff[write + i - 1] = data[i]
    /\ wpc = "idle" => data = <<>>

StreamInv == TypeOK /\ CopyFits /\ RoomIsMade /\ ReaderHolds /\ BytesInPlace

LEMMA StreamInit == Init => StreamInv
<1> USE SizeAssumption, NoneAssumption
<1> SUFFICES ASSUME Init PROVE StreamInv
  OBVIOUS
<1>1. TypeOK
  BY DEF Init, TypeOK
<1>2. CopyFits /\ RoomIsMade /\ ReaderHolds /\ BytesInPlace
  BY DEF Init, CopyFits, RoomIsMade, ReaderHolds, BytesInPlace
<1> QED BY <1>1, <1>2 DEF StreamInv

\* What moving the bytes to the front of a buffer of n bytes gives.
LEMMA MovedBytes ==
    ASSUME StreamInv, NEW n \in Nat, write - read <= n
    PROVE  /\ Moved(n) \in [0 .. n - 1 -> Bytes \cup {Unset}]
           /\ \A i \in Int : 0 <= i /\ i < write - read => Moved(n)[i] = pbuff[read + i]
<1> USE DEF StreamInv, TypeOK, CopyFits
<1>1. ASSUME NEW i \in 0 .. n - 1
      PROVE  (IF i < write - read THEN pbuff[read + i]
              ELSE IF n = max THEN pbuff[i] ELSE Unset) \in Bytes \cup {Unset}
  <2>1. CASE i < write - read
    BY <2>1, <1>1
  <2>2. CASE i >= write - read /\ n = max
    BY <2>2, <1>1
  <2>3. CASE i >= write - read /\ n # max
    BY <2>3, <1>1
  <2> QED BY <2>1, <2>2, <2>3, <1>1
<1>2. Moved(n) \in [0 .. n - 1 -> Bytes \cup {Unset}]
  BY <1>1 DEF Moved
<1>3. ASSUME NEW i \in Int, 0 <= i, i < write - read
      PROVE  Moved(n)[i] = pbuff[read + i]
  BY <1>3 DEF Moved
<1> QED BY <1>2, <1>3

LEMMA StreamStep == StreamInv /\ [Next]_vars => StreamInv'
<1> SUFFICES ASSUME StreamInv, [Next]_vars PROVE StreamInv'
  OBVIOUS
<1>t. TypeOK /\ CopyFits /\ RoomIsMade /\ ReaderHolds /\ BytesInPlace
  BY DEF StreamInv
<1> USE SizeAssumption, NoneAssumption DEF buffer, writer, reader
<1>1. ASSUME NEW n \in Sizes, CallIn(n) PROVE StreamInv'
  <2>1. TypeOK'
    BY <1>1, <1>t DEF CallIn, WGoto, TypeOK
  <2>2. CopyFits'
    BY <1>1, <1>t DEF CallIn, WGoto, CopyFits
  <2>3. RoomIsMade'
    BY <1>1, <1>t DEF CallIn, WGoto, RoomIsMade
  <2>4. ReaderHolds'
    BY <1>1, <1>t DEF CallIn, WGoto, ReaderHolds
  <2>5. BytesInPlace'
    BY <1>1, <1>t DEF CallIn, WGoto, BytesInPlace
  <2> QED BY <2>1, <2>2, <2>3, <2>4, <2>5 DEF StreamInv
<1>2. ASSUME InFits PROVE StreamInv'
  <2>1. TypeOK'
    BY <1>2, <1>t DEF InFits, WGoto, TypeOK
  <2>2. CopyFits'
    BY <1>2, <1>t DEF InFits, WGoto, TypeOK, CopyFits
  <2>3. RoomIsMade'
    BY <1>2, <1>t DEF InFits, WGoto, RoomIsMade
  <2>4. ReaderHolds'
    BY <1>2, <1>t DEF InFits, WGoto, ReaderHolds
  <2>5. BytesInPlace'
    BY <1>2, <1>t DEF InFits, WGoto, BytesInPlace
  <2> QED BY <2>1, <2>2, <2>3, <2>4, <2>5 DEF StreamInv
<1>3. ASSUME InCompacts PROVE StreamInv'
  <2>1. TypeOK'
    BY <1>3, <1>t DEF InCompacts, WGoto, TypeOK
  <2>2. CopyFits'
    BY <1>3, <1>t DEF InCompacts, WGoto, CopyFits
  <2>3. RoomIsMade'
    BY <1>3, <1>t DEF InCompacts, WGoto, RoomIsMade
  <2>4. ReaderHolds'
    BY <1>3, <1>t DEF InCompacts, WGoto, ReaderHolds
  <2>5. BytesInPlace'
    BY <1>3, <1>t DEF InCompacts, WGoto, BytesInPlace
  <2> QED BY <2>1, <2>2, <2>3, <2>4, <2>5 DEF StreamInv
<1>4. ASSUME InGrows PROVE StreamInv'
  <2>1. TypeOK'
    BY <1>4, <1>t DEF InGrows, WGoto, TypeOK
  <2>2. CopyFits'
    BY <1>4, <1>t DEF InGrows, WGoto, CopyFits
  <2>3. RoomIsMade'
    BY <1>4, <1>t DEF InGrows, WGoto, RoomIsMade
  <2>4. ReaderHolds'
    BY <1>4, <1>t DEF InGrows, WGoto, ReaderHolds
  <2>5. BytesInPlace'
    BY <1>4, <1>t DEF InGrows, WGoto, BytesInPlace
  <2> QED BY <2>1, <2>2, <2>3, <2>4, <2>5 DEF StreamInv
<1>5. ASSUME Compact PROVE StreamInv'
  <2>a. max \in Nat /\ write - read <= max
    BY <1>5, <1>t DEF Compact, WGoto, TypeOK, CopyFits, RoomIsMade
  <2>b. /\ Moved(max) \in [0 .. max - 1 -> Bytes \cup {Unset}]
        /\ \A i \in Int : 0 <= i /\ i < write - read => Moved(max)[i] = pbuff[read + i]
    BY <2>a, MovedBytes
  <2>1. TypeOK'
    BY <1>5, <1>t, <2>a, <2>b DEF Compact, WGoto, TypeOK, CopyFits
  <2>2. CopyFits'
    BY <1>5, <1>t DEF Compact, WGoto, TypeOK, CopyFits, RoomIsMade
  <2>3. RoomIsMade'
    BY <1>5, <1>t DEF Compact, WGoto, RoomIsMade
  <2>4. ReaderHolds'
    BY <1>5, <1>t DEF Compact, WGoto, ReaderHolds
  <2>5. BytesInPlace'
    <3>1. ASSUME NEW i \in Int, read' <= i, i < write' PROVE pbuff'[i] \in Bytes
      <4>1. 0 <= i /\ i < write - read /\ pbuff' = Moved(max)
        BY <1>5, <1>t, <3>1 DEF Compact
      <4>2. pbuff'[i] = pbuff[read + i]
        BY <4>1, <2>b
      <4>3. read + i \in Int /\ read <= read + i /\ read + i < write
        BY <1>t, <4>1 DEF TypeOK
      <4> QED BY <4>2, <4>3, <1>t DEF BytesInPlace
    <3> QED BY <1>5, <1>t, <3>1 DEF Compact, WGoto, BytesInPlace
  <2> QED BY <2>1, <2>2, <2>3, <2>4, <2>5 DEF StreamInv
<1>6. ASSUME Grow PROVE StreamInv'
  <2>a. newSize \in Nat /\ write - read <= newSize
    BY <1>6, <1>t DEF Grow, WGoto, TypeOK, CopyFits, RoomIsMade
  <2>b. /\ Moved(newSize) \in [0 .. newSize - 1 -> Bytes \cup {Unset}]
        /\ \A i \in Int : 0 <= i /\ i < write - read => Moved(newSize)[i] = pbuff[read + i]
    BY <2>a, MovedBytes
  <2>1. TypeOK'
    BY <1>6, <1>t, <2>a, <2>b DEF Grow, WGoto, TypeOK, CopyFits
  <2>2. CopyFits'
    BY <1>6, <1>t DEF Grow, WGoto, TypeOK, CopyFits, RoomIsMade
  <2>3. RoomIsMade'
    BY <1>6, <1>t DEF Grow, WGoto, RoomIsMade
  <2>4. ReaderHolds'
    BY <1>6, <1>t DEF Grow, WGoto, ReaderHolds
  <2>5. BytesInPlace'
    <3>1. ASSUME NEW i \in Int, read' <= i, i < write' PROVE pbuff'[i] \in Bytes
      <4>1. 0 <= i /\ i < write - read /\ pbuff' = Moved(newSize)
        BY <1>6, <1>t, <3>1 DEF Grow
      <4>2. pbuff'[i] = pbuff[read + i]
        BY <4>1, <2>b
      <4>3. read + i \in Int /\ read <= read + i /\ read + i < write
        BY <1>t, <4>1 DEF TypeOK
      <4> QED BY <4>2, <4>3, <1>t DEF BytesInPlace
    <3> QED BY <1>6, <1>t, <3>1 DEF Grow, WGoto, BytesInPlace
  <2> QED BY <2>1, <2>2, <2>3, <2>4, <2>5 DEF StreamInv
<1>7. ASSUME InCopy PROVE StreamInv'
  <2>1. TypeOK'
    <3>1. ASSUME NEW i \in DOMAIN pbuff
          PROVE  (IF i - write + 1 \in DOMAIN data THEN data[i - write + 1] ELSE pbuff[i])
                    \in Bytes \cup {Unset}
      BY <1>t, <3>1, ElementOfSeq DEF TypeOK
    <3>2. pbuff' \in [0 .. max - 1 -> Bytes \cup {Unset}]
      BY <1>7, <1>t, <3>1 DEF InCopy, TypeOK
    <3> QED BY <1>7, <1>t, <3>2 DEF InCopy, WGoto, TypeOK
  <2>2. CopyFits'
    BY <1>7, <1>t DEF InCopy, WGoto, CopyFits
  <2>3. RoomIsMade'
    BY <1>7, <1>t DEF InCopy, WGoto, RoomIsMade
  <2>4. ReaderHolds'
    BY <1>7, <1>t DEF InCopy, WGoto, ReaderHolds
  <2>5. BytesInPlace'
    BY <1>7, <1>t DEF InCopy, WGoto, TypeOK, CopyFits, BytesInPlace
  <2> QED BY <2>1, <2>2, <2>3, <2>4, <2>5 DEF StreamInv
<1>8. ASSUME InPublish PROVE StreamInv'
  <2>1. TypeOK'
    BY <1>8, <1>t DEF InPublish, WGoto, TypeOK
  <2>2. CopyFits'
    BY <1>8, <1>t DEF InPublish, WGoto, TypeOK, CopyFits
  <2>3. RoomIsMade'
    BY <1>8, <1>t DEF InPublish, WGoto, RoomIsMade
  <2>4. ReaderHolds'
    BY <1>8, <1>t DEF InPublish, WGoto, TypeOK, ReaderHolds
  <2>5. BytesInPlace'
    <3>1. ASSUME NEW i \in Int, read <= i, i < write + Len(data) PROVE pbuff[i] \in Bytes
      <4>1. CASE i < write
        BY <3>1, <4>1, <1>t DEF BytesInPlace
      <4>2. CASE i >= write
        <5>1. i - write + 1 \in 1 .. Len(data) /\ write + (i - write + 1) - 1 = i
          BY <3>1, <4>2, <1>t DEF TypeOK
        <5>2. pbuff[i] = data[i - write + 1]
          BY <5>1, <1>8, <1>t DEF InPublish, WGoto, BytesInPlace
        <5> QED BY <5>1, <5>2, <1>t, ElementOfSeq DEF TypeOK
      <4> QED BY <3>1, <4>1, <4>2, <1>t DEF TypeOK
    <3> QED BY <1>8, <3>1 DEF InPublish, WGoto, BytesInPlace
  <2> QED BY <2>1, <2>2, <2>3, <2>4, <2>5 DEF StreamInv
<1>9. ASSUME Clear PROVE StreamInv'
  <2>1. TypeOK'
    BY <1>9, <1>t DEF Clear, WGoto, TypeOK
  <2>2. CopyFits'
    BY <1>9, <1>t DEF Clear, WGoto, CopyFits
  <2>3. RoomIsMade'
    BY <1>9, <1>t DEF Clear, WGoto, RoomIsMade
  <2>4. ReaderHolds'
    BY <1>9, <1>t DEF Clear, WGoto, ReaderHolds
  <2>5. BytesInPlace'
    BY <1>9, <1>t DEF Clear, WGoto, BytesInPlace
  <2> QED BY <2>1, <2>2, <2>3, <2>4, <2>5 DEF StreamInv
<1>10. ASSUME NEW r \in Readers, LockRead(r) PROVE StreamInv'
  <2>1. TypeOK'
    BY <1>10, <1>t DEF LockRead, RGoto, TypeOK
  <2>2. CopyFits'
    BY <1>10, <1>t DEF LockRead, RGoto, CopyFits
  <2>3. RoomIsMade'
    BY <1>10, <1>t DEF LockRead, RGoto, RoomIsMade
  <2>4. ReaderHolds'
    BY <1>10, <1>t DEF LockRead, RGoto, ReaderHolds
  <2>5. BytesInPlace'
    BY <1>10, <1>t DEF LockRead, RGoto, BytesInPlace
  <2> QED BY <2>1, <2>2, <2>3, <2>4, <2>5 DEF StreamInv
<1>11. ASSUME NEW r \in Readers, Look(r) PROVE StreamInv'
  <2>1. TypeOK'
    BY <1>11, <1>t DEF Look, RGoto, TypeOK, CopyFits
  <2>2. CopyFits'
    BY <1>11, <1>t DEF Look, RGoto, CopyFits
  <2>3. RoomIsMade'
    BY <1>11, <1>t DEF Look, RGoto, RoomIsMade
  <2>4. ReaderHolds'
    BY <1>11, <1>t DEF Look, RGoto, TypeOK, ReaderHolds
  <2>5. BytesInPlace'
    BY <1>11, <1>t DEF Look, RGoto, BytesInPlace
  <2> QED BY <2>1, <2>2, <2>3, <2>4, <2>5 DEF StreamInv
<1>12. ASSUME NEW r \in Readers, Out(r) PROVE StreamInv'
  <2>1. TypeOK'
    BY <1>12, <1>t DEF Out, RGoto, TypeOK
  <2>2. CopyFits'
    BY <1>12, <1>t DEF Out, RGoto, TypeOK, CopyFits, ReaderHolds
  <2>3. RoomIsMade'
    BY <1>12, <1>t DEF Out, RGoto, TypeOK, RoomIsMade
  <2>4. ReaderHolds'
    BY <1>12, <1>t DEF Out, RGoto, TypeOK, ReaderHolds
  <2>5. BytesInPlace'
    BY <1>12, <1>t DEF Out, RGoto, TypeOK, BytesInPlace
  <2> QED BY <2>1, <2>2, <2>3, <2>4, <2>5 DEF StreamInv
<1>13. ASSUME NEW r \in Readers, FreeRead(r) PROVE StreamInv'
  <2>1. TypeOK'
    BY <1>13, <1>t DEF FreeRead, RGoto, TypeOK
  <2>2. CopyFits'
    BY <1>13, <1>t DEF FreeRead, RGoto, CopyFits
  <2>3. RoomIsMade'
    BY <1>13, <1>t DEF FreeRead, RGoto, RoomIsMade
  <2>4. ReaderHolds'
    BY <1>13, <1>t DEF FreeRead, RGoto, TypeOK, ReaderHolds
  <2>5. BytesInPlace'
    BY <1>13, <1>t DEF FreeRead, RGoto, BytesInPlace
  <2> QED BY <2>1, <2>2, <2>3, <2>4, <2>5 DEF StreamInv
<1>14. CASE UNCHANGED vars
  BY <1>14, <1>t DEF vars, StreamInv, TypeOK, CopyFits, RoomIsMade, ReaderHolds, BytesInPlace
<1> QED BY <1>1, <1>2, <1>3, <1>4, <1>5, <1>6, <1>7, <1>8, <1>9, <1>10, <1>11, <1>12, <1>13,
       <1>14 DEF Next

\* Every variable keeps its type (TStream.h 141-143).
THEOREM TypeCorrect == Spec => []TypeOK
<1>1. StreamInv => TypeOK
  BY DEF StreamInv
<1> QED BY <1>1, StreamInit, StreamStep, PTL DEF Spec

\* The copy at the end of in() stays within the buffer, although the room was
\* measured without the lock (TStream.h 84-102).
THEOREM RoomForEveryCopy == Spec => []CopyFits
<1>1. StreamInv => CopyFits
  BY DEF StreamInv
<1> QED BY <1>1, StreamInit, StreamStep, PTL DEF Spec

------------------------------------------------------------------------------
(***************************************************************************)
(* The refinement.  The bytes of the stream are named by their distance    *)
(* from m_read, which moving them does not change; every other step either *)
(* leaves both ends and the bytes between them alone or is one step of the *)
(* abstract stream.                                                        *)
(***************************************************************************)
V == [r \in Readers |-> View(r)]

LEMMA ContentIsSeq ==
    ASSUME StreamInv
    PROVE  /\ Content \in Seq(Bytes) /\ Len(Content) = write - read
           /\ \A i \in 1 .. write - read : Content[i] = pbuff[read + i - 1]
<1>1. write - read \in Nat
  BY DEF StreamInv, TypeOK, CopyFits
<1>2. \A i \in 1 .. write - read : pbuff[read + i - 1] \in Bytes
  BY DEF StreamInv, TypeOK, BytesInPlace
<1> QED BY <1>1, <1>2 DEF Content

LEMMA ViewIsSeq ==
    ASSUME StreamInv, NEW r \in Readers, rpc[r] = "using"
    PROVE  View(r) \in Seq(Bytes) /\ Len(View(r)) = len[r] /\ View(r) # NoView
<1>1. len[r] \in Nat /\ start[r] = read /\ start[r] + len[r] <= write /\ read \in Nat
  BY DEF StreamInv, TypeOK, ReaderHolds
<1>2. \A i \in 1 .. len[r] : pbuff[start[r] + i - 1] \in Bytes
  BY <1>1 DEF StreamInv, TypeOK, BytesInPlace
<1>3. View(r) = [i \in 1 .. len[r] |-> pbuff[start[r] + i - 1]]
  BY DEF View
<1>4. View(r) \in Seq(Bytes) /\ Len(View(r)) = len[r]
  BY <1>1, <1>2, <1>3
<1> QED BY <1>4, NoneAssumption

\* While the lock is free no reader is shown anything.
LEMMA NobodyLooks ==
    ASSUME StreamInv, rlock = NoReader
    PROVE  \A r \in Readers : rpc[r] = "idle" /\ View(r) = NoView
BY NoneAssumption DEF StreamInv, ReaderHolds, View

LEMMA AbstractInit == Init => Abstract!Init
<1> SUFFICES ASSUME Init PROVE Abstract!Init
  OBVIOUS
<1>1. Content = <<>>
  BY DEF Init, Content
<1>2. \A r \in Readers : View(r) = NoView
  BY DEF Init, View
<1> QED BY <1>1, <1>2 DEF Init, Abstract!Init

LEMMA AbstractStep ==
    StreamInv /\ StreamInv' /\ [Next]_vars => [Abstract!Next]_(Abstract!vars)
<1> SUFFICES ASSUME StreamInv, StreamInv', [Next]_vars
             PROVE  [Abstract!Next]_(Abstract!vars)
  OBVIOUS
<1>t. TypeOK /\ CopyFits /\ ReaderHolds /\ BytesInPlace
  BY DEF StreamInv
<1> DEFINE Stutters == Content' = Content /\ V' = V /\ data' = data
<1>s. Stutters => UNCHANGED Abstract!vars
  BY DEF Abstract!vars, V
<1> USE DEF buffer, writer, reader
<1>1. ASSUME NEW n \in Sizes, CallIn(n) PROVE Abstract!CallIn
  <2>1. data = <<>> /\ data' \in Seq(Bytes)
    BY <1>1, <1>t, SizeAssumption DEF CallIn, WGoto, BytesInPlace
  <2>2. Content' = Content /\ V' = V
    BY <1>1 DEF CallIn, Content, V, View
  <2> QED BY <2>1, <2>2 DEF Abstract!CallIn, V
<1>2. ASSUME InFits \/ InCompacts \/ InGrows PROVE Stutters
  BY <1>2 DEF InFits, InCompacts, InGrows, Content, V, View
<1>3. ASSUME Compact \/ Grow PROVE Stutters
  <2>1. rlock = NoReader /\ UNCHANGED reader /\ data' = data
    BY <1>3 DEF Compact, Grow
  <2>2. V' = V
    <3>1. \A r \in Readers : rpc[r] = "idle" /\ rpc'[r] = "idle"
      BY <2>1, NobodyLooks
    <3> QED BY <3>1 DEF V, View
  <2>3. PICK n \in Nat : pbuff' = Moved(n) /\ write - read <= n
    BY <1>3, <1>t DEF Compact, Grow, WGoto, TypeOK, CopyFits, StreamInv, RoomIsMade
  <2>4. read' = 0 /\ write' = write - read
    BY <1>3 DEF Compact, Grow
  <2>5. ASSUME NEW i \in 1 .. write - read PROVE pbuff'[i - 1] = pbuff[read + i - 1]
    <3>1. i - 1 \in Int /\ 0 <= i - 1 /\ i - 1 < write - read
      BY <2>5, <1>t DEF TypeOK
    <3>2. Moved(n)[i - 1] = pbuff[read + (i - 1)]
      BY <3>1, <2>3, MovedBytes
    <3> QED BY <3>2, <2>3, <1>t DEF TypeOK
  <2>6. Content' = [i \in 1 .. write - read |-> pbuff'[i - 1]]
    BY <2>4, <1>t DEF Content, TypeOK
  <2>7. Content' = Content
    BY <2>5, <2>6 DEF Content
  <2> QED BY <2>1, <2>2, <2>7
<1>4. ASSUME InCopy PROVE Stutters
  <2>1. ASSUME NEW i \in Int, 0 <= i, i < write PROVE pbuff'[i] = pbuff[i]
    <3>1. i \in DOMAIN pbuff /\ i - write + 1 \notin DOMAIN data
      BY <2>1, <1>t DEF TypeOK, CopyFits
    <3> QED BY <1>4, <3>1 DEF InCopy
  <2>2. Content' = Content
    <3>1. \A i \in 1 .. write - read : pbuff'[read + i - 1] = pbuff[read + i - 1]
      BY <2>1, <1>t DEF TypeOK, CopyFits
    <3> QED BY <1>4, <3>1 DEF InCopy, Content
  <2>3. ASSUME NEW r \in Readers PROVE View(r)' = View(r)
    <3>1. CASE rpc[r] = "using"
      <4>1. \A i \in 1 .. len[r] : pbuff'[start[r] + i - 1] = pbuff[start[r] + i - 1]
        BY <2>1, <3>1, <1>t DEF TypeOK, ReaderHolds
      <4> QED BY <1>4, <3>1, <4>1 DEF InCopy, View
    <3>2. CASE rpc[r] # "using"
      BY <1>4, <3>2 DEF InCopy, View
    <3> QED BY <3>1, <3>2
  <2> QED BY <1>4, <2>2, <2>3 DEF InCopy, V
<1>5. ASSUME InPublish PROVE Abstract!In
  <2>1. V' = V /\ data' = <<>>
    BY <1>5 DEF InPublish, V, View
  <2>2. /\ Content \in Seq(Bytes) /\ Len(Content) = write - read
        /\ \A i \in 1 .. write - read : Content[i] = pbuff[read + i - 1]
    BY ContentIsSeq
  <2>3. /\ Content' \in Seq(Bytes) /\ Len(Content') = write + Len(data) - read
        /\ \A i \in 1 .. write + Len(data) - read : Content'[i] = pbuff[read + i - 1]
    BY <1>5, <1>t DEF InPublish, Content, StreamInv, TypeOK, CopyFits, BytesInPlace
  <2>4. Content' = Content \o data
    <3>1. /\ Content \o data \in Seq(Bytes)
          /\ Len(Content \o data) = write - read + Len(data)
          /\ \A i \in 1 .. write - read + Len(data) :
                (Content \o data)[i] = IF i <= write - read THEN Content[i]
                                       ELSE data[i - (write - read)]
      <4>1. data \in Seq(Bytes)
        BY <1>t DEF TypeOK
      <4>2. /\ Content \o data \in Seq(Bytes)
            /\ Len(Content \o data) = Len(Content) + Len(data)
            /\ \A i \in 1 .. Len(Content) + Len(data) :
                  (Content \o data)[i] = IF i <= Len(Content) THEN Content[i]
                                         ELSE data[i - Len(Content)]
        BY <2>2, <4>1, ConcatProperties
      <4> QED BY <2>2, <4>2
    <3>2. ASSUME NEW i \in 1 .. write + Len(data) - read
          PROVE  Content'[i] = IF i <= write - read THEN Content[i]
                               ELSE data[i - (write - read)]
      <4>1. Content'[i] = pbuff[read + i - 1]
        BY <2>3
      <4>2. CASE i <= write - read
        BY <2>2, <4>1, <4>2, <1>t DEF TypeOK
      <4>3. CASE i > write - read
        <5>1. /\ i - (write - read) \in 1 .. Len(data)
              /\ write + (i - (write - read)) - 1 = read + i - 1
          BY <4>3, <1>t DEF TypeOK
        <5>2. pbuff[write + (i - (write - read)) - 1] = data[i - (write - read)]
          BY <1>5, <1>t, <5>1 DEF InPublish, WGoto, BytesInPlace
        <5>3. ~(i <= write - read)
          BY <4>3, <1>t DEF TypeOK
        <5> QED BY <4>1, <5>1, <5>2, <5>3
      <4> QED BY <4>2, <4>3, <1>t DEF TypeOK
    <3>3. write + Len(data) - read = write - read + Len(data)
      BY <1>t DEF TypeOK
    <3>4. \A i \in 1 .. Len(Content') : Content'[i] = (Content \o data)[i]
      BY <2>3, <3>1, <3>2, <3>3
    <3> QED BY <2>3, <3>1, <3>3, <3>4, SeqEqual
  <2> QED BY <2>1, <2>4 DEF Abstract!In, V
<1>6. ASSUME Clear PROVE Abstract!Clear
  <2>1. Content' = <<>>
    BY <1>6 DEF Clear, Content
  <2>2. V' = V /\ \A r \in Readers : View(r) = NoView
    BY <1>6 DEF Clear, V, View
  <2>3. data = <<>> /\ data' = data
    BY <1>6, <1>t DEF Clear, BytesInPlace
  <2> QED BY <2>1, <2>2, <2>3 DEF Abstract!Clear, V
<1>7. ASSUME NEW r \in Readers, LockRead(r) \/ FreeRead(r) PROVE Stutters
  <2>1. \A q \in Readers : View(q)' = View(q)
    BY <1>7, <1>t DEF LockRead, FreeRead, RGoto, View, TypeOK
  <2> QED BY <1>7, <2>1 DEF LockRead, FreeRead, Content, V
<1>8. ASSUME NEW r \in Readers, Look(r) PROVE Abstract!Show(r)
  <2>1. \A q \in Readers : View(q) = NoView
    BY <1>8, <1>t DEF Look, RGoto, ReaderHolds, View
  <2>2. View(r)' = Content
    BY <1>8, <1>t DEF Look, RGoto, View, Content, TypeOK
  <2>3. \A q \in Readers \ {r} : View(q)' = View(q)
    BY <1>8, <1>t DEF Look, RGoto, View, TypeOK
  <2>4. V' = [V EXCEPT ![r] = Content]
    BY <2>2, <2>3 DEF V
  <2>5. Content' = Content /\ data' = data
    BY <1>8 DEF Look, Content
  <2> QED BY <2>1, <2>4, <2>5 DEF Abstract!Show, V
<1>9. ASSUME NEW r \in Readers, Out(r) PROVE Abstract!Out(r)
  <2>1. rpc[r] = "using"
    BY <1>9 DEF Out, RGoto
  <2>2. View(r) # NoView /\ Len(View(r)) = len[r]
    BY <2>1, ViewIsSeq
  <2>3. View(r)' = NoView
    BY <1>9, <1>t DEF Out, RGoto, View, TypeOK
  <2>4. \A q \in Readers \ {r} : View(q)' = View(q)
    BY <1>9, <1>t DEF Out, RGoto, View, TypeOK
  <2>5. V' = [V EXCEPT ![r] = NoView]
    BY <2>3, <2>4 DEF V
  <2>6. \E n \in 0 .. len[r] : Content' = SubSeq(Content, n + 1, Len(Content))
    <3>1. PICK n \in 0 .. len[r] : read' = read + n /\ UNCHANGED <<write, pbuff>>
      BY <1>9 DEF Out
    <3>2. /\ Content \in Seq(Bytes) /\ Len(Content) = write - read
          /\ \A i \in 1 .. write - read : Content[i] = pbuff[read + i - 1]
      BY ContentIsSeq
    <3>3. n \in Nat /\ n <= write - read /\ write - read \in Nat
      BY <2>1, <3>1, <1>t DEF TypeOK, ReaderHolds, CopyFits
    <3>4. Content' = [i \in 1 .. write - read - n |-> pbuff[read + n + i - 1]]
      BY <3>1, <3>3, <1>t DEF Content, TypeOK
    <3>5. SubSeq(Content, n + 1, Len(Content))
             = [i \in 1 .. write - read - n |-> Content[n + i]]
      BY <3>2, <3>3
    <3>6. \A i \in 1 .. write - read - n : Content[n + i] = pbuff[read + n + i - 1]
      BY <3>2, <3>3, <1>t DEF TypeOK
    <3> QED BY <3>4, <3>5, <3>6
  <2>7. data' = data
    BY <1>9 DEF Out
  <2> QED BY <2>2, <2>5, <2>6, <2>7 DEF Abstract!Out, V
<1>10. ASSUME UNCHANGED vars PROVE Stutters
  BY <1>10 DEF vars, Content, V, View
<1> HIDE DEF Stutters
<1> QED
  BY <1>s, <1>1, <1>2, <1>3, <1>4, <1>5, <1>6, <1>7, <1>8, <1>9, <1>10
  DEF Next, Abstract!Next

\* For every buffer size and unit of growth, what the readers of a stream get
\* is what its writer put in, in that order, and it does not change under
\* their hands (TStream.h 65-135).
THEOREM Refinement == Spec => ImplementsByteStream
<1> QED BY StreamInit, StreamStep, AbstractInit, AbstractStep, PTL
  DEF Spec, ImplementsByteStream, Abstract!Spec
=============================================================================
