------------------------------- MODULE ByteStream -------------------------------
(***************************************************************************)
(* What a TStream promises: a sequence of bytes, written at one end by one *)
(* thread and consumed at the other by readers that take turns.  A reader  *)
(* is shown all bytes there are; what it is shown stays as it is until it  *)
(* has told how many of them it has consumed.                              *)
(***************************************************************************)
EXTENDS Naturals, Sequences

CONSTANTS Bytes, Readers, NoView

VARIABLES content,  \* written and not consumed
          arg,      \* what the writer is adding
          view      \* view[r]: what reader r is being shown

vars == <<content, arg, view>>

Init == content = <<>> /\ arg = <<>> /\ view = [r \in Readers |-> NoView]

CallIn == /\ arg = <<>> /\ arg' \in Seq(Bytes)
          /\ UNCHANGED <<content, view>>

In == /\ content' = content \o arg
      /\ arg' = <<>>
      /\ UNCHANGED view

Show(r) == /\ \A q \in Readers : view[q] = NoView
           /\ view' = [view EXCEPT ![r] = content]
           /\ UNCHANGED <<content, arg>>

Out(r) == /\ view[r] # NoView
          /\ \E n \in 0 .. Len(view[r]) :
                content' = SubSeq(content, n + 1, Len(content))
          /\ view' = [view EXCEPT ![r] = NoView]
          /\ UNCHANGED arg

Clear == /\ arg = <<>> /\ \A r \in Readers : view[r] = NoView
         /\ content' = <<>>
         /\ UNCHANGED <<arg, view>>

Next == CallIn \/ In \/ Clear \/ \E r \in Readers : Show(r) \/ Out(r)

Spec == Init /\ [][Next]_vars
=============================================================================
