------------------------------ MODULE FrameLink ------------------------------
(***************************************************************************)
(* What a transport of CAN frames promises the CAN service: the frames     *)
(* that it took and that were not damaged come out as they went in, each   *)
(* once and in order, and nothing else comes out.                          *)
(***************************************************************************)
EXTENDS Naturals, Sequences

CONSTANTS Frames,     \* frames that can be sent
          None,       \* what a call of available() finds if there is no frame
          CountRange  \* values of a counter

VARIABLES link,       \* frames on their way
          got,        \* what the last call of available() found
          count       \* how many frames came out

Send(frame) == link' = Append(link, frame) /\ UNCHANGED <<got, count>>

Deliver ==
  /\ link # <<>>
  /\ got' = Head(link) /\ link' = Tail(link)
  /\ count' = (count + 1) % CountRange

Nothing == got' = None /\ UNCHANGED <<link, count>>

Init == link = <<>> /\ got = None /\ count = 0

Next == (\E frame \in Frames : Send(frame)) \/ Deliver \/ Nothing

Spec == Init /\ [][Next]_<<link, got, count>> /\ WF_<<link, got, count>>(Deliver)
=============================================================================
