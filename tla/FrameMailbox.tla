---------------------------- MODULE FrameMailbox ----------------------------
(***************************************************************************)
(* What KinectDataSender promises the code that calls SendKinectData: a    *)
(* mailbox with room for one frame.  An accepted frame keeps the slot      *)
(* until the consumer is done with it or it is thrown away; a frame that   *)
(* arrives meanwhile is dropped at the door.  Frames are numbered in the   *)
(* order in which they are accepted.                                       *)
(***************************************************************************)
EXTENDS Naturals, Sequences

VARIABLES slot,      \* number of the frame in the slot, 0 when it is free
          taken,     \* the frame the consumer is working on, 0 for none
          accepted,  \* how many frames were accepted so far
          handed     \* the frames given to the HTTP layer, in order

vars == <<slot, taken, accepted, handed>>

Init == slot = 0 /\ taken = 0 /\ accepted = 0 /\ handed = <<>>

Accept == /\ slot = 0 /\ taken = 0
          /\ accepted' = accepted + 1
          /\ slot' = accepted'
          /\ UNCHANGED <<taken, handed>>

\* A frame that was handed over is not taken again.
Take == /\ slot # 0 /\ taken = 0
        /\ \A i \in DOMAIN handed : handed[i] < slot
        /\ taken' = slot
        /\ UNCHANGED <<slot, accepted, handed>>

Hand == /\ taken # 0
        /\ handed' = Append(handed, taken)
        /\ taken' = 0
        /\ UNCHANGED <<slot, accepted>>

\* The frame is lost: no connection, no memory.
GiveUp == /\ taken # 0
          /\ taken' = 0
          /\ UNCHANGED <<slot, accepted, handed>>

\* The consumer is done, or the producer throws the frame away (Stop).
Release == /\ slot # 0
           /\ slot' = 0
           /\ UNCHANGED <<taken, accepted, handed>>

Next == Accept \/ Take \/ Hand \/ GiveUp \/ Release

Spec == Init /\ [][Next]_vars
=============================================================================
