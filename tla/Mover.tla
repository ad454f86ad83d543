------------------------------- MODULE Mover -------------------------------
(***************************************************************************)
(* What a DMA mover promises to the shell that starts it, with no word of  *)
(* bursts, pages or handshakes: a job of n words is begun once, its words  *)
(* pass one at a time and in order, and one done pulse ends it.  done and  *)
(* failed are what tiled_dma_shell reads of a mover.                       *)
(***************************************************************************)
EXTENDS Naturals

CONSTANTS
  JobSizes,      \* word counts a job may ask for
  StopsOnError   \* TRUE: nothing passes after a failure (reads);
                 \* FALSE: every word passes, failed or not (writes)

VARIABLES
  moving,        \* a job is in progress
  left,          \* words of the job that have not passed
  done,          \* completion pulse, high for one clock
  failed         \* the latest job met an error

vars == <<moving, left, done, failed>>

Init == moving = FALSE /\ left = 0 /\ done = FALSE /\ failed = FALSE

Begin ==
  /\ ~moving
  /\ left' \in JobSizes
  /\ moving' = (left' # 0)
  /\ done' = (left' = 0)
  /\ failed' = FALSE

Rest == ~moving /\ done' = FALSE /\ UNCHANGED <<moving, left, failed>>

(* One clock of a job.  It may end only when every word has passed, or, for *)
(* a mover that stops on error, when the job has failed.                    *)
Advance ==
  /\ moving
  /\ left' = left \/ left' + 1 = left
  /\ failed => failed'
  /\ StopsOnError /\ failed => left' = left
  /\ done' = ~moving'
  /\ ~moving' => left' = 0 \/ (StopsOnError /\ failed')

Next == Begin \/ Rest \/ Advance

Spec == Init /\ [][Next]_vars
FairSpec == Spec /\ WF_vars(moving /\ Advance /\ ~moving')
=============================================================================
