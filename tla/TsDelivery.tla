------------------------------ MODULE TsDelivery ------------------------------
(* What a transmit time stamp FIFO promises its application, whichever driver  *)
(* reads it: a stamp that the hardware captured waits until it is handed out,  *)
(* it is handed out once, and nothing is handed out that was not captured.     *)
(* The order is not promised: Lan8814TsFifo runs callbacks outside its lock.   *)
(* A stamp that finds the FIFO full is gone at once; whether one that waits    *)
(* can still be thrown away depends on the driver.                             *)

EXTENDS Naturals, Sequences, SequencesExt, Functions

CONSTANTS
    Stamps,       \* the stamps that frames can produce
    MayDiscard    \* may the driver throw away a stamp that is in the FIFO?

VARIABLES
    taken,        \* the stamps taken so far
    waiting,      \* those that can still be handed out
    out           \* what the application got, in the order it got them

vars == <<taken, waiting, out>>

Init == taken = {} /\ waiting = {} /\ out = <<>>

\* A frame is stamped; the stamp finds room, or it does not.
Capture ==
    \E s \in Stamps \ taken :
        /\ taken' = taken \union {s}
        /\ waiting' \in {waiting \union {s}, waiting}
        /\ out' = out

\* A call hands out one stamp, or a list of them.
Give ==
    LET list == SubSeq(out', Len(out) + 1, Len(out'))
    IN  /\ out' \in Seq(Stamps) /\ out' = out \o list
        /\ IsInjective(list)
        /\ ToSet(list) \subseteq waiting
        /\ waiting' = waiting \ ToSet(list)
        /\ taken' = taken

Discard ==
    /\ MayDiscard
    /\ waiting' \subseteq waiting
    /\ UNCHANGED <<taken, out>>

Next == Capture \/ Give \/ Discard

Spec == Init /\ [][Next]_vars

-----------------------------------------------------------------------------
\* What the application may rely on: no stamp twice, and none that was never
\* captured or that can still be handed out.
HandedOutOnce == IsInjective(out) /\ ToSet(out) \subseteq taken \ waiting

===============================================================================
