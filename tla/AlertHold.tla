------------------------------ MODULE AlertHold ------------------------------
(***************************************************************************)
(* What the priority engine of the watch promises of the alert it keeps,   *)
(* without saying how (AlertEngine.mc, updatePriorityAlert):               *)
(*                                                                         *)
(* what is kept has been received; a higher alert takes its place at once, *)
(* a lower one only when it has been kept for its hold; and nothing that   *)
(* may take its place waits for ever.                                      *)
(***************************************************************************)
EXTENDS Naturals

CONSTANTS
    Alerts,         \* the alerts there are
    NoAlert,
    Higher(_, _),   \* the first alert has the higher priority
    Hold(_)         \* for how many ticks an alert is kept

VARIABLES
    offered,        \* the last alert received, NoAlert if that could not be read
    kept,           \* the alert that is kept
    keptFor         \* for how many ticks, up to its hold

holdVars == <<offered, kept, keptFor>>

HoldInit == offered = NoAlert /\ kept = NoAlert /\ keptFor = 0

Offer == offered' \in Alerts \cup {NoAlert} /\ UNCHANGED <<kept, keptFor>>

HoldOver == keptFor >= Hold(kept)

\* Another alert of the same priority may take the place or not.
MayReplace ==
    /\ offered # NoAlert
    /\ \/ kept = NoAlert
       \/ Higher(offered, kept)
       \/ ~Higher(kept, offered)
       \/ HoldOver

\* It may be the tick that ends the hold.
Replace(mayReplace) ==
    /\ mayReplace
    /\ kept' = offered
    /\ keptFor' = 0
    /\ UNCHANGED offered

Wait ==
    /\ kept # NoAlert
    /\ keptFor < Hold(kept)
    /\ keptFor' = keptFor + 1
    /\ UNCHANGED <<offered, kept>>

HoldEndsNow ==
    /\ offered # NoAlert
    /\ kept # NoAlert
    /\ keptFor + 1 >= Hold(kept)

\* What must not wait for ever: the first alert, a higher one, a lower one
\* behind a hold that is over.
Promised ==
    /\ offered # NoAlert
    /\ \/ kept = NoAlert
       \/ Higher(offered, kept)
       \/ Higher(kept, offered) /\ HoldOver

Moves == Wait \/ Replace(MayReplace) \/ Replace(HoldEndsNow)

\* While time is left of a hold, or something promised waits, the engine moves.
KeepsMoving == (keptFor < Hold(kept) \/ Promised) /\ Moves

HoldSpec ==
    /\ HoldInit
    /\ [][Offer \/ Moves]_holdVars
    /\ WF_holdVars(KeepsMoving)
=============================================================================
