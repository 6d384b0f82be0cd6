----------------------------- MODULE LinkHaptics -----------------------------
(***************************************************************************)
(* The link half of garmin-app/source/VibrationEngine.mc: the LINK LOST    *)
(* and LINK RESTORED rhythms.  The threat half is a different part of the  *)
(* object and shares only _busyUntilMs with this one.                      *)
(*                                                                         *)
(* Operators take the record of the three fields and return it changed.    *)
(* stableFor is getTimer() - _linkStableSinceMs, up to the window.         *)
(***************************************************************************)
EXTENDS Naturals

CONSTANT LinkStable     \* HAPTIC_LINK_STABLE_MS, in ticks

ASSUME LinkStableAssumption == LinkStable \in Nat \ {0}

SystemEvents == {"NONE", "LINK_LOST", "LINK_RESTORED"}

Haptics == [
    lastSystemEvent: SystemEvents,
    linkRestorePending: BOOLEAN,
    stableFor: 0..LinkStable]

InitialHaptics ==
    [lastSystemEvent |-> "NONE", linkRestorePending |-> FALSE, stableFor |-> 0]

\* The event is recorded before it is played, and a repeat is suppressed; a
\* vibrate() that throws therefore leaves the same state as one that plays.
PlaySystemEvent(h, event) == [h EXCEPT !.lastSystemEvent = event]

TriggerLinkLost(h) == PlaySystemEvent(h, "LINK_LOST")

ArmLinkRestored(h) ==
    IF h.lastSystemEvent # "LINK_LOST" \/ h.linkRestorePending THEN h
    ELSE [h EXCEPT !.linkRestorePending = TRUE, !.stableFor = 0]

CancelLinkRestored(h) == [h EXCEPT !.linkRestorePending = FALSE, !.stableFor = 0]

\* Fault variant: the window ends whatever became of the link.
ServiceLinkRestoredBlindly(h, linkHealthy) ==
    IF ~h.linkRestorePending \/ h.stableFor < LinkStable THEN h
    ELSE PlaySystemEvent(CancelLinkRestored(h), "LINK_RESTORED")

ServiceLinkRestored(h, linkHealthy) ==
    IF ~h.linkRestorePending THEN h
    ELSE IF ~linkHealthy THEN CancelLinkRestored(h)
    ELSE IF h.stableFor < LinkStable THEN h
    ELSE PlaySystemEvent(CancelLinkRestored(h), "LINK_RESTORED")

\* The clock the window is measured with moves on.
HapticTimePasses(h) ==
    [h EXCEPT !.stableFor = IF h.linkRestorePending /\ @ < LinkStable THEN @ + 1 ELSE @]
=============================================================================
