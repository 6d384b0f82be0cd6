----------------------------- MODULE StaleAlerts -----------------------------
(***************************************************************************)
(* The alert screen with a history of what has been received since the     *)
(* last session ended, to say which alerts are stale.                      *)
(***************************************************************************)
EXTENDS AlertScreen

VARIABLE received   \* history: the alerts received since a session last ended

staleVars == <<screenVars, received>>

StaleInit == ScreenInit /\ received = {}

Ends == screen.session /\ ~screen'.session

StaleNext ==
    /\ ScreenNext
    /\ received' =
        (IF Ends THEN {} ELSE received)
            \cup (IF engine'.fresh \/ ~engine'.observed THEN {engine'.incoming} ELSE {})

StaleSpec == StaleInit /\ [][StaleNext]_staleVars

\* docs/garmin-ui.md:13: stale alerts are cleared when they expire.  What comes on
\* an empty screen has been received since the screen was cleared.
StaleAlertsStayCleared ==
    [][screen.display = NoAlert /\ screen'.display # NoAlert
            => screen'.display \in received']_staleVars
=============================================================================
