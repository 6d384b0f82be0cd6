----------------------------- MODULE LinkEpisode -----------------------------
(***************************************************************************)
(* What the link rhythms promise the wearer (docs/ble-reconnect.md, "Link- *)
(* state haptics"), without saying how.                                    *)
(*                                                                         *)
(* A loss episode opens with one LINK LOST rhythm, is silent while it      *)
(* lasts, and closes with one LINK RESTORED rhythm, which comes only after *)
(* the link has been up without a break for the stability window.  Which   *)
(* losses open an episode is not decided here.                             *)
(***************************************************************************)
EXTENDS Naturals

CONSTANT LinkStable         \* HAPTIC_LINK_STABLE_MS, in ticks

VARIABLES
    announced,  \* the last rhythm of the link: "NONE", "LINK_LOST", "LINK_RESTORED"
    up,         \* the link is up
    upFor       \* for how many ticks without a break, up to the window

episodeVars == <<announced, up, upFor>>

OneMore(n) == IF n < LinkStable THEN n + 1 ELSE n

EpisodeInit ==
    /\ announced = "NONE"
    /\ ~up
    /\ upFor = 0

LinkDown ==
    /\ up
    /\ up' = FALSE
    /\ upFor' = 0
    /\ UNCHANGED announced

LinkUp ==
    /\ ~up
    /\ up' = TRUE
    /\ upFor' = 0
    /\ UNCHANGED announced

Hold ==
    /\ up
    /\ upFor' = OneMore(upFor)
    /\ UNCHANGED <<announced, up>>

AnnounceLost ==
    /\ announced # "LINK_LOST"
    /\ announced' = "LINK_LOST"
    /\ UNCHANGED <<up, upFor>>

\* The window ends with the tick that completes it.
AnnounceRestored ==
    /\ announced = "LINK_LOST"
    /\ up
    /\ upFor' = OneMore(upFor)
    /\ upFor' = LinkStable
    /\ announced' = "LINK_RESTORED"
    /\ UNCHANGED up

EpisodeNext == LinkDown \/ LinkUp \/ Hold \/ AnnounceLost \/ AnnounceRestored

EpisodeSpec == EpisodeInit /\ [][EpisodeNext]_episodeVars
=============================================================================
