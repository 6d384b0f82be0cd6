-------------------------- MODULE AlertScreen_proofs --------------------------
(***************************************************************************)
(* Theorems about AlertScreen, for any set of alerts, any holds and any    *)
(* times.                                                                  *)
(***************************************************************************)
EXTENDS AlertScreen, TLAPS

LEMMA RankIsNatural == \A alert \in Alerts : Rank(alert) \in Nat
<1> SUFFICES ASSUME NEW alert \in Alerts PROVE Rank(alert) \in Nat
  OBVIOUS
<1>1. getSeverityPriority[alert.riskLevel] \in 1..4
  BY AlertAssumption DEF getSeverityPriority, RiskLevels
<1>2. getThreatPriority[alert.threatType] \in 1..3
  BY AlertAssumption DEF getThreatPriority
<1>3. getBandPriority(alert.band) \in 0..3
  BY DEF getBandPriority
<1> QED BY <1>1, <1>2, <1>3 DEF Rank

LEMMA HoldIsNatural ==
    /\ \A alert \in Alerts : Hold(alert) \in Nat \ {0}
    /\ Hold(NoAlert) = 0
BY AlertAssumption, HoldAssumption DEF Hold, RiskLevels

LEMMA UpToBounds ==
    ASSUME NEW n \in Nat, NEW limit \in Nat
    PROVE  UpTo(n, limit) \in 0..limit
BY DEF UpTo

-----------------------------------------------------------------------------
(* The engine.                                                              *)

EngineTypeOK(e) ==
    /\ e \in Engine
    /\ e.acceptedFor <= Hold(e.current)

\* What the engine has seen does not outrank what it keeps.
Settled(e) ==
    e.incoming # NoAlert /\ ~e.fresh =>
        /\ e.current # NoAlert
        /\ Rank(e.current) >= Rank(e.incoming)

LEMMA TimeKeepsEngine ==
    ASSUME NEW e, EngineTypeOK(e)
    PROVE  LET passed == EngineTimePasses(e)
           IN  /\ EngineTypeOK(passed)
               /\ passed.incoming = e.incoming /\ passed.current = e.current
               /\ passed.fresh = e.fresh
               /\ passed.acceptedFor = UpTo(e.acceptedFor + 1, Hold(e.current))
<1>1. Hold(e.current) \in Nat
  BY HoldIsNatural DEF EngineTypeOK, Engine
<1>2. e \in Engine /\ e.acceptedFor + 1 \in Nat
  BY DEF EngineTypeOK, Engine
<1> DEFINE kept == UpTo(e.acceptedFor + 1, Hold(e.current))
<1>3. kept \in 0..Hold(e.current)
  BY <1>1, <1>2, UpToBounds
<1> DEFINE waiting == IF e.observed THEN 0 ELSE e.incomingFor + 1
<1>4. waiting \in Nat /\ kept \in Nat
  BY <1>1, <1>2, <1>3 DEF Engine
<1>5. EngineTimePasses(e) = [e EXCEPT !.acceptedFor = kept, !.incomingFor = waiting]
  BY DEF EngineTimePasses
<1> HIDE DEF kept, waiting
<1>6. EngineTimePasses(e) \in Engine
  BY <1>2, <1>5, <1>4 DEF Engine
<1>7. /\ EngineTimePasses(e).incoming = e.incoming
      /\ EngineTimePasses(e).current = e.current
      /\ EngineTimePasses(e).fresh = e.fresh
      /\ EngineTimePasses(e).acceptedFor = kept
  BY <1>2, <1>5 DEF Engine
<1>8. kept <= Hold(e.current)
  BY <1>1, <1>3
<1> QED BY <1>6, <1>7, <1>8 DEF EngineTypeOK, kept

\* Either the alert offered is taken, or nothing that is promised changes.
LEMMA UpdateKeepsOrTakes ==
    ASSUME NEW e, EngineTypeOK(e)
    PROVE  LET updated == updatePriorityAlert(e)
           IN  /\ updated \in Engine
               /\ updated.incoming = e.incoming
               /\ \/ /\ e.incoming # NoAlert /\ Accepts(e)
                     /\ updated.current = e.incoming /\ updated.acceptedFor = 0
                     /\ ~updated.fresh
                  \/ /\ e.incoming # NoAlert => ~Accepts(e) /\ ~updated.fresh
                     /\ updated.current = e.current
                     /\ updated.acceptedFor = e.acceptedFor
<1> DEFINE seen == Seen(e)
<1>1. /\ seen \in Engine
      /\ seen.incoming = e.incoming /\ seen.current = e.current
      /\ seen.acceptedFor = e.acceptedFor /\ ~seen.fresh
  BY DEF Seen, EngineTypeOK, Engine
<1>2. Accepts(seen) <=> Accepts(e)
  BY <1>1 DEF Accepts, hasPriorityHoldExpired
<1>3. CASE e.incoming = NoAlert
  BY <1>3 DEF updatePriorityAlert, EngineTypeOK
<1>4. CASE e.incoming # NoAlert /\ Accepts(e)
  BY <1>1, <1>2, <1>4 DEF updatePriorityAlert, acceptPriorityAlert, Engine
<1>5. CASE e.incoming # NoAlert /\ ~Accepts(e)
  BY <1>1, <1>2, <1>5 DEF updatePriorityAlert, Suppressed
<1> QED BY <1>3, <1>4, <1>5

LEMMA RefusedIsNoHigher ==
    ASSUME NEW e, EngineTypeOK(e), e.incoming # NoAlert, ~Accepts(e)
    PROVE  e.current # NoAlert /\ Rank(e.current) >= Rank(e.incoming)
<1>1. e.current # NoAlert /\ ~Higher(e.incoming, e.current)
  BY DEF Accepts
<1>2. Rank(e.current) \in Nat /\ Rank(e.incoming) \in Nat
  BY <1>1, RankIsNatural DEF EngineTypeOK, Engine
<1> QED BY <1>1, <1>2 DEF Higher

\* Whatever was waiting, after a look at it nothing higher is left waiting.
LEMMA UpdateSettles ==
    ASSUME NEW e, EngineTypeOK(e)
    PROVE  EngineTypeOK(updatePriorityAlert(e)) /\ Settled(updatePriorityAlert(e))
<1> DEFINE updated == updatePriorityAlert(e)
<1>1. updated \in Engine /\ updated.incoming = e.incoming
  BY UpdateKeepsOrTakes
<1>2. CASE /\ e.incoming # NoAlert
           /\ updated.current = e.incoming /\ updated.acceptedFor = 0
  <2>1. Hold(updated.current) \in Nat /\ Rank(updated.current) \in Nat
    BY <1>2, HoldIsNatural, RankIsNatural DEF EngineTypeOK, Engine
  <2> QED BY <1>1, <1>2, <2>1 DEF EngineTypeOK, Settled
<1>3. CASE /\ e.incoming # NoAlert => ~Accepts(e)
           /\ updated.current = e.current /\ updated.acceptedFor = e.acceptedFor
  BY <1>1, <1>3, RefusedIsNoHigher DEF EngineTypeOK, Settled
<1> QED BY <1>2, <1>3, UpdateKeepsOrTakes

LEMMA EngineStep ==
    ASSUME EngineTypeOK(engine), Settled(engine), [ScreenNext]_screenVars
    PROVE  EngineTypeOK(engine') /\ Settled(engine')
<1>1. CASE Notification
  BY <1>1 DEF Notification, Notified, EngineTypeOK, Settled, Engine
<1>2. CASE TimerTick
  <2> DEFINE updated == updatePriorityAlert(EngineTimePasses(engine))
  <2>1. EngineTypeOK(updated) /\ Settled(updated)
    BY TimeKeepsEngine, UpdateSettles
  <2>2. engine' = Synced(updated)
    BY <1>2 DEF TimerTick
  <2> QED BY <2>1, <2>2 DEF Synced, EngineTypeOK, Settled, Engine
<1>3. CASE OnUpdate
  <2> DEFINE updated == updatePriorityAlert(engine)
  <2>1. EngineTypeOK(updated) /\ Settled(updated)
    BY UpdateSettles
  <2>2. PICK first \in BOOLEAN : engine' = [updated EXCEPT !.changed = @ /\ ~first]
    BY <1>3 DEF OnUpdate
  <2> QED BY <2>1, <2>2 DEF EngineTypeOK, Settled, Engine
<1>4. CASE LinkRhythmPlays \/ UNCHANGED screenVars
  BY <1>4 DEF LinkRhythmPlays, screenVars
<1> QED BY <1>1, <1>2, <1>3, <1>4 DEF ScreenNext

LEMMA EngineInitially == ScreenInit => EngineTypeOK(engine) /\ Settled(engine)
BY HoldIsNatural DEF ScreenInit, InitialEngine, EngineTypeOK, Settled, Engine

LEMMA EngineHolds == ScreenSpec => [](EngineTypeOK(engine) /\ Settled(engine))
<1> DEFINE Inv == EngineTypeOK(engine) /\ Settled(engine)
<1>1. Inv /\ [ScreenNext]_screenVars => Inv'
  BY EngineStep
<1> QED BY EngineInitially, <1>1, PTL DEF ScreenSpec

\* Whatever arrives and however long it has been kept, an alert the engine has
\* looked at never waits behind a lower one (updatePriorityAlert).
THEOREM NoHigherAlertWaitsHolds == ScreenSpec => []NoHigherAlertWaits
<1>1. EngineTypeOK(engine) /\ Settled(engine) => NoHigherAlertWaits
  BY DEF Settled, NoHigherAlertWaits
<1> QED BY <1>1, EngineHolds, PTL

-----------------------------------------------------------------------------
(* The promises of AlertHold.                                               *)

\* Time that passes and a look at the alert that waits are one move, or nothing.
LEMMA TickMoves ==
    ASSUME EngineTypeOK(engine), TimerTick
    PROVE  Promise!Moves \/ UNCHANGED Promise!holdVars
<1> DEFINE passed == EngineTimePasses(engine)
           updated == updatePriorityAlert(passed)
<1>1. /\ EngineTypeOK(passed)
      /\ passed.incoming = engine.incoming /\ passed.current = engine.current
      /\ passed.acceptedFor = UpTo(engine.acceptedFor + 1, Hold(engine.current))
  BY TimeKeepsEngine
<1>2. /\ engine'.incoming = updated.incoming
      /\ engine'.current = updated.current
      /\ engine'.acceptedFor = updated.acceptedFor
  <2>1. updated \in Engine /\ engine' = Synced(updated)
    BY <1>1, UpdateKeepsOrTakes DEF TimerTick
  <2> QED BY <2>1 DEF Synced, Engine
<1>3. updated.incoming = engine.incoming
  BY <1>1, UpdateKeepsOrTakes
<1>4. Hold(engine.current) \in Nat /\ engine.acceptedFor \in Nat
  BY HoldIsNatural DEF EngineTypeOK, Engine
<1>5. CASE /\ updated.current = engine.current
           /\ updated.acceptedFor = passed.acceptedFor
  <2>1. CASE engine.acceptedFor < Hold(engine.current)
    <3>1. passed.acceptedFor = engine.acceptedFor + 1
      BY <1>1, <1>4, <2>1 DEF UpTo
    <3>2. engine.current # NoAlert
      BY <1>4, <2>1, HoldIsNatural
    <3> QED BY <1>2, <1>3, <1>5, <2>1, <3>1, <3>2 DEF Promise!Moves, Promise!Wait
  <2>2. CASE ~(engine.acceptedFor < Hold(engine.current))
    <3>1. passed.acceptedFor = engine.acceptedFor
      BY <1>1, <1>4, <2>2 DEF UpTo, EngineTypeOK
    <3> QED BY <1>2, <1>3, <1>5, <3>1 DEF Promise!holdVars
  <2> QED BY <2>1, <2>2
<1>6. CASE /\ engine.incoming # NoAlert /\ Accepts(passed)
           /\ updated.current = engine.incoming /\ updated.acceptedFor = 0
  <2>1. CASE hasPriorityHoldExpired(passed) /\ engine.current # NoAlert
    <3>1. engine.acceptedFor + 1 >= Hold(engine.current)
      BY <1>1, <1>4, <2>1 DEF hasPriorityHoldExpired, UpTo
    <3> QED BY <1>2, <1>3, <1>6, <2>1, <3>1
            DEF Promise!Moves, Promise!Replace, Promise!HoldEndsNow
  <2>2. CASE ~(hasPriorityHoldExpired(passed) /\ engine.current # NoAlert)
    <3>1. \/ engine.current = NoAlert
          \/ Higher(engine.incoming, engine.current)
          \/ ~Higher(engine.current, engine.incoming)
      BY <1>1, <1>6, <2>2 DEF Accepts
    <3> QED BY <1>2, <1>3, <1>6, <3>1 DEF Promise!Moves, Promise!Replace, Promise!MayReplace
  <2> QED BY <2>1, <2>2
<1> QED BY <1>1, <1>5, <1>6, UpdateKeepsOrTakes

LEMMA RedrawMoves ==
    ASSUME EngineTypeOK(engine), OnUpdate
    PROVE  Promise!Moves \/ UNCHANGED Promise!holdVars
<1> DEFINE updated == updatePriorityAlert(engine)
<1>1. PICK first \in BOOLEAN : engine' = [updated EXCEPT !.changed = @ /\ ~first]
  BY DEF OnUpdate
<1>2. updated \in Engine /\ updated.incoming = engine.incoming
  BY UpdateKeepsOrTakes
<1>3. /\ engine'.incoming = engine.incoming
      /\ engine'.current = updated.current
      /\ engine'.acceptedFor = updated.acceptedFor
  BY <1>1, <1>2 DEF Engine
<1>4. CASE updated.current = engine.current /\ updated.acceptedFor = engine.acceptedFor
  BY <1>3, <1>4 DEF Promise!holdVars
<1>5. CASE /\ engine.incoming # NoAlert /\ Accepts(engine)
           /\ updated.current = engine.incoming /\ updated.acceptedFor = 0
  BY <1>3, <1>5 DEF Accepts, hasPriorityHoldExpired, Promise!Moves, Promise!Replace,
                    Promise!MayReplace, Promise!HoldOver
<1> QED BY <1>4, <1>5, UpdateKeepsOrTakes

LEMMA StepKeepsPromise ==
    ASSUME EngineTypeOK(engine), [ScreenNext]_screenVars
    PROVE  [Promise!Offer \/ Promise!Moves]_(Promise!holdVars)
<1>1. CASE Notification
  <2>1. PICK alert \in Alerts \cup {NoAlert} : engine' = Notified(engine, alert)
    BY <1>1 DEF Notification
  <2> QED BY <2>1 DEF Notified, EngineTypeOK, Engine, Promise!Offer
<1>2. CASE LinkRhythmPlays \/ UNCHANGED screenVars
  BY <1>2 DEF LinkRhythmPlays, screenVars, Promise!holdVars
<1> QED BY <1>1, <1>2, TickMoves, RedrawMoves DEF ScreenNext

\* The safety half of PriorityIsHeld: an alert is only displaced by one that was
\* received and does not rank lower, or after its whole hold; nothing else ends
\* or restarts a hold (updatePriorityAlert, AlertHold).
THEOREM PriorityIsHeldSafely ==
    ScreenSpec => Promise!HoldInit /\ [][Promise!Offer \/ Promise!Moves]_(Promise!holdVars)
<1>1. ScreenInit => Promise!HoldInit
  BY DEF ScreenInit, InitialEngine, Promise!HoldInit
<1>2. /\ EngineTypeOK(engine) /\ Settled(engine)
      /\ [ScreenNext]_screenVars
      => [Promise!Offer \/ Promise!Moves]_(Promise!holdVars)
  BY StepKeepsPromise
<1> QED BY <1>1, <1>2, EngineHolds, PTL DEF ScreenSpec

-----------------------------------------------------------------------------
(* The view and the pulses.                                                 *)

LEMMA NoteKeepsType ==
    ASSUME NEW s \in Screen, NEW age \in Nat
    PROVE  noteValidAlert(s, age) \in Screen
<1> DEFINE valid == UpTo(age, Expired)
           cycle == UpTo(age, Cycle)
<1>1. valid \in 0..Expired /\ cycle \in 0..(2 * Cycle - 1)
  <2>1. Expired \in Nat
    BY ScreenAssumption DEF Expired
  <2>2. cycle \in 0..Cycle
    BY UpToBounds, ScreenAssumption
  <2>3. 0..Cycle \subseteq 0..(2 * Cycle - 1)
    BY ScreenAssumption
  <2> QED BY <2>1, <2>2, <2>3, UpToBounds
<1> HIDE DEF valid, cycle
<1>2. noteValidAlert(s, age) =
        IF s.session THEN [s EXCEPT !.validAge = valid]
        ELSE [s EXCEPT !.validAge = valid, !.session = TRUE, !.buzzed = FALSE,
                       !.cycleAge = cycle, !.display = s.latest]
  BY DEF noteValidAlert, valid, cycle
<1> QED BY <1>1, <1>2 DEF Screen

LEMMA SyncKeepsType ==
    ASSUME NEW s \in Screen, NEW e \in Engine
    PROVE  syncLiveBleAlert(s, e) \in Screen
<1> DEFINE noted == noteIncomingAlertActivity(s, e)
           stored == [noted EXCEPT !.latest = e.current]
<1>1. noted \in Screen
  BY NoteKeepsType DEF noteIncomingAlertActivity, Engine
<1>2. stored \in Screen
  BY <1>1 DEF Screen, Engine
<1>3. noteValidAlert(stored, 0) \in Screen
  BY <1>2, NoteKeepsType
<1> QED BY <1>1, <1>3 DEF syncLiveBleAlert

LEMMA TimeKeepsType ==
    ASSUME NEW s \in Screen
    PROVE  ScreenTimePasses(s) \in Screen
<1> DEFINE valid == UpTo(s.validAge + 1, Expired)
           cycle == IF ~s.session THEN 0
                    ELSE IF s.cycleAge + 1 = 2 * Cycle THEN Cycle ELSE s.cycleAge + 1
<1>1. valid \in 0..Expired
  <2>1. Expired \in Nat /\ s.validAge + 1 \in Nat
    BY ScreenAssumption DEF Expired, Screen
  <2> QED BY <2>1, UpToBounds
<1>2. cycle \in 0..(2 * Cycle - 1)
  BY ScreenAssumption DEF Screen
<1>3. ScreenTimePasses(s) = [s EXCEPT !.validAge = valid, !.cycleAge = cycle]
  BY DEF ScreenTimePasses
<1> HIDE DEF valid, cycle
<1> QED BY <1>1, <1>2, <1>3 DEF Screen

LEMMA RedrawKeepsType ==
    ASSUME NEW s \in Screen
    PROVE  updateDisplayCycle(updateRfSessionState(s)) \in Screen
<1>1. updateRfSessionState(s) \in Screen
  <2>1. 0 \in 0..(2 * Cycle - 1)
    BY ScreenAssumption
  <2> QED BY <2>1 DEF updateRfSessionState, Screen
<1>2. ASSUME NEW t \in Screen PROVE updateDisplayCycle(t) \in Screen
  <2>1. t.cycleAge >= Cycle => t.cycleAge - Cycle \in 0..(2 * Cycle - 1)
    BY ScreenAssumption DEF Screen
  <2>2. 0 \in 0..(2 * Cycle - 1)
    BY ScreenAssumption
  <2> QED BY <2>1, <2>2 DEF updateDisplayCycle, Screen
<1> QED BY <1>1, <1>2

LEMMA PulseKeepsType ==
    ASSUME NEW h \in Haptics, NEW alert \in Alerts, NEW played
    PROVE  triggerForAlert(h, alert, played) \in Haptics
<1>1. SeverityOf(alert) \in -1..3
  <2>1. getSeverityPriority[alert.riskLevel] \in 1..4
    BY AlertAssumption DEF getSeverityPriority, RiskLevels
  <2> QED BY <2>1 DEF SeverityOf
<1>2. getAlertKey(alert) \in AlertKeys /\ 0 \in 0..Repeat
  BY HapticAssumption DEF AlertKeys
<1>3. Remembered(h, alert) \in Haptics
  BY <1>1, <1>2 DEF Remembered, Haptics
<1> QED BY <1>3 DEF triggerForAlert

LEMMA RestKeepsType ==
    /\ ResetHaptics \in Haptics
    /\ \A h \in Haptics : HapticTimePasses(h) \in Haptics /\ LinkRhythm(h) \in Haptics
<1>1. ResetHaptics \in Haptics
  BY HapticAssumption DEF ResetHaptics, Haptics
<1>2. ASSUME NEW h \in Haptics PROVE HapticTimePasses(h) \in Haptics
  <2> DEFINE age == UpTo(h.age + 1, Repeat)
  <2>1. age \in 0..Repeat
    <3>1. h.age + 1 \in Nat
      BY HapticAssumption DEF Haptics
    <3> QED BY <3>1, HapticAssumption, UpToBounds
  <2>2. HapticTimePasses(h) = [h EXCEPT !.age = age, !.busy = FALSE]
    BY DEF HapticTimePasses
  <2> HIDE DEF age
  <2> QED BY <2>1, <2>2 DEF Haptics
<1>3. ASSUME NEW h \in Haptics PROVE LinkRhythm(h) \in Haptics
  BY DEF LinkRhythm, Haptics
<1> QED BY <1>1, <1>2, <1>3

ShownTypeOK ==
    /\ screen \in Screen
    /\ haptics \in Haptics
    /\ felt \in Alerts \cup {NoAlert}

LEMMA ShownStep ==
    ASSUME ShownTypeOK, EngineTypeOK(engine), [ScreenNext]_screenVars
    PROVE  ShownTypeOK'
<1> USE DEF ShownTypeOK
<1>1. CASE Notification \/ UNCHANGED screenVars
  BY <1>1 DEF Notification, screenVars
<1>2. CASE TimerTick
  <2>1. updatePriorityAlert(EngineTimePasses(engine)) \in Engine
    BY TimeKeepsEngine, UpdateKeepsOrTakes
  <2>2. screen' \in Screen
    BY <1>2, <2>1, TimeKeepsType, SyncKeepsType DEF TimerTick
  <2> QED BY <1>2, <2>2, RestKeepsType DEF TimerTick
<1>3. CASE OnUpdate
  <2> DEFINE updated == updatePriorityAlert(engine)
             first == screen.latest = NoAlert /\ updated.current # NoAlert
             stored == [screen EXCEPT !.latest = updated.current]
             begun == IF first THEN noteValidAlert(stored, 0) ELSE screen
             shown == updateDisplayCycle(updateRfSessionState(begun))
             rested == IF SessionExpires(begun) THEN ResetHaptics ELSE haptics
             buzzes == shown.session /\ shown.display # NoAlert /\ ~shown.buzzed
  <2>1. updated \in Engine
    BY UpdateKeepsOrTakes
  <2>2. stored \in Screen
    BY <2>1 DEF Screen, Engine
  <2>3. begun \in Screen
    BY <2>2, NoteKeepsType
  <2>4. shown \in Screen
    BY <2>3, RedrawKeepsType
  <2>5. rested \in Haptics
    BY RestKeepsType
  <2>6. PICK played \in Played :
          /\ screen' = [shown EXCEPT !.buzzed = @ \/ buzzes]
          /\ haptics' = IF buzzes THEN triggerForAlert(rested, shown.display, played) ELSE rested
          /\ felt' = IF buzzes /\ played /\ Pulses(rested, shown.display)
                     THEN shown.display ELSE felt
    BY <1>3 DEF OnUpdate
  <2>7. shown.display \in Alerts \cup {NoAlert}
    BY <2>4 DEF Screen
  <2> HIDE DEF shown, rested
  <2>8. screen' \in Screen
    BY <2>4, <2>6 DEF Screen
  <2>9. haptics' \in Haptics
    BY <2>5, <2>6, <2>7, PulseKeepsType
  <2>10. felt' \in Alerts \cup {NoAlert}
    BY <2>6, <2>7
  <2> QED BY <2>8, <2>9, <2>10
<1>4. CASE LinkRhythmPlays
  BY <1>4, RestKeepsType DEF LinkRhythmPlays
<1> QED BY <1>1, <1>2, <1>3, <1>4 DEF ScreenNext

LEMMA ShownInitially == ScreenInit => ShownTypeOK
BY ScreenAssumption, RestKeepsType DEF ScreenInit, InitialScreen, ShownTypeOK, Screen, Expired

\* Every field of the engine, the view and the vibrator keeps its type
\* (AlertEngine, SkyShieldView, VibrationEngine).
THEOREM ScreenTypeCorrect == ScreenSpec => []ScreenTypeOK
<1> DEFINE Inv == EngineTypeOK(engine) /\ Settled(engine) /\ ShownTypeOK
<1>1. ScreenInit => Inv
  BY EngineInitially, ShownInitially
<1>2. Inv /\ [ScreenNext]_screenVars => Inv'
  BY EngineStep, ShownStep
<1>3. Inv => ScreenTypeOK
  BY DEF EngineTypeOK, ShownTypeOK, ScreenTypeOK
<1> QED BY <1>1, <1>2, <1>3, PTL DEF ScreenSpec
=============================================================================
