------------------------- MODULE BatteryGuardProofs -------------------------
(***************************************************************************)
(* Theorems about the battery guard, for every battery level, every        *)
(* setting and every pair of intervals.                                    *)
(***************************************************************************)
EXTENDS BatteryGuard, TLAPS

(* Stamps are ages: what the arithmetic below needs of the types.          *)
AgesOK == readAge \in Nat /\ lowAge \in Nat /\ pollAge \in Nat

LEMMA Intervals ==
  /\ PollInterval \in Nat \ {0} /\ LowPoll \in Nat \ {0}
  /\ MaxAge \in Nat /\ Never \in Nat
  /\ MaxAge = LowPoll + LowPoll /\ Never = MaxAge + PollInterval
  /\ MaxSilences \in Nat /\ MaxConfigs \in Nat
<1>1. PollInterval \in Nat \ {0} /\ LowPoll \in Nat \ {0}
  BY GuardAssumption
<1>2. MaxSilences \in Nat /\ MaxConfigs \in Nat
  BY GuardAssumption
<1> QED BY <1>1, <1>2 DEF MaxAge, Never

(* An age grows by a round, or has reached the point where it stays.       *)
LEMMA OlderAge ==
  ASSUME NEW a \in Nat
  PROVE  /\ Older(a) \in Nat
         /\ Older(a) <= a + 1
         /\ a + 1 <= Never => Older(a) = a + 1
         /\ a + 1 > Never => Older(a) = Never
  BY Intervals DEF Older, Smaller

LEMMA AgesCorrect == Spec => [](AgesOK /\ silences \in Nat /\ configs \in Nat)
<1> DEFINE Inv == AgesOK /\ silences \in Nat /\ configs \in Nat
<1>1. Init => Inv
  BY Intervals DEF Init, AgesOK
<1>2. Inv /\ [Next]_vars => Inv'
  <2> SUFFICES ASSUME Inv, [Next]_vars
               PROVE  Inv'
    OBVIOUS
  <2> USE DEF AgesOK
  <2>1. Older(readAge) \in Nat /\ Older(lowAge) \in Nat /\ Older(pollAge) \in Nat
    BY OlderAge
  <2>2. CASE Round
    <3>1. configs' = configs
      BY <2>2 DEF Round, EarlyRound, FullRound, LowRound, SkippedLowRound
    <3>2. pollAge' \in Nat /\ lowAge' \in Nat
      BY <2>1, <2>2 DEF Round, EarlyRound, FullRound, LowRound, SkippedLowRound
    <3>3. Asked \/ NotAsked
      BY <2>2 DEF Round, EarlyRound, FullRound, LowRound, SkippedLowRound
    <3>4. readAge' \in Nat /\ silences' \in Nat
      <4>1. CASE NotAsked
        BY <2>1, <4>1 DEF NotAsked
      <4>2. CASE Update(charge) /\ UNCHANGED silences
        BY <4>2 DEF Update
      <4>3. CASE readAge' = Older(readAge) /\ silences' = silences + 1
        BY <2>1, <4>3
      <4> QED BY <3>3, <4>1, <4>2, <4>3 DEF Asked
    <3> QED BY <3>1, <3>2, <3>4
  <2>3. CASE ChargeChanges
    BY <2>3 DEF ChargeChanges, ages
  <2>4. ASSUME NEW s \in Settings, Configure(s)
        PROVE  Inv'
    BY <2>4 DEF Configure, ages
  <2>5. CASE UNCHANGED vars
    BY <2>5 DEF vars, ages
  <2> QED BY <2>2, <2>3, <2>4, <2>5 DEF Next
<1> QED
  BY <1>1, <1>2, PTL DEF Spec

(* A camera that answered its last read and is asked at least once per     *)
(* maximum age never loses its level, whatever it was allowed to do in     *)
(* between, and however many reads it left unanswered before.              *)
THEOREM FreshnessHolds ==
  ASSUME PollInterval <= MaxAge + 1
  PROVE  Spec => [](ReadingsFit /\ LevelStaysFresh)
<1> DEFINE Types == AgesOK /\ silences \in Nat /\ configs \in Nat
<1>1. Init => ReadingsFit
  BY DEF Init, ReadingsFit
<1>2. Types /\ ReadingsFit /\ [Next]_vars => ReadingsFit'
  <2> SUFFICES ASSUME Types, ReadingsFit, [Next]_vars
               PROVE  ReadingsFit'
    OBVIOUS
  <2> USE DEF ReadingsFit, AgesOK
  <2>1. Asked => readAge' = 0 \/ ~answered'
    BY DEF Asked, Update
  <2>2. CASE EarlyRound
    (* No session: every age grows, and the poll age does not saturate.    *)
    <3>1. /\ level' = level
          /\ readAge' = Older(readAge)
          /\ lowAge' = Older(lowAge)
          /\ pollAge' = Older(pollAge)
          /\ pollAge + 1 < PollInterval
      BY <2>2, Intervals DEF EarlyRound, NotAsked, PollDue
    <3> SUFFICES ASSUME answered
                 PROVE  ReadingsFit'
      BY <2>2 DEF EarlyRound, NotAsked, history
    <3>2. pollAge' = pollAge + 1
      BY <3>1, OlderAge, Intervals
    <3>3. ASSUME level # NoLevel
          PROVE  readAge' <= lowAge'
      BY <3>1, <3>3, OlderAge, Intervals
    <3>4. ASSUME level # NoLevel, readAge = pollAge
          PROVE  readAge' = pollAge'
      BY <3>1, <3>4
    <3>5. ASSUME level # NoLevel, PollInterval < LowPoll,
                 readAge < LowPoll + pollAge
          PROVE  readAge' < LowPoll + pollAge'
      BY <3>1, <3>2, <3>5, OlderAge, Intervals
    <3> QED BY <3>1, <3>2, <3>3, <3>4, <3>5
  <2>3. CASE FullRound
    <3> SUFFICES ASSUME answered'
                 PROVE  ReadingsFit'
      OBVIOUS
    <3>1. readAge' = 0 /\ pollAge' = 0 /\ lowAge' \in Nat
      BY <2>1, <2>3, OlderAge DEF FullRound
    <3> QED BY <3>1, Intervals
  <2>4. CASE LowRound
    <3> SUFFICES ASSUME answered'
                 PROVE  ReadingsFit'
      OBVIOUS
    <3>1. readAge' = 0 /\ pollAge' = 0 /\ lowAge' = 0
      BY <2>1, <2>4 DEF LowRound
    <3> QED BY <3>1, Intervals
  <2>5. CASE SkippedLowRound
    (* The pulse is not due, so the last session is recent; and it is a    *)
    (* later one than the last poll only when polls are the closer ones.   *)
    <3>1. /\ level' = level
          /\ readAge' = Older(readAge)
          /\ lowAge' = Older(lowAge)
          /\ pollAge' = 0
          /\ pollAge + 1 >= PollInterval
          /\ lowAge + 1 < LowPoll
      BY <2>5, Intervals
      DEF SkippedLowRound, NotAsked, PollDue, LowPollDue
    <3> SUFFICES ASSUME answered
                 PROVE  ReadingsFit'
      BY <2>5 DEF SkippedLowRound, NotAsked, history
    <3>2. ASSUME level # NoLevel
          PROVE  readAge' <= lowAge' /\ readAge' < LowPoll
      BY <3>1, <3>2, OlderAge, Intervals
    <3>3. ASSUME level # NoLevel
          PROVE  PollInterval < LowPoll
      BY <3>1, <3>3, Intervals
    <3> QED BY <3>1, <3>2, <3>3, Intervals
  <2>6. CASE ChargeChanges
    BY <2>6 DEF ChargeChanges, ages, history
  <2>7. ASSUME NEW s \in Settings, Configure(s)
        PROVE  ReadingsFit'
    BY <2>7 DEF Configure, ages
  <2>8. CASE UNCHANGED vars
    BY <2>8 DEF vars, ages, history
  <2> QED
    BY <2>2, <2>3, <2>4, <2>5, <2>6, <2>7, <2>8 DEF Next, Round
<1>3. Types /\ ReadingsFit => LevelStaysFresh
  BY Intervals DEF AgesOK, ReadingsFit, LevelStaysFresh
<1> QED
  BY <1>1, <1>2, <1>3, AgesCorrect, PTL DEF Spec

---------------------------------------------------------------------------
(* The bands follow the last reading the present thresholds judged.        *)
BandsFollow ==
  judged =>
    /\ level < thresholds.pauseRefresh => recovering
    /\ level < thresholds.stopAll => blocked

(* No reading below a threshold is ignored: for every level, every pair of *)
(* thresholds, every history of the bands and any number of changes of the *)
(* settings.                                                               *)
THEOREM DrainNeverIgnoredHolds == Spec => []DrainNeverIgnored
<1> DEFINE Types == AgesOK /\ silences \in Nat /\ configs \in Nat
<1>1. Init => BandsFollow
  BY DEF Init, BandsFollow
<1>2. Types /\ BandsFollow /\ [Next]_vars => BandsFollow'
  <2> SUFFICES ASSUME Types, BandsFollow, [Next]_vars
               PROVE  BandsFollow'
    OBVIOUS
  <2> USE DEF BandsFollow
  <2>1. CASE Round
    <3>1. thresholds' = thresholds
      BY <2>1 DEF Round, EarlyRound, FullRound, LowRound, SkippedLowRound
    <3>2. CASE NotAsked
      BY <3>1, <3>2 DEF NotAsked, bands, history
    <3>3. CASE Asked
      BY <3>1, <3>3 DEF Asked, Update, bands
    <3> QED
      BY <2>1, <3>2, <3>3
      DEF Round, EarlyRound, FullRound, LowRound, SkippedLowRound
  <2>2. CASE ChargeChanges
    BY <2>2 DEF ChargeChanges, bands, history
  <2>3. ASSUME NEW s \in Settings, Configure(s)
        PROVE  BandsFollow'
    BY <2>3 DEF Configure
  <2>4. CASE UNCHANGED vars
    BY <2>4 DEF vars, bands, history
  <2> QED BY <2>1, <2>2, <2>3, <2>4 DEF Next
<1>3. BandsFollow => DrainNeverIgnored
  BY DEF BandsFollow, DrainNeverIgnored, policy, PolicyFor, FreshLevel
<1> QED
  BY <1>1, <1>2, <1>3, AgesCorrect, PTL DEF Spec

---------------------------------------------------------------------------
(* Types.                                                                  *)
ThresholdTypes ==
  /\ thresholds \in [pauseRefresh : Percent, stopAll : Percent,
                     resume : Percent]
  /\ thresholds.stopAll <= thresholds.pauseRefresh
  /\ thresholds.pauseRefresh <= thresholds.resume

BandTypes ==
  /\ charge \in Percent
  /\ level \in Percent \cup {NoLevel}
  /\ blocked \in BOOLEAN /\ recovering \in BOOLEAN /\ batteryCamera \in BOOLEAN
  /\ answered \in BOOLEAN /\ judged \in BOOLEAN

AgeTypes == readAge \in Age /\ lowAge \in Age /\ pollAge \in Age

(* Whatever is saved, the clamped thresholds are percentages in order.     *)
LEMMA ClampedFit ==
  ASSUME NEW s \in Settings
  PROVE  /\ Clamped(s) \in [pauseRefresh : Percent, stopAll : Percent,
                            resume : Percent]
         /\ Clamped(s).stopAll <= Clamped(s).pauseRefresh
         /\ Clamped(s).pauseRefresh <= Clamped(s).resume
<1>1. /\ s.pauseRefresh \in Int /\ s.stopAll \in Int /\ s.resume \in Int
  BY GuardAssumption
<1>2. ASSUME NEW v \in Int PROVE clampPercent(v) \in Percent
  BY DEF clampPercent, Smaller, Larger, Percent
<1>3. ASSUME NEW a \in Percent, NEW b \in Percent
      PROVE  /\ Smaller(a, b) \in Percent /\ Smaller(a, b) <= b
             /\ Larger(a, b) \in Percent /\ b <= Larger(a, b)
  BY DEF Smaller, Larger, Percent
<1> QED
  BY <1>1, <1>2, <1>3 DEF Clamped

LEMMA OlderIsAge ==
  ASSUME NEW a \in Age
  PROVE  Older(a) \in Age
  BY Intervals, OlderAge DEF Age, Older, Smaller

(* TypeCorrect: ages and bands keep their types, and the thresholds stay   *)
(* percentages in order whatever is saved (batteryGuard.js,               *)
(* applyThresholds).                                                       *)
THEOREM TypeCorrect == Spec => []TypeOK
<1> DEFINE Types == ThresholdTypes /\ BandTypes /\ AgeTypes
<1>1. Init => Types
  <2> SUFFICES ASSUME Init PROVE Types
    OBVIOUS
  <2>1. ThresholdTypes
    BY ClampedFit DEF Init, ThresholdTypes
  <2>2. BandTypes
    BY GuardAssumption DEF Init, BandTypes
  <2>3. AgeTypes
    BY Intervals DEF Init, AgeTypes, Age
  <2> QED
    BY <2>1, <2>2, <2>3
<1>2. Types /\ [Next]_vars => Types'
  <2> SUFFICES ASSUME Types, [Next]_vars PROVE Types'
    OBVIOUS
  <2>1. CASE Round
    <3>1. ThresholdTypes'
      BY <2>1 DEF Round, EarlyRound, FullRound, LowRound, SkippedLowRound,
                  ThresholdTypes
    <3>2. charge' = charge /\ (Asked \/ NotAsked)
      BY <2>1 DEF Round, EarlyRound, FullRound, LowRound, SkippedLowRound
    <3>3. BandTypes'
      <4>1. CASE Update(charge)
        BY <3>2, <4>1 DEF Update, BandTypes
      <4>2. CASE /\ answered' = FALSE
                 /\ UNCHANGED <<level, bands, batteryCamera, judged>>
        BY <3>2, <4>2 DEF BandTypes, bands
      <4>3. CASE NotAsked
        BY <3>2, <4>3 DEF NotAsked, BandTypes, bands, history
      <4> QED
        BY <3>2, <4>1, <4>2, <4>3 DEF Asked
    <3>4. readAge' \in Age
      <4>1. CASE readAge' = 0
        BY <4>1, Intervals DEF Age
      <4>2. CASE readAge' = Older(readAge)
        BY <4>2, OlderIsAge DEF AgeTypes
      <4> QED
        BY <3>2, <4>1, <4>2 DEF Asked, NotAsked, Update
    <3>5. 0 \in Age /\ Older(lowAge) \in Age /\ Older(pollAge) \in Age
      BY Intervals, OlderIsAge DEF Age, AgeTypes
    <3>6. AgeTypes'
      BY <2>1, <3>4, <3>5 DEF Round, EarlyRound, FullRound, LowRound,
                              SkippedLowRound, AgeTypes
    <3> QED
      BY <3>1, <3>3, <3>6
  <2>2. CASE ChargeChanges
    BY <2>2, GuardAssumption DEF ChargeChanges, ThresholdTypes, BandTypes,
                                 AgeTypes, bands, ages, history
  <2>3. ASSUME NEW s \in Settings, Configure(s) PROVE Types'
    <3>1. ThresholdTypes'
      BY <2>3, ClampedFit DEF Configure, ThresholdTypes
    <3>2. BandTypes'
      BY <2>3 DEF Configure, BandTypes
    <3>3. AgeTypes'
      BY <2>3 DEF Configure, AgeTypes, ages
    <3> QED
      BY <3>1, <3>2, <3>3
  <2>4. CASE UNCHANGED vars
    BY <2>4 DEF vars, ThresholdTypes, BandTypes, AgeTypes, bands, ages, history
  <2> QED
    BY <2>1, <2>2, <2>3, <2>4 DEF Next
<1>3. Types /\ silences \in Nat /\ configs \in Nat => TypeOK
  BY DEF ThresholdTypes, BandTypes, AgeTypes, TypeOK
<1> QED
  BY <1>1, <1>2, <1>3, AgesCorrect, PTL DEF Spec

---------------------------------------------------------------------------
(* Only a camera that answered once is held back.                          *)
HeldWasRead == blocked \/ recovering => batteryCamera /\ level # NoLevel

(* A camera leaves the bands by a reading that earned it, or the blocked   *)
(* one by settings that no longer hold its level there; one that is held   *)
(* back is known to run on a battery, so its policy is never "full" for    *)
(* want of a level.                                                        *)
LEMMA BandsEarned ==
  ASSUME TypeOK, HeldWasRead, [Next]_vars
  PROVE  /\ HeldWasRead'
         /\ blocked /\ ~blocked' => level' >= thresholds'.stopAll + Hysteresis
         /\ recovering /\ ~recovering' => level' >= thresholds'.resume
<1> USE GuardAssumption DEF HeldWasRead
<1>1. /\ charge \in Percent /\ level \in Percent \cup {NoLevel}
      /\ thresholds.stopAll \in Percent /\ thresholds.resume \in Percent
      /\ blocked \in BOOLEAN /\ recovering \in BOOLEAN
  BY DEF TypeOK
<1>2. CASE Round
  <2>1. thresholds' = thresholds /\ (Asked \/ NotAsked)
    BY <1>2 DEF Round, EarlyRound, FullRound, LowRound, SkippedLowRound
  <2>2. CASE UNCHANGED <<level, bands, batteryCamera>>
    BY <2>2 DEF bands
  <2>3. CASE Update(charge)
    <3>1. /\ batteryCamera' = TRUE /\ level' = charge
          /\ ~blocked' => \/ ~blocked
                          \/ ~(charge < thresholds.stopAll + Hysteresis)
          /\ ~recovering' => ~recovering \/ ~(charge < thresholds.resume)
      BY <2>3 DEF Update
    <3> QED
      BY <1>1, <2>1, <3>1 DEF Percent
  <2> QED
    BY <2>1, <2>2, <2>3 DEF Asked, NotAsked
<1>3. CASE ChargeChanges \/ UNCHANGED vars
  BY <1>3 DEF ChargeChanges, bands, vars
<1>4. ASSUME NEW s \in Settings, Configure(s)
      PROVE  /\ HeldWasRead'
             /\ blocked /\ ~blocked'
                  => level' >= thresholds'.stopAll + Hysteresis
             /\ recovering /\ ~recovering' => level' >= thresholds'.resume
  <2>1. /\ thresholds' = Clamped(s) /\ UNCHANGED <<level, recovering, batteryCamera>>
        /\ blocked' <=> /\ blocked
                       /\ \/ level = NoLevel
                          \/ level < thresholds'.stopAll + Hysteresis
    BY <1>4 DEF Configure
  <2>2. thresholds'.stopAll \in Percent
    BY <2>1, ClampedFit
  <2> QED
    BY <1>1, <2>1, <2>2 DEF Percent
<1> QED
  BY <1>2, <1>3, <1>4 DEF Next

(* A camera held back is set free by a level that earned it, for every     *)
(* battery level, every pair of settings saved in between, and whatever    *)
(* reads went unanswered (batteryGuard.js, update, configure and           *)
(* capturePolicy).                                                         *)
THEOREM EarnedReleaseHolds == Spec => EarnedRelease
<1>1. Init => HeldWasRead
  BY DEF Init, HeldWasRead
<1>2. TypeOK /\ HeldWasRead /\ [Next]_vars => HeldWasRead'
  BY BandsEarned
<1>3. HeldWasRead' /\ recovering' /\ policy' = "full" => FALSE
  <2> SUFFICES ASSUME HeldWasRead', recovering', policy' = "full" PROVE FALSE
    OBVIOUS
  <2> QED
    BY DEF HeldWasRead, policy, PolicyFor, FreshLevel
<1>4. TypeOK /\ TypeOK' /\ HeldWasRead /\ [Next]_vars
      => [/\ blocked /\ ~blocked' => level' >= thresholds'.stopAll + Hysteresis
          /\ recovering /\ policy' = "full" => level' >= thresholds'.resume]_vars
  <2> SUFFICES ASSUME TypeOK, TypeOK', HeldWasRead, [Next]_vars
               PROVE  /\ blocked /\ ~blocked'
                           => level' >= thresholds'.stopAll + Hysteresis
                      /\ recovering /\ policy' = "full"
                           => level' >= thresholds'.resume
    OBVIOUS
  <2>1. recovering' \in BOOLEAN
    BY DEF TypeOK
  <2> QED
    BY BandsEarned, <1>3, <2>1
<1> QED
  BY <1>1, <1>2, <1>4, TypeCorrect, PTL DEF Spec, EarnedRelease
=============================================================================
