-------------------------- MODULE LiveFeedsProofs --------------------------
(***************************************************************************)
(* For any tenors, any finite book of option legs and any bound on a scan  *)
(* below the healthcheck's: the type invariant of LiveFeeds, that the vol  *)
(* engine's heartbeat outlives its cycle, that greeks without a fallback   *)
(* leg rest on a recent scan, and that a scan uses the chains of its own   *)
(* session.  None of the three properties is inductive: the heartbeat is   *)
(* tied to the minutes left of the cycle, the age of the vols to what is   *)
(* left of their key and to the risk cycle in hand, that of the chains to  *)
(* the session.                                                            *)
(***************************************************************************)
EXTENDS LiveFeeds, FiniteSetTheorems, TLAPS

\* Once a cycle has begun the heartbeat outlives its deadline by
\* TTL_HEARTBEAT - CYCLE minutes, past the deadline too, and the cycle is at
\* most MAX_SCAN minutes old; asleep, some of the deadline is left.
BeatOutlivesCycle ==
  /\ vol.pc \in {"spot", "chains", "scan", "publish", "backoff", "wait"} /\ ~wiped =>
       beat >= vol.timer + (TTL_HEARTBEAT - CYCLE)
  /\ vol.pc \in {"spot", "chains", "scan", "publish", "backoff"} => CYCLE - vol.timer <= MAX_SCAN
  /\ vol.pc = "wait" => vol.timer >= 1

\* A surface gets older as its key runs out; the risk cycle that read one
\* keeps it for less than a minute, and the greeks live no longer.
VolsGetOld ==
  /\ surface.left > 0 => surface.age + surface.left <= MAX_SCAN + TTL_VOL_SURFACE
  /\ surface.left = 0 => surface.cells = {}
  /\ risk.pc = "priced" => /\ "risk" \in due
                           /\ risk.cells # {} => risk.age < MAX_SCAN + TTL_VOL_SURFACE
  /\ greeks.left > 0 => \/ greeks.age < MAX_SCAN + TTL_VOL_SURFACE
                        \/ greeks.fallback = Cardinality(Legs)

\* Chains from before a Gateway restart are still cached, by an engine that
\* has not reconnected since.
RolledChainsHaveNoSession == rolled => chains # "none" /\ "vol" \notin session

Inv ==
  /\ TypeOK
  /\ BeatOutlivesCycle
  /\ VolsGetOld
  /\ RolledChainsHaveNoSession

\* TypeOK in three parts, each with the actions that touch it.
ScalarTypes ==
  /\ ib \in BOOLEAN /\ redis \in BOOLEAN /\ rolled \in BOOLEAN
  /\ wiped \in BOOLEAN
  /\ session \subseteq Engines /\ down \subseteq Engines /\ due \subseteq {"md", "risk"}
  /\ quote \in (0..STALE) \cup {NoQuote} /\ spot \in 0..TTL_SPOT /\ beat \in 0..TTL_HEARTBEAT
  /\ chains \in {"none", "empty", "listed"}

KeyTypes ==
  /\ surface \in [cells : SUBSET Tenors, left : 0..TTL_VOL_SURFACE, age : 0..AGE_CAP]
  /\ greeks \in [fallback : 0..Cardinality(Legs), left : 0..TTL_GREEKS, age : 0..AGE_CAP]

LoopTypes ==
  /\ vol \in [pc : {"connect", "top", "spot", "chains", "scan", "publish", "backoff", "wait", "down"},
              cells : SUBSET Tenors, timer : (0 - MAX_SCAN)..CYCLE]
  /\ risk \in [pc : {"idle", "priced"}, cells : SUBSET Tenors, age : 0..AGE_CAP]

-----------------------------------------------------------------------------
\* The flag counts at most the legs, and all of them on an empty surface.
LEMMA FlagCount ==
  ASSUME NEW cells
  PROVE  /\ Cardinality(IvFallbackLegs(cells)) \in 0..Cardinality(Legs)
         /\ cells = {} => Cardinality(IvFallbackLegs(cells)) = Cardinality(Legs)
<1>1. IvFallbackLegs(cells) \in SUBSET Legs /\ (cells = {} => IvFallbackLegs(cells) = Legs)
  BY DEF IvFallbackLegs
<1>2. /\ IsFiniteSet(IvFallbackLegs(cells))
      /\ Cardinality(IvFallbackLegs(cells)) <= Cardinality(Legs)
  BY <1>1, FS_Subset, FeedsAssumption
<1>3. Cardinality(IvFallbackLegs(cells)) \in Nat /\ Cardinality(Legs) \in Nat
  BY <1>2, FS_CardinalityType, FeedsAssumption
<1>4. QED
  BY <1>1, <1>2, <1>3

\* A minute older, up to the cap.
LEMMA Older ==
  ASSUME NEW a \in 0..AGE_CAP
  PROVE  Least(a + 1, AGE_CAP) \in 0..AGE_CAP /\ Least(a + 1, AGE_CAP) <= a + 1
BY FeedsAssumption DEF Least, AGE_CAP, TTL_VOL_SURFACE

\* The surface VolPublish writes is as old as its cycle.
LEMMA SurfaceShape ==
  ASSUME TypeOK, BeatOutlivesCycle, vol.pc = "publish"
  PROVE  LET s == SurfaceSet(vol.cells) IN
         /\ s \in [cells : SUBSET Tenors, left : 0..TTL_VOL_SURFACE, age : 0..AGE_CAP]
         /\ s.left = TTL_VOL_SURFACE /\ s.left > 0 /\ s.age <= MAX_SCAN
<1>1. /\ vol.cells \in SUBSET Tenors /\ vol.timer \in Int /\ vol.timer <= CYCLE
      /\ CYCLE - vol.timer <= MAX_SCAN
  BY FeedsAssumption DEF TypeOK, BeatOutlivesCycle, CYCLE
<1>2. CYCLE - vol.timer \in 0..AGE_CAP
  BY <1>1, FeedsAssumption DEF AGE_CAP, TTL_VOL_SURFACE, CYCLE
<1>3. TTL_VOL_SURFACE \in 0..TTL_VOL_SURFACE /\ TTL_VOL_SURFACE > 0
  BY DEF TTL_VOL_SURFACE
<1>4. QED
  BY <1>1, <1>2, <1>3 DEF SurfaceSet

\* The initial states satisfy Inv.
LEMMA InitInv == Init => Inv
<1> SUFFICES ASSUME Init PROVE Inv
  OBVIOUS
<1>1. Cardinality(Legs) \in Nat
  BY FS_CardinalityType, FeedsAssumption
<1>2. TypeOK
  <2>1. ScalarTypes
    <3>1. ib \in BOOLEAN /\ redis \in BOOLEAN /\ rolled \in BOOLEAN
      BY DEF Init
    <3>2. quote \in (0..STALE) \cup {NoQuote} /\ spot \in 0..TTL_SPOT /\ beat \in 0..TTL_HEARTBEAT
      BY DEF Init, NoQuote, STALE, TTL_SPOT, TTL_HEARTBEAT
    <3>3. QED
      BY <3>1, <3>2 DEF Init, ScalarTypes
  <2>2. KeyTypes
    BY <1>1, FeedsAssumption DEF Init, KeyTypes, NoSurface, NoGreeks, TTL_GREEKS, TTL_VOL_SURFACE, AGE_CAP
  <2>3. LoopTypes
    BY FeedsAssumption DEF Init, LoopTypes, Resting, AGE_CAP, TTL_VOL_SURFACE, CYCLE
  <2>4. QED
    BY <2>1, <2>2, <2>3 DEF TypeOK, ScalarTypes, KeyTypes, LoopTypes
<1>3. BeatOutlivesCycle /\ VolsGetOld /\ RolledChainsHaveNoSession
  BY DEF Init, BeatOutlivesCycle, VolsGetOld, RolledChainsHaveNoSession, NoSurface, NoGreeks, Resting
<1>4. QED
  BY <1>2, <1>3 DEF Inv

\* Every step keeps the types of the sessions, the processes and the scalar keys.
LEMMA ScalarsStep == ScalarTypes /\ [Next]_vars => ScalarTypes'
<1> SUFFICES ASSUME ScalarTypes, [Next]_vars PROVE ScalarTypes'
  OBVIOUS
<1> USE DEF ScalarTypes, NoQuote, STALE, TTL_SPOT, TTL_HEARTBEAT, Engines
<1>1. CASE MdConnect
  BY <1>1 DEF MdConnect
<1>2. CASE RiskConnect
  BY <1>2 DEF RiskConnect
<1>3. CASE VolConnect
  BY <1>3 DEF VolConnect, OnIbReconnected
<1>4. CASE TickerUpdate
  BY <1>4 DEF TickerUpdate
<1>5. CASE MdPoll
  BY <1>5 DEF MdPoll, PollOnce
<1>6. CASE MdDies
  BY <1>6 DEF MdDies
<1>7. CASE VolTop
  <2>1. /\ UNCHANGED <<ib, redis, session, quote, spot, chains, down, due, rolled>>
        /\ beat' = TTL_HEARTBEAT /\ wiped' = FALSE
    BY <1>7 DEF VolTop
  <2>2. TTL_HEARTBEAT \in 0..TTL_HEARTBEAT
    OBVIOUS
  <2>3. wiped' \in BOOLEAN
    BY <2>1, Zenon
  <2>4. beat' \in 0..TTL_HEARTBEAT
    BY <2>1, <2>2
  <2>5. QED
    BY <2>1, <2>3, <2>4
<1>8. CASE VolLostSession
  BY <1>8 DEF VolLostSession
<1>9. CASE VolDies
  BY <1>9 DEF VolDies
<1>10. CASE VolReadSpot
  BY <1>10 DEF VolReadSpot
<1>11. ASSUME NEW found \in {"listed", "empty"}, Discover(found) PROVE ScalarTypes'
  BY <1>11 DEF Discover
<1>12. ASSUME NEW got \in SUBSET Tenors, VolScanned(got) PROVE ScalarTypes'
  BY <1>12 DEF VolScanned
<1>13. CASE VolPublish
  <2>1. /\ UNCHANGED <<ib, redis, session, quote, spot, chains, down, due, rolled>>
        /\ beat' = TTL_HEARTBEAT /\ wiped' = FALSE
    BY <1>13 DEF VolPublish
  <2>2. TTL_HEARTBEAT \in 0..TTL_HEARTBEAT
    OBVIOUS
  <2>3. wiped' \in BOOLEAN
    BY <2>1, Zenon
  <2>4. beat' \in 0..TTL_HEARTBEAT
    BY <2>1, <2>2
  <2>5. QED
    BY <2>1, <2>3, <2>4
<1>14. CASE VolPublishFails
  BY <1>14 DEF VolPublishFails
<1>15. CASE RiskReads
  BY <1>15 DEF RiskReads
<1>16. CASE RiskPublish
  BY <1>16 DEF RiskPublish
<1>17. CASE RiskDies
  BY <1>17 DEF RiskDies
<1>18. CASE IbDrop
  BY <1>18 DEF IbDrop
<1>19. CASE IbBack
  BY <1>19 DEF IbBack
<1>20. CASE RedisDrop
  BY <1>20 DEF RedisDrop
<1>21. CASE RedisBack
  BY <1>21 DEF RedisBack
<1>22. ASSUME NEW e \in Engines, Restart(e) PROVE ScalarTypes'
  BY <1>22 DEF Restart
<1>23. CASE Tick
  BY <1>23 DEF Tick, Least, Less
<1>24. CASE UNCHANGED vars
  BY <1>24 DEF vars
<1>25. CASE ScanBegins
  BY <1>25 DEF ScanBegins
<1>26. CASE RedisRestarted
  BY <1>26 DEF RedisRestarted
<1>27. QED
  BY <1>1, <1>2, <1>3, <1>4, <1>5, <1>6, <1>7, <1>8, <1>9, <1>10, <1>11, <1>12, <1>13,
     <1>14, <1>15, <1>16, <1>17, <1>18, <1>19, <1>20, <1>21, <1>22, <1>23, <1>24, <1>25, <1>26 DEF Next

\* Every step keeps the types of the published surface and greeks.
LEMMA KeysStep == TypeOK /\ BeatOutlivesCycle /\ [Next]_vars => KeyTypes'
<1> SUFFICES ASSUME TypeOK, BeatOutlivesCycle, KeyTypes, [Next]_vars PROVE KeyTypes'
  BY DEF TypeOK, KeyTypes
<1> USE DEF KeyTypes
<1>0. /\ NoSurface \in [cells : SUBSET Tenors, left : 0..TTL_VOL_SURFACE, age : 0..AGE_CAP]
      /\ NoGreeks \in [fallback : 0..Cardinality(Legs), left : 0..TTL_GREEKS, age : 0..AGE_CAP]
  BY FS_CardinalityType, FeedsAssumption DEF NoSurface, NoGreeks, AGE_CAP, TTL_VOL_SURFACE, TTL_GREEKS
<1>1. CASE UNCHANGED <<surface, greeks>>
  BY <1>1
<1>2. CASE VolPublish
  BY <1>2, SurfaceShape DEF VolPublish
<1>3. CASE VolPublishFails
  BY <1>3, SurfaceShape DEF VolPublishFails
<1>4. CASE RiskPublish
  <2>1. Cardinality(IvFallbackLegs(risk.cells)) \in 0..Cardinality(Legs)
    BY FlagCount
  <2>2. TTL_GREEKS \in 0..TTL_GREEKS /\ risk.age \in 0..AGE_CAP
    BY DEF TTL_GREEKS, TypeOK
  <2>3. QED
    BY <1>4, <2>1, <2>2 DEF RiskPublish
<1>5. CASE Tick
  <2>1. /\ surface.left > 1 => surface.left - 1 \in 0..TTL_VOL_SURFACE
        /\ greeks.left > 1 => greeks.left - 1 \in 0..TTL_GREEKS
    BY DEF TTL_VOL_SURFACE, TTL_GREEKS
  <2>2. /\ Least(surface.age + 1, AGE_CAP) \in 0..AGE_CAP
        /\ Least(greeks.age + 1, AGE_CAP) \in 0..AGE_CAP
    BY Older
  <2>3. /\ surface' = IF surface.left <= 1 THEN NoSurface
                      ELSE [surface EXCEPT !.left = @ - 1, !.age = Least(@ + 1, AGE_CAP)]
        /\ greeks' = IF greeks.left <= 1 THEN NoGreeks
                     ELSE [greeks EXCEPT !.left = @ - 1, !.age = Least(@ + 1, AGE_CAP)]
    BY <1>5 DEF Tick
  <2>4. surface' \in [cells : SUBSET Tenors, left : 0..TTL_VOL_SURFACE, age : 0..AGE_CAP]
    <3>1. CASE surface.left <= 1
      BY <1>0, <2>3, <3>1
    <3>2. CASE ~(surface.left <= 1)
      <4> DEFINE l == surface.left - 1
                 a == Least(surface.age + 1, AGE_CAP)
      <4>1. surface' = [surface EXCEPT !.left = l, !.age = a]
        BY <2>3, <3>2
      <4>2. l \in 0..TTL_VOL_SURFACE /\ a \in 0..AGE_CAP
        BY <2>1, <2>2, <3>2
      <4> HIDE DEF l, a
      <4>3. QED
        BY <4>1, <4>2
    <3>3. QED
      BY <3>1, <3>2
  <2>5. greeks' \in [fallback : 0..Cardinality(Legs), left : 0..TTL_GREEKS, age : 0..AGE_CAP]
    <3>1. CASE greeks.left <= 1
      BY <1>0, <2>3, <3>1
    <3>2. CASE ~(greeks.left <= 1)
      <4> DEFINE l == greeks.left - 1
                 a == Least(greeks.age + 1, AGE_CAP)
      <4>1. greeks' = [greeks EXCEPT !.left = l, !.age = a]
        BY <2>3, <3>2
      <4>2. l \in 0..TTL_GREEKS /\ a \in 0..AGE_CAP
        BY <2>1, <2>2, <3>2 DEF TTL_GREEKS
      <4> HIDE DEF l, a
      <4>3. QED
        BY <4>1, <4>2
    <3>3. QED
      BY <3>1, <3>2
  <2>6. QED
    BY <2>4, <2>5
<1>6. CASE RedisRestarted
  BY <1>0, <1>6 DEF RedisRestarted
<1>7. QED
  BY <1>1, <1>2, <1>3, <1>4, <1>5, <1>6
  DEF Next, vars, MdConnect, RiskConnect, VolConnect, TickerUpdate, MdPoll, MdDies, VolTop,
      VolLostSession, VolDies, VolReadSpot, Discover, ScanBegins, VolScanned, RiskReads, RiskDies,
      IbDrop, IbBack, RedisDrop, RedisBack, Restart

\* Every step keeps the types of the two engines' cycles.
LEMMA LoopsStep == TypeOK /\ BeatOutlivesCycle /\ [Next]_vars => LoopTypes'
<1> SUFFICES ASSUME TypeOK, BeatOutlivesCycle, LoopTypes, [Next]_vars PROVE LoopTypes'
  BY DEF TypeOK, LoopTypes
<1> USE DEF LoopTypes
<1>1. CASE UNCHANGED <<vol, risk>>
  BY <1>1
<1>2. CASE VolConnect
  BY <1>2 DEF VolConnect
<1>3. CASE VolTop
  <2>1. CYCLE \in (0 - MAX_SCAN)..CYCLE
    BY FeedsAssumption DEF CYCLE
  <2>2. QED
    BY <1>3, <2>1 DEF VolTop
<1>4. CASE VolLostSession
  BY <1>4 DEF VolLostSession
<1>5. CASE VolDies
  <2>1. 0 \in (0 - MAX_SCAN)..CYCLE
    BY FeedsAssumption DEF CYCLE
  <2>2. QED
    BY <1>5, <2>1 DEF VolDies
<1>6. CASE VolReadSpot
  BY <1>6 DEF VolReadSpot
<1>7. ASSUME NEW got \in SUBSET Tenors, VolScanned(got) PROVE LoopTypes'
  BY <1>7 DEF VolScanned
<1>8. CASE VolPublish
  BY <1>8 DEF VolPublish
<1>9. CASE VolPublishFails
  BY <1>9 DEF VolPublishFails
<1>10. CASE RiskReads
  BY <1>10 DEF RiskReads, TypeOK
<1>11. CASE RiskPublish
  BY <1>11, FeedsAssumption DEF RiskPublish, Resting, AGE_CAP, TTL_VOL_SURFACE
<1>12. ASSUME NEW e \in Engines, Restart(e) PROVE LoopTypes'
  BY <1>12 DEF Restart
<1>13. CASE Tick
  <2>1. /\ vol' = [vol EXCEPT !.timer = IF vol.pc \in {"scan", "wait"} THEN @ - 1 ELSE @,
                              !.pc = IF @ = "backoff" \/ (@ = "wait" /\ vol.timer <= 1)
                                     THEN "top" ELSE @]
        /\ risk' = risk
        /\ vol.pc = "scan" => CYCLE - vol.timer < MAX_SCAN
    BY <1>13 DEF Tick
  <2>2. vol.pc = "wait" => vol.timer >= 1
    BY DEF BeatOutlivesCycle
  <2>3. /\ vol.pc = "scan" => vol.timer - 1 \in (0 - MAX_SCAN)..CYCLE
        /\ vol.pc = "wait" => vol.timer - 1 \in (0 - MAX_SCAN)..CYCLE
    BY <2>1, <2>2, FeedsAssumption DEF CYCLE
  <2>4. QED
    BY <2>1, <2>3
<1>14. CASE ScanBegins
  BY <1>14 DEF ScanBegins
<1>15. QED
  BY <1>1, <1>2, <1>3, <1>4, <1>5, <1>6, <1>7, <1>8, <1>9, <1>10, <1>11, <1>12, <1>13, <1>14
  DEF Next, vars, MdConnect, RiskConnect, TickerUpdate, MdPoll, MdDies, Discover, RiskDies,
      IbDrop, IbBack, RedisDrop, RedisBack, RedisRestarted

\* Every step keeps the types.
LEMMA TypeStep == TypeOK /\ BeatOutlivesCycle /\ [Next]_vars => TypeOK'
<1> SUFFICES ASSUME TypeOK, BeatOutlivesCycle, [Next]_vars PROVE TypeOK'
  OBVIOUS
<1>1. ScalarTypes
  BY DEF TypeOK, ScalarTypes
<1>2. ScalarTypes' /\ KeyTypes' /\ LoopTypes'
  BY <1>1, ScalarsStep, KeysStep, LoopsStep
<1>3. QED
  BY <1>2 DEF TypeOK, ScalarTypes, KeyTypes, LoopTypes

-----------------------------------------------------------------------------
\* Every step keeps the heartbeat ahead of the cycle: only Tick brings either
\* down, both by one, and it stays out of a scan that has used up MAX_SCAN.
LEMMA BeatStep == Inv /\ [Next]_vars => BeatOutlivesCycle'
<1> SUFFICES ASSUME LoopTypes, beat \in 0..TTL_HEARTBEAT, BeatOutlivesCycle, [Next]_vars
             PROVE  BeatOutlivesCycle'
  BY DEF Inv, TypeOK, LoopTypes
<1> USE FeedsAssumption DEF LoopTypes, BeatOutlivesCycle, TTL_HEARTBEAT, CYCLE
<1>1. CASE UNCHANGED <<vol, beat, wiped>>
  BY <1>1
<1>2. CASE VolConnect
  BY <1>2 DEF VolConnect
<1>3. CASE VolTop
  BY <1>3 DEF VolTop
<1>4. CASE VolLostSession
  BY <1>4 DEF VolLostSession
<1>5. CASE VolDies
  BY <1>5 DEF VolDies
<1>6. CASE VolReadSpot
  BY <1>6 DEF VolReadSpot
<1>7. ASSUME NEW got \in SUBSET Tenors, VolScanned(got) PROVE BeatOutlivesCycle'
  BY <1>7 DEF VolScanned
<1>8. CASE VolPublish
  BY <1>8 DEF VolPublish
<1>9. CASE VolPublishFails
  BY <1>9 DEF VolPublishFails
<1>10. ASSUME NEW e \in Engines, Restart(e) PROVE BeatOutlivesCycle'
  BY <1>10 DEF Restart
<1>11. CASE Tick
  <2>1. /\ vol.pc \in {"connect", "down", "backoff", "wait", "scan"}
        /\ beat' = Less(beat) /\ wiped' = wiped
        /\ vol'.timer = IF vol.pc \in {"scan", "wait"} THEN vol.timer - 1 ELSE vol.timer
        /\ vol'.pc = IF vol.pc = "backoff" \/ (vol.pc = "wait" /\ vol.timer <= 1)
                     THEN "top" ELSE vol.pc
        /\ vol.pc = "scan" => CYCLE - vol.timer < MAX_SCAN
    BY <1>11 DEF Tick
  <2>2. vol.timer \in Int
    OBVIOUS
  <2>3. CASE vol.pc = "scan"
    BY <2>1, <2>2, <2>3 DEF Less, MAX_AGE
  <2>4. CASE vol.pc = "wait" /\ vol.timer >= 2
    BY <2>1, <2>2, <2>4 DEF Less, MAX_AGE
  <2>5. CASE vol'.pc \in {"top", "connect", "down"}
    BY <2>5
  <2>6. QED
    BY <2>1, <2>2, <2>3, <2>4, <2>5
<1>12. CASE ScanBegins
  BY <1>12 DEF ScanBegins
<1>13. CASE RedisRestarted
  BY <1>13 DEF RedisRestarted
<1>14. QED
  BY <1>1, <1>2, <1>3, <1>4, <1>5, <1>6, <1>7, <1>8, <1>9, <1>10, <1>11, <1>12, <1>13
  DEF Next, vars, MdConnect, RiskConnect, TickerUpdate, MdPoll, MdDies, Discover, RiskReads,
      RiskPublish, RiskDies, IbDrop, IbBack, RedisDrop, RedisBack

\* Every step keeps the published vols' ages: only Tick makes them older, and
\* it waits for the risk cycle that has read them.
LEMMA VolsStep == Inv /\ [Next]_vars => VolsGetOld'
<1> SUFFICES ASSUME Inv, TypeOK, KeyTypes, LoopTypes, BeatOutlivesCycle, VolsGetOld, [Next]_vars
             PROVE  VolsGetOld'
  BY DEF Inv, TypeOK, KeyTypes, LoopTypes
<1>0. MAX_SCAN \in Nat /\ TTL_VOL_SURFACE = 10 /\ TTL_GREEKS = 1 /\ AGE_CAP = MAX_SCAN + 10
  BY FeedsAssumption DEF TTL_VOL_SURFACE, TTL_GREEKS, AGE_CAP
<1>1. CASE UNCHANGED <<surface, greeks, risk, due>>
  BY <1>1 DEF VolsGetOld
<1>2. CASE VolPublish
  <2>1. vol.pc = "publish" /\ surface' = SurfaceSet(vol.cells) /\ UNCHANGED <<greeks, risk, due>>
    BY <1>2 DEF VolPublish
  <2>2. QED
    BY <1>0, <2>1, SurfaceShape DEF VolsGetOld
<1>3. CASE VolPublishFails
  <2>1. /\ vol.pc = "publish" /\ UNCHANGED <<greeks, risk, due>>
        /\ surface' = surface \/ surface' = SurfaceSet(vol.cells)
    BY <1>3 DEF VolPublishFails
  <2>2. CASE surface' = surface
    BY <2>1, <2>2 DEF VolsGetOld
  <2>3. CASE surface' = SurfaceSet(vol.cells)
    BY <1>0, <2>1, <2>3, SurfaceShape DEF VolsGetOld
  <2>4. QED
    BY <2>1, <2>2, <2>3
<1>4. CASE RiskReads
  <2>1. "risk" \in due /\ UNCHANGED <<surface, greeks>> /\ risk.pc = "idle"
    BY <1>4 DEF RiskReads
  <2>2. \/ risk' = [pc |-> "priced", cells |-> surface.cells, age |-> surface.age] /\ due' = due
        \/ risk' = risk
    BY <1>4 DEF RiskReads
  <2>3. surface.cells # {} => surface.age < MAX_SCAN + TTL_VOL_SURFACE
    BY <1>0 DEF KeyTypes, VolsGetOld
  <2>4. QED
    BY <2>1, <2>2, <2>3 DEF VolsGetOld
<1>5. CASE RiskPublish
  <2>1. /\ risk.pc = "priced" /\ risk'.pc = "idle" /\ surface' = surface
        /\ \/ greeks' = greeks
           \/ greeks' = [fallback |-> Cardinality(IvFallbackLegs(risk.cells)),
                         left |-> TTL_GREEKS, age |-> risk.age]
    BY <1>5 DEF RiskPublish, Resting
  <2>2. risk.cells = {} => Cardinality(IvFallbackLegs(risk.cells)) = Cardinality(Legs)
    BY FlagCount
  <2>3. QED
    BY <2>1, <2>2 DEF VolsGetOld
<1>6. CASE Tick
  <2>1. /\ due = {} /\ risk' = risk
        /\ surface' = IF surface.left <= 1 THEN NoSurface
                      ELSE [surface EXCEPT !.left = @ - 1, !.age = Least(@ + 1, AGE_CAP)]
        /\ greeks' = IF greeks.left <= 1 THEN NoGreeks
                     ELSE [greeks EXCEPT !.left = @ - 1, !.age = Least(@ + 1, AGE_CAP)]
    BY <1>6 DEF Tick
  <2>2. risk'.pc # "priced"
    BY <2>1 DEF VolsGetOld
  <2>3. greeks'.left = 0
    BY <1>0, <2>1 DEF KeyTypes, NoGreeks
  <2>4. CASE surface.left <= 1
    BY <2>1, <2>2, <2>3, <2>4 DEF VolsGetOld, NoSurface
  <2>5. CASE surface.left > 1
    <3>1. Least(surface.age + 1, AGE_CAP) <= surface.age + 1 /\ Least(surface.age + 1, AGE_CAP) \in 0..AGE_CAP
      BY Older DEF KeyTypes
    <3>2. surface'.left = surface.left - 1 /\ surface'.age = Least(surface.age + 1, AGE_CAP)
      BY <2>1, <2>5 DEF KeyTypes
    <3>3. surface'.left > 0 /\ surface'.age + surface'.left <= MAX_SCAN + TTL_VOL_SURFACE
      BY <1>0, <2>5, <3>1, <3>2 DEF KeyTypes, VolsGetOld
    <3>4. QED
      BY <2>2, <2>3, <3>3 DEF VolsGetOld
  <2>6. QED
    BY <2>4, <2>5 DEF KeyTypes
<1>7. CASE IbDrop
  <2>1. UNCHANGED <<surface, greeks, risk>> /\ (risk.pc = "priced" => due' = due \cap {"risk"})
    BY <1>7 DEF IbDrop
  <2>2. QED
    BY <2>1 DEF VolsGetOld
<1>8. CASE RedisRestarted
  BY <1>8 DEF RedisRestarted, VolsGetOld, NoSurface, NoGreeks
<1>9. CASE MdPoll
  BY <1>9 DEF MdPoll, VolsGetOld
<1>10. CASE MdDies
  BY <1>10 DEF MdDies, VolsGetOld
<1>11. CASE RiskDies
  BY <1>11 DEF RiskDies, VolsGetOld
<1>12. QED
  BY <1>1, <1>2, <1>3, <1>4, <1>5, <1>6, <1>7, <1>8, <1>9, <1>10, <1>11
  DEF Next, vars, MdConnect, RiskConnect, VolConnect, TickerUpdate, VolTop, VolLostSession,
      VolDies, VolReadSpot, Discover, ScanBegins, VolScanned, IbBack, RedisDrop, RedisBack, Restart

\* Every step keeps old chains away from a live session.
LEMMA ChainsStep == Inv /\ [Next]_vars => RolledChainsHaveNoSession'
<1> SUFFICES ASSUME RolledChainsHaveNoSession, [Next]_vars PROVE RolledChainsHaveNoSession'
  BY DEF Inv
<1> USE DEF RolledChainsHaveNoSession
<1>1. CASE UNCHANGED <<rolled, chains, session>>
  BY <1>1
<1>2. CASE MdConnect
  BY <1>2 DEF MdConnect
<1>3. CASE RiskConnect
  BY <1>3 DEF RiskConnect
<1>4. CASE VolConnect
  BY <1>4 DEF VolConnect, OnIbReconnected
<1>5. CASE MdDies
  BY <1>5 DEF MdDies
<1>6. CASE VolDies
  BY <1>6 DEF VolDies
<1>7. ASSUME NEW found \in {"listed", "empty"}, Discover(found) PROVE RolledChainsHaveNoSession'
  BY <1>7 DEF Discover
<1>8. CASE RiskDies
  BY <1>8 DEF RiskDies
<1>9. CASE IbDrop
  BY <1>9 DEF IbDrop
<1>10. QED
  BY <1>1, <1>2, <1>3, <1>4, <1>5, <1>6, <1>7, <1>8, <1>9
  DEF Next, vars, TickerUpdate, MdPoll, VolTop, VolLostSession, VolReadSpot, ScanBegins,
      VolScanned, VolPublish, VolPublishFails, RiskReads, RiskPublish, IbBack, RedisDrop,
      RedisBack, RedisRestarted, Restart, Tick

\* Inv is an invariant of the live data path.
THEOREM Invariance == Spec => []Inv
<1>1. Inv /\ [Next]_vars => Inv'
  BY TypeStep, BeatStep, VolsStep, ChainsStep DEF Inv
<1>2. QED
  BY InitInv, <1>1, PTL DEF Spec

-----------------------------------------------------------------------------
\* Every variable of the data path keeps its type: the Redis keys their shape
\* and time to live, the engines' loops their phases.
THEOREM TypeCorrect == Spec => []TypeOK
<1>1. Inv => TypeOK
  BY DEF Inv
<1>2. QED
  BY Invariance, <1>1, PTL

\* For every bound on a scan below the healthcheck's max age: the container's
\* healthcheck never finds the heartbeat of a vol engine in its cycle missing
\* or too old, whatever cycles were skipped, ran long or failed to publish,
\* except while Redis is away or restarted empty and not written to since.
THEOREM NoFalseAlarmHolds == Spec => []NoFalseAlarm
<1>1. Inv => NoFalseAlarm
  <2> SUFFICES ASSUME Inv, vol.pc \in {"spot", "chains", "scan", "publish", "backoff", "wait"},
                      redis, ~wiped
               PROVE  Healthy
    BY DEF NoFalseAlarm
  <2>1. /\ CYCLE - vol.timer <= MAX_SCAN \/ vol.timer >= 1
        /\ beat >= vol.timer + (TTL_HEARTBEAT - CYCLE)
        /\ beat \in 0..TTL_HEARTBEAT /\ vol.timer \in (0 - MAX_SCAN)..CYCLE
    BY DEF Inv, TypeOK, BeatOutlivesCycle
  <2>2. QED
    BY <2>1, FeedsAssumption DEF Healthy, MAX_AGE, TTL_HEARTBEAT, CYCLE
<1>2. QED
  BY Invariance, <1>1, PTL

\* Book greeks that the risk engine publishes with no fallback leg rest on vols
\* whose scan began less than MAX_SCAN + TTL_VOL_SURFACE minutes ago.
THEOREM UnflaggedGreeksAreFreshHolds == Spec => []UnflaggedGreeksAreFresh
<1>1. Inv => UnflaggedGreeksAreFresh
  <2>1. Legs # {} => Cardinality(Legs) # 0
    BY FS_EmptySet, FeedsAssumption
  <2>2. QED
    BY <2>1 DEF Inv, VolsGetOld, UnflaggedGreeksAreFresh
<1>2. QED
  BY Invariance, <1>1, PTL

\* A scan on a live session only uses chains discovered on that session,
\* though drops and restarts may catch the vol engine anywhere in its cycle.
THEOREM ScansOwnChainsHolds == Spec => []ScansOwnChains
<1>1. Inv => ScansOwnChains
  BY DEF Inv, RolledChainsHaveNoSession, ScansOwnChains
<1>2. QED
  BY Invariance, <1>1, PTL
=============================================================================
