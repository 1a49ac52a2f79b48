------------------------------ MODULE LiveFeeds ------------------------------
(***************************************************************************)
(* The live data path: the market-data engine publishes the spot, the vol   *)
(* engine turns it into a vol surface every CYCLE minutes, the risk engine  *)
(* prices the book on both.  They share nothing but Redis keys with a time  *)
(* to live (bus/keys.py, bus/publisher.py) and one IB Gateway, which        *)
(* restarts every night; each engine is restarted by its container when an  *)
(* exception escapes its loop.                                              *)
(*                                                                          *)
(* Time is counted in minutes.  The fast loops (market data 0.1 s, risk     *)
(* 2 s) run at least once a minute: Tick waits for them (due).  A cycle's   *)
(* scan and fits take at most MAX_SCAN minutes, which may be more than the  *)
(* cycle; the 5 s back-off is rounded to a minute.  Implied vols are        *)
(* abstracted to which tenors have cells and how long ago they were read;   *)
(* the spot to how long ago IB last quoted it.                              *)
(***************************************************************************)
EXTENDS Integers, FiniteSets

CONSTANTS Tenors,    \* the display pillars
          Legs,      \* the book's option legs that can be priced: a symbol that parses,
                     \* a strike, days to run (the others are left out of the sums)
          TenorOf,   \* the tenor each leg is priced on
          MAX_SCAN   \* how long a scan can take; "work takes ~60-120 s"

MAX_AGE == 5        \* the vol container's healthcheck

ASSUME FeedsAssumption == /\ IsFiniteSet(Legs)
                          /\ TenorOf \in [Legs -> Tenors]
                          /\ MAX_SCAN \in Nat /\ MAX_SCAN < MAX_AGE

VARIABLES
  ib,        \* the Gateway accepts connections
  redis,     \* Redis answers
  session,   \* engines whose own IB session is connected
  quote,     \* minutes since the last usable IB tick held in `latest`
  spot,      \* latest_spot: minutes left
  surface,   \* latest_vol_surface: the tenors with cells, minutes left, and (history)
             \* minutes since the cycle that scanned them began
  greeks,    \* latest_greeks:portfolio: iv_fallback_legs, minutes left, age of its surface
  beat,      \* heartbeat:vol_engine: minutes left
  wiped,     \* history: Redis restarted empty since the vol engine's last heartbeat
  chains,    \* the vol process's _chains_cache
  rolled,    \* the cached chains were discovered before the last Gateway restart
  vol,       \* the vol engine's loop: pc, scan result, minutes to the deadline (or past it)
  risk,      \* the risk engine's cycle: pc, the surface it read and its age
  down,      \* engines whose process has exited
  due        \* fast loops that have not run in the current minute

vars == <<ib, redis, session, quote, spot, surface, greeks, beat,
          wiped, chains, rolled, vol, risk, down, due>>

Engines == {"md", "vol", "risk"}
NoQuote == 98        \* the process has had no usable tick yet
STALE == 3          \* a quote this old (minutes) is stale; older ones count as this

(* bus/keys.py, in minutes.  The 30 s keys are rounded up; the spot, which    *)
(* the market-data loop rewrites all the time, survives the turn of the       *)
(* minute in which it was written.                                           *)
TTL_SPOT == 2
TTL_GREEKS == 1
TTL_HEARTBEAT_30S == 1   \* fault: the value before the change
TTL_HEARTBEAT == 5
TTL_VOL_SURFACE == 10
CYCLE == 3          \* CYCLE_S
AGE_CAP == MAX_SCAN + TTL_VOL_SURFACE   \* bound: older surfaces count as this

Least(a, b) == IF a < b THEN a ELSE b
Less(n) == IF n = 0 THEN 0 ELSE n - 1

NoSurface == [cells |-> {}, left |-> 0, age |-> 0]
NoGreeks  == [fallback |-> 0, left |-> 0, age |-> 0]
Resting   == [pc |-> "idle", cells |-> {}, age |-> 0]

Init ==
  /\ ib = TRUE /\ redis = TRUE /\ session = {}
  /\ quote = NoQuote /\ spot = 0
  /\ surface = NoSurface /\ greeks = NoGreeks
  /\ beat = 0 /\ wiped = FALSE /\ chains = "none" /\ rolled = FALSE
  /\ vol = [pc |-> "connect", cells |-> {}, timer |-> 0]
  /\ risk = Resting
  /\ down = {} /\ due = {}

-----------------------------------------------------------------------------
(* Sessions.  connect_ib_with_backoff retries until the Gateway is back; the *)
(* market-data hook re-subscribes the ticker and swallows its failure, which *)
(* is a ticker that never ticks; the vol hook forgets the chains.            *)

MdConnect ==
  /\ ib /\ "md" \notin session \cup down
  /\ session' = session \cup {"md"}
  /\ UNCHANGED <<ib, redis, quote, spot, surface, greeks, beat, wiped, chains, vol, risk, down, due,
                 rolled>>

RiskConnect ==
  /\ ib /\ "risk" \notin session \cup down
  /\ session' = session \cup {"risk"}
  /\ UNCHANGED <<ib, redis, quote, spot, surface, greeks, beat, wiped, chains, vol, risk,
                 down, due, rolled>>

(* Fault: the reconnection keeps the cached chains. *)
KeepChains(c) == c

(* _on_ib_reconnected of engines/vol/main.py. *)
OnIbReconnected(c) == "none"

VolConnect ==
  /\ ib /\ vol.pc = "connect" /\ "vol" \notin down
  /\ session' = session \cup {"vol"}
  /\ chains' = OnIbReconnected(chains)
  /\ rolled' = (rolled /\ chains' # "none")
  /\ vol' = [vol EXCEPT !.pc = "top"]
  /\ UNCHANGED <<ib, redis, quote, spot, surface, greeks, beat, wiped, risk, down, due>>

-----------------------------------------------------------------------------
(* The market-data engine. *)

(* _on_ticker_update with a usable bid and ask; a sentinel (-1) changes      *)
(* nothing.                                                                  *)
TickerUpdate ==
  /\ ib /\ "md" \in session /\ quote # 0
  /\ quote' = 0
  /\ UNCHANGED <<ib, redis, session, spot, surface, greeks, beat, wiped, chains, vol, risk,
                 down, due, rolled>>

(* _poll_once publishes whatever `latest` holds, old or new.                 *)
PollOnce == IF quote = NoQuote THEN spot ELSE TTL_SPOT

MdPoll ==
  /\ "md" \in due /\ redis
  /\ spot' = PollOnce
  /\ due' = due \ {"md"}
  /\ UNCHANGED <<ib, redis, session, quote, surface, greeks, beat, wiped, chains, vol, risk,
                 down, rolled>>

(* Publishing a tick swallows a Redis error; set_heartbeat, outside any try  *)
(* block, ends the process.                                                  *)
MdDies ==
  /\ "md" \in due /\ ~redis
  /\ down' = down \cup {"md"} /\ session' = session \ {"md"}
  /\ quote' = NoQuote
  /\ due' = due \ {"md"}
  /\ UNCHANGED <<ib, redis, spot, surface, greeks, beat, wiped, chains, vol, risk, rolled>>

-----------------------------------------------------------------------------
(* The vol engine. *)

(* The top of run: reconnect if the session is gone, heartbeat, deadline.    *)
VolTop ==
  /\ vol.pc = "top" /\ "vol" \in session /\ redis
  /\ beat' = TTL_HEARTBEAT /\ wiped' = FALSE
  /\ vol' = [vol EXCEPT !.pc = "spot", !.timer = CYCLE]
  /\ UNCHANGED <<ib, redis, session, quote, spot, surface, greeks, chains, risk,
                 down, due, rolled>>

VolLostSession ==
  /\ vol.pc = "top" /\ "vol" \notin session
  /\ vol' = [vol EXCEPT !.pc = "connect"]
  /\ UNCHANGED <<ib, redis, session, quote, spot, surface, greeks, beat, wiped, chains, risk,
                 down, due, rolled>>

(* The heartbeat at the top, discovery and the scan are outside any try      *)
(* block: an IB call on a lost session raises ConnectionError.               *)
VolDies ==
  /\ \/ vol.pc = "top" /\ "vol" \in session /\ ~redis
     \/ vol.pc = "chains" /\ chains = "none"
     \/ vol.pc \in {"chains", "scan"} /\ chains = "listed" /\ "vol" \notin session
  /\ down' = down \cup {"vol"} /\ session' = session \ {"vol"}
  /\ vol' = [pc |-> "down", cells |-> {}, timer |-> 0]
  /\ chains' = "none" /\ rolled' = FALSE
  /\ UNCHANGED <<ib, redis, quote, spot, surface, greeks, beat, wiped, risk, due>>

(* _read_spot: no key, or no answer from Redis, skips the cycle.             *)
VolReadSpot ==
  /\ vol.pc = "spot"
  /\ vol' = [vol EXCEPT !.pc = IF redis /\ spot > 0 THEN "chains" ELSE "backoff"]
  /\ UNCHANGED <<ib, redis, session, quote, spot, surface, greeks, beat, wiped, chains, risk,
                 down, due, rolled>>

(* _fop_real: the chains are discovered once per session and cached, an      *)
(* empty answer too.                                                         *)
Discover(found) ==
  /\ vol.pc = "chains" /\ chains = "none" /\ "vol" \in session
  /\ chains' = found
  /\ UNCHANGED <<ib, redis, session, quote, spot, surface, greeks, beat, wiped, vol,
                 risk, down, due, rolled>>

(* The scan starts qualifying contracts; without chains it asks IB nothing.  *)
ScanBegins ==
  /\ vol.pc = "chains" /\ chains # "none"
  /\ chains = "listed" => "vol" \in session
  /\ vol' = [vol EXCEPT !.pc = "scan"]
  /\ UNCHANGED <<ib, redis, session, quote, spot, surface, greeks, beat, wiped,
                 chains, risk, down, due, rolled>>

(* scan_all_tenors_concurrent: every tenor may or may not yield its pillars, *)
(* those of a session lost while the last greeks were awaited included.      *)
VolScanned(got) ==
  /\ vol.pc = "scan"
  /\ got # {} => chains = "listed"
  /\ vol' = [vol EXCEPT !.pc = "publish", !.cells = got]
  /\ UNCHANGED <<ib, redis, session, quote, spot, surface, greeks, beat, wiped,
                 chains, risk, down, due, rolled>>

(* The dict _compute_surface returns: the pillars and the SVI block, which   *)
(* is written whatever the scan gave.                                        *)
SurfaceKeys(cells) == cells \cup {"_svi"}

(* Fault: a scan that found nothing renews the key of the last surface.      *)
SurfaceRenewed(cells) ==
  IF cells = {} /\ surface.left > 0
    THEN [surface EXCEPT !.left = TTL_VOL_SURFACE]
    ELSE [cells |-> cells, left |-> TTL_VOL_SURFACE, age |-> CYCLE - vol.timer]

(* publish_vol_update's SET of the surface key, with its TTL.                *)
SurfaceSet(cells) == [cells |-> cells, left |-> TTL_VOL_SURFACE, age |-> CYCLE - vol.timer]

(* publish_vol_update, then the heartbeat; the cycle published, so run waits *)
(* for the deadline, unless the cycle ran long.                              *)
VolPublish ==
  /\ vol.pc = "publish" /\ SurfaceKeys(vol.cells) # {} /\ redis
  /\ surface' = SurfaceSet(vol.cells)
  /\ beat' = TTL_HEARTBEAT /\ wiped' = FALSE
  /\ vol' = [vol EXCEPT !.pc = IF vol.timer <= 0 THEN "top" ELSE "wait", !.cells = {}]
  /\ UNCHANGED <<ib, redis, session, quote, spot, greeks, chains, risk, down, due,
                 rolled>>

(* Redis fails before the first SET, or (cut) after it: run_cycle returns    *)
(* False and run backs off.                                                  *)
VolPublishFails ==
  /\ vol.pc = "publish"
  /\ \/ ~redis /\ UNCHANGED <<redis, surface>>
     \/ /\ redis /\ redis' = FALSE
        /\ surface' = SurfaceSet(vol.cells)
  /\ vol' = [vol EXCEPT !.pc = "backoff", !.cells = {}]
  /\ UNCHANGED <<ib, session, quote, spot, greeks, beat, wiped, chains, risk, down, due,
                 rolled>>

-----------------------------------------------------------------------------
(* The risk engine. *)

(* _read_spot, _read_surface and the positions.  Without a spot key the      *)
(* price of a future in the IB portfolio serves, if there is one; without a  *)
(* surface the cycle goes on with an empty one.                              *)
RiskReads ==
  /\ "risk" \in due /\ risk.pc = "idle" /\ redis
  /\ \/ risk' = [pc |-> "priced", cells |-> surface.cells, age |-> surface.age]
        /\ UNCHANGED due
     \/ spot = 0 /\ due' = due \ {"risk"} /\ UNCHANGED risk
  /\ UNCHANGED <<ib, redis, session, quote, spot, surface, greeks, beat, wiped, chains, vol,
                 down, rolled>>

(* The legs _iv_or_fallback prices on FALLBACK_IV and counts.                *)
IvFallbackLegs(cells) == {l \in Legs : TenorOf[l] \notin cells}

(* publish_risk_update; its failure is logged and the cycle ends.            *)
RiskPublish ==
  /\ risk.pc = "priced"
  /\ greeks' = IF redis THEN [fallback |-> Cardinality(IvFallbackLegs(risk.cells)),
                              left |-> TTL_GREEKS, age |-> risk.age]
                        ELSE greeks
  /\ risk' = Resting
  /\ due' = due \ {"risk"}
  /\ UNCHANGED <<ib, redis, session, quote, spot, surface, beat, wiped, chains, vol, down,
                 rolled>>

(* The heartbeat and the reads are outside any try block.                    *)
RiskDies ==
  /\ "risk" \in due /\ risk.pc = "idle" /\ ~redis
  /\ down' = down \cup {"risk"} /\ session' = session \ {"risk"}
  /\ due' = due \ {"risk"}
  /\ UNCHANGED <<ib, redis, quote, spot, surface, greeks, beat, wiped, chains, vol, risk,
                 rolled>>

-----------------------------------------------------------------------------
(* The environment. *)

(* The Gateway restarts or drops: every session and subscription is gone.    *)
IbDrop ==
  /\ ib /\ ib' = FALSE
  /\ session' = {}
  /\ due' = IF risk.pc = "priced" THEN due \cap {"risk"} ELSE {}
  /\ rolled' = (rolled \/ chains # "none")
  /\ UNCHANGED <<redis, quote, spot, surface, greeks, beat, wiped, chains, vol, risk, down>>

IbBack ==
  /\ ~ib /\ ib' = TRUE
  /\ UNCHANGED <<redis, session, quote, spot, surface, greeks, beat, wiped, chains, vol,
                 risk, down, due, rolled>>

RedisDrop ==
  /\ redis /\ redis' = FALSE
  /\ UNCHANGED <<ib, session, quote, spot, surface, greeks, beat, wiped, chains, vol, risk,
                 down, due, rolled>>

(* Redis was unreachable: its keys kept expiring.                            *)
RedisBack ==
  /\ ~redis /\ redis' = TRUE
  /\ UNCHANGED <<ib, session, quote, spot, surface, greeks, beat, wiped, chains, vol, risk,
                 down, due, rolled>>

(* Redis was restarted: no append-only file, the keys are gone.              *)
RedisRestarted ==
  /\ ~redis /\ redis' = TRUE
  /\ spot' = 0 /\ surface' = NoSurface /\ greeks' = NoGreeks /\ beat' = 0 /\ wiped' = TRUE
  /\ UNCHANGED <<ib, session, quote, chains, vol, risk, down, due, rolled>>

(* The container runtime restarts an exited engine. *)
Restart(e) ==
  /\ e \in down /\ down' = down \ {e}
  /\ vol' = IF e = "vol" THEN [vol EXCEPT !.pc = "connect"] ELSE vol
  /\ UNCHANGED <<ib, redis, session, quote, spot, surface, greeks, beat, wiped, chains, risk,
                 due, rolled>>

(* A minute passes.  It waits for the fast loops, for the reconnections (the *)
(* back-off is capped at a minute) and for the steps of the vol engine that  *)
(* take no time.                                                             *)
Tick ==
  /\ due = {}
  /\ vol.pc \in {"connect", "down", "backoff", "wait", "scan"}
  /\ ib => vol.pc # "connect" /\ {"md", "risk"} \subseteq session \cup down
  /\ vol.pc = "scan" => CYCLE - vol.timer < MAX_SCAN
  /\ quote' = IF quote = NoQuote THEN quote ELSE Least(quote + 1, STALE)
  /\ spot' = Less(spot) /\ beat' = Less(beat)
  /\ surface' = IF surface.left <= 1 THEN NoSurface
                ELSE [surface EXCEPT !.left = @ - 1, !.age = Least(@ + 1, AGE_CAP)]
  /\ greeks' = IF greeks.left <= 1 THEN NoGreeks
               ELSE [greeks EXCEPT !.left = @ - 1, !.age = Least(@ + 1, AGE_CAP)]
  /\ vol' = [vol EXCEPT !.timer = IF vol.pc \in {"scan", "wait"} THEN @ - 1 ELSE @,
                        !.pc = IF @ = "backoff" \/ (@ = "wait" /\ vol.timer <= 1)
                               THEN "top" ELSE @]
  /\ due' = session \cap {"md", "risk"}
  /\ UNCHANGED <<ib, redis, session, wiped, chains, risk, down, rolled>>

-----------------------------------------------------------------------------
Next ==
  \/ MdConnect \/ RiskConnect \/ VolConnect
  \/ TickerUpdate \/ MdPoll \/ MdDies
  \/ VolTop \/ VolLostSession \/ VolDies \/ VolReadSpot
  \/ \E found \in {"listed", "empty"} : Discover(found)
  \/ ScanBegins
  \/ \E got \in SUBSET Tenors : VolScanned(got)
  \/ VolPublish \/ VolPublishFails
  \/ RiskReads \/ RiskPublish \/ RiskDies
  \/ IbDrop \/ IbBack \/ RedisDrop \/ RedisBack \/ RedisRestarted
  \/ \E e \in Engines : Restart(e)
  \/ Tick

Spec == Init /\ [][Next]_vars

-----------------------------------------------------------------------------
(* Every variable holds what the code can put there.                         *)
TypeOK ==
  /\ ib \in BOOLEAN /\ redis \in BOOLEAN /\ rolled \in BOOLEAN
  /\ session \subseteq Engines /\ down \subseteq Engines /\ due \subseteq {"md", "risk"}
  /\ quote \in (0..STALE) \cup {NoQuote} /\ spot \in 0..TTL_SPOT /\ beat \in 0..TTL_HEARTBEAT
  /\ wiped \in BOOLEAN
  /\ surface \in [cells : SUBSET Tenors, left : 0..TTL_VOL_SURFACE, age : 0..AGE_CAP]
  /\ greeks \in [fallback : 0..Cardinality(Legs), left : 0..TTL_GREEKS, age : 0..AGE_CAP]
  /\ chains \in {"none", "empty", "listed"}
  /\ vol \in [pc : {"connect", "top", "spot", "chains", "scan", "publish", "backoff", "wait", "down"},
              cells : SUBSET Tenors, timer : (0 - MAX_SCAN)..CYCLE]
  /\ risk \in [pc : {"idle", "priced"}, cells : SUBSET Tenors, age : 0..AGE_CAP]

(* shared.healthcheck on heartbeat:vol_engine: Redis answers, the key is      *)
(* there and younger than max_age.                                            *)
Healthy == redis /\ beat > 0 /\ TTL_HEARTBEAT - beat < MAX_AGE

(* A vol engine in its cycle, scanning or asleep until its deadline, is       *)
(* reported unhealthy only while Redis is away, or restarted empty and not    *)
(* written to since: the heartbeat key outlives the longest gap between two   *)
(* of its writes, whatever cycles were skipped, ran long or failed to publish *)
(* on the way, and an outage that keeps the keys leaves no alarm behind.      *)
NoFalseAlarm ==
  vol.pc \in {"spot", "chains", "scan", "publish", "backoff", "wait"} /\ redis /\ ~wiped => Healthy

(* Book greeks published without a fallback leg rest on vols whose scan began *)
(* less than MAX_SCAN + TTL_VOL_SURFACE minutes ago: however cycles fail, find*)
(* nothing or die between the scan and the risk cycle that reads it, an old   *)
(* surface leaves Redis and the legs it priced are flagged.                   *)
UnflaggedGreeksAreFresh ==
  greeks.left > 0 /\ greeks.fallback = 0 /\ Legs # {} => greeks.age < MAX_SCAN + TTL_VOL_SURFACE

(* A scan on a live IB session only uses chains discovered on that session:   *)
(* expiries may have rolled while the Gateway was away, so wherever in its   *)
(* cycle the drop caught the engine, it rediscovers before it scans.         *)
ScansOwnChains ==
  vol.pc = "scan" /\ "vol" \in session /\ chains # "none" => ~rolled

(* The comment on _on_ticker_update: a feed that stops quoting leaves        *)
(* latest_spot stale, so that its readers see no data.                       *)
SilentFeedGoesStale == spot > 0 /\ quote # NoQuote => quote <= TTL_SPOT
=============================================================================
