------------------------------ MODULE ProviderNode ------------------------------
(***************************************************************************)
(* The enclave's FTSO provider node (ftso_provider/node.rs): one connector *)
(* task per exchange that connects, streams tickers into the shared price  *)
(* book, and backs off and reconnects for ever; and the staleness monitor  *)
(* that raises and clears the flag the metrics export.                     *)
(*                                                                         *)
(* Time is discrete and relative: the book keeps the age of each ticker    *)
(* instead of its Instant, capped where the code can no longer tell two    *)
(* ages apart, so behaviours are unbounded and the state space is finite.  *)
(* A timer that is due fires before time advances: the tasks share a Tokio *)
(* runtime whose scheduling delay is far below one unit of time.           *)
(***************************************************************************)
EXTENDS Integers, FiniteSets, FiniteSetsExt

CONSTANTS
  Exchanges, Feeds,
  StaleAfter,      \* STALE_AFTER, in units of time
  Period,          \* the monitor's interval, min(stale_after, 1 s)
  ConnectTimeout,  \* CONNECT_TIMEOUT
  Base, MaxDelay,  \* RECONNECT_BASE_DELAY and the 30 s clamp
  MaxCount         \* bound: the telemetry counters saturate here

ASSUME NodeAssumption ==
  /\ Exchanges # {} /\ Feeds # {} /\ IsFiniteSet(Exchanges)
  /\ StaleAfter \in Nat \ {0} /\ Period \in 1 .. StaleAfter
  /\ ConnectTimeout \in Nat \ {0}
  /\ Base \in Nat \ {0} /\ MaxDelay \in Nat /\ Base <= MaxDelay
  /\ MaxCount \in Nat

VARIABLES
  up,          \* venues that are reachable and publishing (external)
  conn,        \* per connector: "connecting", "streaming" or "sleeping"
  timer,       \* per connector: time spent connecting, or left to sleep
  backoff,     \* per connector: run_exchange_loop's local variable
  age,         \* price book: age[f][e] of the last ticker, Never if none
  stale,       \* the AtomicBool behind is_stale()
  monitorIn,   \* time until the monitor's next tick
  reconnects, failures   \* telemetry

telemetry  == <<reconnects, failures>>
connectors == <<conn, timer, backoff>>
nodeVars == <<up, connectors, age, stale, monitorIn, telemetry>>

(* Ages above AgeCap are indistinguishable, and so is an empty slot. *)
AgeCap == StaleAfter + Period + 1
Never  == AgeCap + 1

(* start_with_urls: the connectors start at once, and so does the monitor  *)
(* (the first tick of a Tokio interval is immediate).                      *)
NodeInit ==
  /\ up \in SUBSET Exchanges
  /\ conn = [e \in Exchanges |-> "connecting"]
  /\ timer = [e \in Exchanges |-> 0]
  /\ backoff = [e \in Exchanges |-> Base]
  /\ age = [f \in Feeds |-> [e \in Exchanges |-> Never]]
  /\ stale = FALSE /\ monitorIn = 0
  /\ reconnects = 0 /\ failures = 0

(***************************************************************************)
(* PriceBook                                                               *)
(***************************************************************************)
(* last_update, as an age: the newest ticker of any exchange. *)
last_update(f) == Min({age[f][e] : e \in Exchanges})

IsStale(f) == last_update(f) > StaleAfter

----------------------------------------------------------------------------
(* The connector of exchange e                                             *)

connectSucceeds(e) ==
  /\ conn[e] = "connecting" /\ e \in up
  /\ conn' = [conn EXCEPT ![e] = "streaming"]
  /\ timer' = [timer EXCEPT ![e] = 0]
  /\ UNCHANGED <<up, backoff, age, stale, monitorIn, telemetry>>

bump(n) == IF n < MaxCount THEN n + 1 ELSE n

streamFailed_Exits(e) ==
  /\ failures' = bump(failures) /\ reconnects' = bump(reconnects)
  /\ conn' = [conn EXCEPT ![e] = "stopped"]
  /\ UNCHANGED <<timer, backoff>>

(* The Err arm of run_exchange_loop, and the start of its sleep.  The Ok   *)
(* arm, which would reset the backoff, is never taken: stream_once leaves  *)
(* its read loop by an error only, a close by the peer included.           *)
streamFailed(e) ==
  /\ failures' = bump(failures) /\ reconnects' = bump(reconnects)
  /\ conn' = [conn EXCEPT ![e] = "sleeping"]
  /\ timer' = [timer EXCEPT ![e] = backoff[e]]
  /\ UNCHANGED backoff

(* Resolution, TCP, TLS, WebSocket handshake or the subscription fails. *)
connectFails(e) ==
  /\ conn[e] = "connecting" /\ e \notin up
  /\ streamFailed(e)
  /\ UNCHANGED <<up, age, stale, monitorIn>>

connectTimesOut(e) ==
  /\ conn[e] = "connecting" /\ timer[e] = ConnectTimeout
  /\ streamFailed(e)
  /\ UNCHANGED <<up, age, stale, monitorIn>>

(* The stream is closed by the peer, or breaks. *)
streamEnds(e) ==
  /\ conn[e] = "streaming" /\ e \notin up
  /\ streamFailed(e)
  /\ UNCHANGED <<up, age, stale, monitorIn>>

(* The sleep is over: the delay doubles, up to the clamp, and the loop     *)
(* starts again.                                                           *)
wake(e) ==
  /\ conn[e] = "sleeping" /\ timer[e] = 0
  /\ conn' = [conn EXCEPT ![e] = "connecting"]
  /\ backoff' = [backoff EXCEPT ![e] = Min({2 * backoff[e], MaxDelay})]
  /\ UNCHANGED <<up, timer, age, stale, monitorIn, telemetry>>

(* A message that parses as a ticker of f is upserted; other messages      *)
(* change nothing.                                                         *)
upsert(e, f) ==
  /\ conn[e] = "streaming" /\ e \in up
  /\ age' = [age EXCEPT ![f][e] = 0]
  /\ UNCHANGED <<up, connectors, stale, monitorIn, telemetry>>

----------------------------------------------------------------------------
(* The monitor                                                             *)

check_staleness_AllFeeds ==
  /\ monitorIn = 0
  /\ stale' = (\A f \in Feeds : IsStale(f))
  /\ monitorIn' = Period
  /\ UNCHANGED <<up, connectors, age, telemetry>>

check_staleness_NeverClears ==
  /\ monitorIn = 0
  /\ stale' = (stale \/ \E f \in Feeds : IsStale(f))
  /\ monitorIn' = Period
  /\ UNCHANGED <<up, connectors, age, telemetry>>

check_staleness ==
  /\ monitorIn = 0
  /\ stale' = (\E f \in Feeds : IsStale(f))
  /\ monitorIn' = Period
  /\ UNCHANGED <<up, connectors, age, telemetry>>

----------------------------------------------------------------------------
(* The outside                                                             *)

(* A venue becomes reachable, or stops being so. *)
VenueFlips(e) ==
  /\ up' = IF e \in up THEN up \ {e} ELSE up \cup {e}
  /\ UNCHANGED <<connectors, age, stale, monitorIn, telemetry>>

(* An up venue publishes each feed when it is subscribed, and then at      *)
(* least every StaleAfter.                                                 *)
TickersDue(e) == conn[e] = "streaming" /\ e \in up
                   /\ \E f \in Feeds : age[f][e] >= StaleAfter

older(n) == IF n < AgeCap THEN n + 1 ELSE n

Tick ==
  /\ monitorIn > 0
  /\ \A e \in Exchanges : /\ conn[e] = "sleeping" => timer[e] > 0
                          /\ conn[e] = "connecting" => timer[e] < ConnectTimeout
                          /\ ~TickersDue(e)
  /\ monitorIn' = monitorIn - 1
  /\ age' = [f \in Feeds |-> [e \in Exchanges |-> older(age[f][e])]]
  /\ timer' = [e \in Exchanges |-> CASE conn[e] = "sleeping" -> timer[e] - 1
                                     [] conn[e] = "connecting" -> timer[e] + 1
                                     [] OTHER -> timer[e]]
  /\ UNCHANGED <<up, conn, backoff, stale, telemetry>>

NodeNext ==
  \/ \E e \in Exchanges : \/ connectSucceeds(e) \/ connectFails(e) \/ connectTimesOut(e)
                          \/ streamEnds(e) \/ wake(e) \/ VenueFlips(e)
                          \/ \E f \in Feeds : upsert(e, f)
  \/ check_staleness
  \/ Tick

NodeSpec == NodeInit /\ [][NodeNext]_nodeVars

(* Time passes (strongly: a venue that flips for ever cannot stop it),     *)
(* timers fire and tasks run, tickers an up venue owes arrive, and a venue *)
(* that stays up does not let every attempt time out.                      *)
Fairness ==
  /\ SF_nodeVars(Tick) /\ WF_nodeVars(check_staleness)
  /\ \A e \in Exchanges :
       /\ WF_nodeVars(wake(e)) /\ WF_nodeVars(connectTimesOut(e))
       /\ SF_nodeVars(connectSucceeds(e))
       /\ \A f \in Feeds : WF_nodeVars(TickersDue(e) /\ age[f][e] >= StaleAfter /\ upsert(e, f))

NodeFairSpec == NodeSpec /\ Fairness

----------------------------------------------------------------------------
(* Properties                                                              *)

(* Types; the delay of a connector never exceeds the 30 s clamp. *)
NodeTypeOK ==
  /\ up \subseteq Exchanges
  /\ conn \in [Exchanges -> {"connecting", "streaming", "sleeping"}]
  /\ backoff \in [Exchanges -> Base .. MaxDelay]
  /\ timer \in [Exchanges -> 0 .. Max({MaxDelay, ConnectTimeout})]
  /\ age \in [Feeds -> [Exchanges -> 0 .. Never]]
  /\ stale \in BOOLEAN /\ monitorIn \in 0 .. Period
  /\ reconnects \in 0 .. MaxCount /\ failures \in 0 .. MaxCount

(* Time since the monitor last looked. *)
sinceCheck == Period - monitorIn

(* The flag is never silently down: a feed that was already silent for     *)
(* more than STALE_AFTER when the monitor last looked keeps it up, so an   *)
(* outage is reported at most one period after the threshold, whatever the *)
(* other feeds and exchanges do.                                           *)
SilenceIsReported ==
  monitorIn > 0 =>
    \A f \in Feeds : last_update(f) > StaleAfter + sinceCheck => stale

(* The flag is never stuck up: while it is, some feed was stale when the   *)
(* monitor last looked; at most it has been revived since.                 *)
AlarmsAreTrue ==
  stale => \E f \in Feeds : \/ last_update(f) > StaleAfter + sinceCheck
                            \/ last_update(f) <= sinceCheck

(* "Never exits": a connector whose venue comes back for good is streaming *)
(* again, whatever delay its failures had built up, and one such venue is  *)
(* enough to end an outage for good.                                       *)
ConnectorsRecover ==
  /\ \A e \in Exchanges : <>[](e \in up) => <>[](conn[e] = "streaming")
  /\ (\E e \in Exchanges : <>[](e \in up)) => <>[](~stale)

(* node.rs:59 and 289-290: the delay "doubles on consecutive failures" and *)
(* a connection that ended after streaming resets it: the first failure    *)
(* after a healthy stream waits the base delay.                            *)
BackoffRestartsAfterStream ==
  [][\A e \in Exchanges : conn[e] = "streaming" /\ conn'[e] = "sleeping"
        => timer'[e] = Base]_nodeVars
=============================================================================
