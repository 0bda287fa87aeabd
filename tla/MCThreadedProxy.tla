-------------------------- MODULE MCThreadedProxy --------------------------
(***************************************************************************)
(* The threaded proxy, and the rate limiter as the connections keep it; a  *)
(* behaviour is one of one of them:                                        *)
(*   "proxy"    two controllers; a connection with a batch, with a rate    *)
(*              limit, with both, on a switch that accepts everything, and *)
(*              a plain one on a switch that may reject                    *)
(*   "limiter"  three requests a second, four ticks to the second          *)
(***************************************************************************)
EXTENDS ThreadedProxy

CONSTANTS c1, c2, LimiterRate, LimiterTicks, MaxTime

VARIABLES system, now, bucket, lastTick, opened, taken

MCModes == {m \in [batching : BOOLEAN, limited : BOOLEAN, rejects : BOOLEAN] :
              m.rejects <=> ~(m.batching \/ m.limited)}
MCWriters == {c1, c2, Main}

L == INSTANCE RateLimiter WITH MaxPerSec <- LimiterRate, TicksPerSec <- LimiterTicks

ASSUME LimiterAssumption == L!RateAssumption

limiterVars == <<now, bucket, lastTick, opened, taken>>

MCInit ==
  /\ system \in {"proxy", "limiter"} /\ Init /\ L!Init
  /\ system = "limiter" => mode = CHOOSE m \in Modes : TRUE

ProxyStep == system = "proxy" /\ Next /\ UNCHANGED <<system, limiterVars>>
LimiterStep == system = "limiter" /\ L!Next /\ UNCHANGED <<system, vars>>

MCNext == ProxyStep \/ LimiterStep

MCSpec == MCInit /\ [][MCNext]_<<system, vars, limiterVars>> /\ (system = "proxy" => Fairness)

\* No window of time lets more through than the burst and the rate allow.
RateBound == L!RateBound

\* Draining lazily is draining all the time.
ImplementsBucket == L!ImplementsBucket
=============================================================================
