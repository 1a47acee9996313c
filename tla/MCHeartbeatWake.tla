-------------------------- MODULE MCHeartbeatWake ---------------------------
(* Instances of HeartbeatWake for TLC.                                     *)
EXTENDS HeartbeatWake

CONSTANTS a, b, c

Offer(ts, intents, cs) == [target : ts, intent : intents, coalesce : cs]

\* Three agents compete for two slots, one of them with a second wake, and the
\* unscoped target with all of them.
SomeOffers == Offer({a}, {"event"}, {1}) \union Offer({a}, {"task"}, {0})
              \union Offer({b, c}, {"event"}, {0}) \union Offer({Global}, {"immediate"}, {0})
=============================================================================
