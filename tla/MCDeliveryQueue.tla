-------------------------- MODULE MCDeliveryQueue ---------------------------
(* Instances of DeliveryQueue for TLC.                                     *)
EXTENDS DeliveryQueue, TLC

CONSTANTS p1, p2

Symmetry == Permutations(Procs)

TraitsOf(payloads, timely, identifies, exacts) ==
  {t \in [payloads : {payloads}, timely : {timely}, identifies : {identifies}, exact : exacts,
          dispatches : BOOLEAN, bestEffort : BOOLEAN, required : BOOLEAN, stable : BOOLEAN] :
     t.exact => t.dispatches}

Single == TraitsOf(1, FALSE, FALSE, BOOLEAN)
Batch(identifies) == {t \in TraitsOf(2, TRUE, identifies, {FALSE}) : ~t.required /\ ~t.stable}

\* One payload with everything, and batches whose sends return an identity.
SafetyTraits == Single \union Batch(TRUE)
\* Best effort goes on after a failed payload; without it the catch decides.
SilentTraits == {t \in Batch(FALSE) : t.bestEffort}
LiveTraits == {t \in Single : ~t.stable}
=============================================================================
