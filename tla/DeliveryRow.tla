----------------------------- MODULE DeliveryRow -----------------------------
(***************************************************************************)
(* One row of the outbound delivery queue and the transactions that change *)
(* it (src/infra/delivery-queue-sqlite-claim.ts, delivery-queue-sqlite.ts  *)
(* and src/infra/outbound/delivery-queue-storage.ts).  The row is shared   *)
(* by every process that opens the state database; each operator here is   *)
(* one transaction: its guard, or the row it leaves.                       *)
(*                                                                         *)
(* A row is created with the claim of its live producer, so that           *)
(* requiresProducerClaim holds for all of them.                            *)
(***************************************************************************)
EXTENDS Naturals

CONSTANTS
  MaxClaims,        \* bound: claim ids handed out
  MaxMarks,         \* bound: sends a single owner may mark
  MaxRetries,       \* the retry budget of the row
  Lease             \* PLATFORM_SEND_OWNER_LEASE_MS

ASSUME RowAssumption ==
  /\ MaxClaims \in Nat \ {0} /\ MaxMarks \in Nat \ {0}
  /\ MaxRetries \in Nat \ {0} /\ Lease \in Nat \ {0}

Claims == 1 .. MaxClaims
None == 0                          \* an undefined id

States == {"none", "claimed", "started", "unknown"}

\* `claim' is producerClaimId, `attempt' platformSendAttemptId, `lease' the time
\* until availableAt.  `started' stands for platformSendStartedAt: two instants
\* of one attempt are equal if no mark lies between them.  The counters
\* saturate at the budget, the only value they are compared with.
Row == [status : {"absent", "pending", "acked", "dropped", "failed"},
        state : States, claim : Claims \union {None}, attempt : Claims \union {None},
        started : 0 .. MaxMarks, lease : 0 .. Lease,
        retries : 0 .. MaxRetries, reserved : 0 .. MaxRetries]

Gone(status) == [status |-> status, state |-> "none", claim |-> None, attempt |-> None,
                 started |-> 0, lease |-> 0, retries |-> 0, reserved |-> 0]

\* ackDelivery leaves a receipt, if the row asks for one, unless it is suppressed.
Acked == Gone("acked")
Dropped == Gone("dropped")
\* moveToFailed
Dead == Gone("failed")

Pending(r) == r.status = "pending"

AnyOwner(r, c) == Pending(r)                            \* mutant of Owned
\* transitionOwnedDeliveryQueueEntry: the exact owner, or that there is none
Owned(r, c) ==
  /\ Pending(r)
  /\ IF c = None THEN r.attempt = None /\ r.claim = None ELSE c \in {r.attempt, r.claim}

\* createInitialDeliveryProducerClaim
Enqueued(c) ==
  [Gone("pending") EXCEPT !.state = "claimed", !.claim = c, !.lease = Lease]

-----------------------------------------------------------------------------
(* The claim at the platform boundary.                                     *)

\* An attempt that reconciliation found not sent, and that has not moved since.
Reconciled(r, attempt, started) ==
  /\ r.state = "started" /\ started # 0 /\ attempt # None
  /\ r.started = started /\ r.attempt = attempt

\* claimDeliveryQueueEntryPlatformSend
Claimable(r, attempt, started) ==
  /\ Pending(r)
  /\ r.started # 0 => r.started = started /\ r.attempt = attempt /\ r.attempt # None
  /\ \/ r.state = "none"
     \/ r.state = "claimed" /\ r.lease = 0
     \/ Reconciled(r, attempt, started)
Claimed(r, c) ==
  [r EXCEPT !.state = "claimed", !.claim = c, !.attempt = None, !.started = 0, !.lease = Lease]

Marked(r) == r.state \in {"started", "unknown"}

\* renewDeliveryQueueEntryPlatformSendLease
Renewable(r, c) ==
  /\ Pending(r) /\ r.lease > 0
  /\ IF r.state = "claimed" THEN r.claim = c ELSE Marked(r) /\ r.attempt = c
Renewed(r) == [r EXCEPT !.lease = Lease]

\* promoteDeliveryQueueEntryPlatformSend
Promotable(r, c) ==
  Pending(r) /\ r.started = 0 /\ r.state = "claimed" /\ r.claim = c /\ r.lease > 0
Promoted(r, c) ==
  [r EXCEPT !.state = "started", !.claim = None, !.attempt = c, !.started = 1, !.lease = Lease]

\* dispatchDeliveryQueueEntryPlatformSend
Dispatchable(r, c) ==
  /\ Pending(r) /\ r.lease > 0
  /\ \/ r.state = "claimed" /\ r.claim = c
     \/ Marked(r) /\ r.attempt = c
Dispatched(r, c) ==
  [r EXCEPT !.state = IF @ = "unknown" THEN @ ELSE "started",
            !.lease = IF r.state = "claimed" THEN Lease ELSE @,
            !.claim = None, !.attempt = c, !.started = @ + 1]

-----------------------------------------------------------------------------
(* What a settled attempt leaves behind.                                   *)

Started(r) == IF r.started = 0 THEN 1 ELSE r.started
NeverCounted(n) == n                                    \* mutant of Counted
Counted(n) == IF n < MaxRetries THEN n + 1 ELSE n

\* markDeliveryPlatformOutcomeUnknown
OutcomeUnknown(r, c) ==
  [r EXCEPT !.state = "unknown", !.claim = None, !.started = Started(r),
            !.lease = IF r.attempt = c THEN @ ELSE 0]

\* failDelivery keeps the evidence of a send and releases the owner.
FailedClean(r) ==                                       \* mutant of Failed
  [r EXCEPT !.state = "none", !.claim = None, !.started = 0, !.lease = 0, !.retries = Counted(@)]
Failed(r) ==
  [r EXCEPT !.state = IF @ = "claimed" THEN "none" ELSE @,
            !.claim = None, !.lease = 0, !.retries = Counted(@)]

\* failDeliveryBeforePlatformSend
FailedBefore(r) ==
  [r EXCEPT !.state = "none", !.claim = None, !.attempt = None, !.started = 0,
            !.lease = 0, !.retries = Counted(@)]

\* failDeliveryAfterPlatformSend
FailedAfter(r) ==
  [r EXCEPT !.state = "unknown", !.claim = None, !.started = Started(r),
            !.lease = 0, !.retries = Counted(@)]

\* reserveDeliveryAttempt, resolveAttemptCount
Attempts(r) == IF r.retries < r.reserved THEN r.reserved ELSE r.retries
Exhausted(r) == Attempts(r) >= MaxRetries
Reserved(r) == [r EXCEPT !.reserved = Attempts(r) + 1]
=============================================================================
