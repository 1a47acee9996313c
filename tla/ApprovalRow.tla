----------------------------- MODULE ApprovalRow ------------------------------
(***************************************************************************)
(* The durable row of one operator approval and the write transactions of  *)
(* src/gateway/operator-approval-store.ts on it.                           *)
(*                                                                         *)
(* The row keeps how it ended in `outcome' (status, decision and terminal  *)
(* reason together), the runtime epoch that owns it, its times, whether an *)
(* allow-once was redeemed, and whether it still decodes.  A transaction   *)
(* returns the row it leaves and its result.                               *)
(***************************************************************************)
EXTENDS Naturals

CONSTANT Allowed    \* allow decisions the presentation offers

Allows == {"allow-once", "allow-always"}
Terminal == Allows \union {"denied", "no-route", "expired", "cancelled", "corrupt"}

ASSUME AllowedAssumption == Allowed \subseteq Allows

NoRow == [outcome |-> "absent", epoch |-> 0, expires |-> 0, resolved |-> 0,
          spent |-> FALSE, readable |-> TRUE]

\* insertOperatorApproval: an id is inserted once.  A second insert of it differs
\* from the row in its times at least, and conflicts.
Inserted(l, now, timeout) ==
  [NoRow EXCEPT !.outcome = "pending", !.epoch = l, !.expires = now + timeout]

\* Every terminal update asks for a pending row: the first answer stands.
Settle(r, o, now) ==
  IF r.outcome = "pending" THEN [r EXCEPT !.outcome = o, !.resolved = now] ELSE r

Due(r, now) == r.outcome = "pending" /\ r.expires <= now
Owned(r, l) == r.outcome # "absent" /\ r.epoch = l
Done(r, result) == [row |-> r, result |-> result]

ExpireDue(r, now) == IF Due(r, now) THEN Settle(r, "expired", now) ELSE r

\* A row that does not decode is denied before anything else is made of it.
Unreadable(r, now) == Done(Settle(r, "corrupt", now), "corrupt")

\* getOperatorApprovalDetailed
Read(r, now) ==
  CASE r.outcome = "absent" -> Done(r, "missing")
    [] r.outcome # "absent" /\ r.readable -> Done(ExpireDue(r, now), "found")
    [] OTHER -> Unreadable(ExpireDue(r, now), now)

\* resolveOperatorApproval
Resolve(r, l, d, now) ==
  CASE ~Owned(r, l) -> Done(r, "missing")
    [] Owned(r, l) /\ ~r.readable -> Unreadable(r, now)
    [] Owned(r, l) /\ r.readable /\ r.outcome \in Terminal -> Done(r, "already")
    [] Owned(r, l) /\ r.readable /\ Due(r, now) -> Done(ExpireDue(r, now), "expired")
    [] OTHER -> IF d \in Allowed \union {"deny"}
                THEN Done(Settle(r, IF d = "deny" THEN "denied" ELSE d, now), "resolved")
                ELSE Done(r, "not-allowed")

\* forceDenyOperatorApproval, into the outcome o; only an expiry requires the
\* deadline to have passed.
ForceDeny(r, l, o, now) ==
  CASE ~Owned(r, l) -> Done(r, "missing")
    [] Owned(r, l) /\ Due(r, now) ->
         Done(ExpireDue(r, now), IF r.readable THEN "expired" ELSE "corrupt")
    [] Owned(r, l) /\ ~Due(r, now) /\ ~r.readable -> Unreadable(r, now)
    [] Owned(r, l) /\ r.readable /\ r.outcome \in Terminal -> Done(r, "already")
    [] OTHER -> IF o = "expired" THEN Done(r, "not-due") ELSE Done(Settle(r, o, now), "denied")

\* closeOrphanedOperatorApprovals, at the startup of lifetime l
CloseOrphaned(r, l, now) == IF r.epoch # l THEN Settle(r, "cancelled", now) ELSE r

\* consumeOperatorApprovalAllowOnce: redeemed within the window, and once.
Consume(r, l, window, now) ==
  CASE ~Owned(r, l) -> Done(r, "missing")
    [] Owned(r, l) /\ ~r.readable -> Unreadable(ExpireDue(r, now), now)
    [] OTHER -> IF r.outcome = "allow-once" /\ ~r.spent /\ r.resolved + window > now
                THEN Done([r EXCEPT !.spent = TRUE], "consumed")
                ELSE Done(ExpireDue(r, now), "refused")
=============================================================================
