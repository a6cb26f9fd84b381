---------------------------- MODULE RouteLedger ----------------------------
(***************************************************************************)
(* What the daemon promises its callers, without handlers, locks or saves. *)
(*                                                                         *)
(* There is a durable table and, while the daemon is up, a served one.  A  *)
(* host is open from the moment a mutation of it begins until one is       *)
(* answered with success; a failed mutation leaves it open.  Only open     *)
(* hosts change durably, a host is closed only when it is served as it is  *)
(* recorded, and a closed host stays that way across crashes.              *)
(***************************************************************************)
EXTENDS Routes

VARIABLES
  ledger,   \* the durable table
  served,   \* the table clients of the proxy see
  up,       \* the daemon runs
  open      \* hosts with a mutation that is not answered, or failed

ledgerVars == <<ledger, served, up, open>>

LedgerInit ==
  /\ ledger = EmptyTable
  /\ served = EmptyTable
  /\ up = FALSE
  /\ open = {}

Agree(s, t, H) == \A h \in H : s[h] = t[h]

Begin(H) ==
  /\ up
  /\ open' = open \cup H
  /\ UNCHANGED <<ledger, served, up>>

(***************************************************************************)
(* A save: it may carry along what an earlier failed mutation left.        *)
(***************************************************************************)
Record ==
  /\ up
  /\ ledger' \in Table
  /\ Agree(ledger', ledger, Host \ open)
  /\ UNCHANGED <<served, up, open>>

Answer(H) ==
  /\ up
  /\ served' \in Table
  /\ open' = open \ H
  /\ Agree(served', ledger, Host \ open')
  /\ UNCHANGED <<ledger, up>>

ComeUp ==
  /\ ~up
  /\ up' = TRUE
  /\ served' = ledger
  /\ UNCHANGED <<ledger, open>>

GoDown ==
  /\ up
  /\ up' = FALSE
  /\ served' = EmptyTable
  /\ UNCHANGED <<ledger, open>>

LedgerNext ==
  \/ \E H \in SUBSET Host : Begin(H) \/ Answer(H)
  \/ Record \/ ComeUp \/ GoDown

Spec == LedgerInit /\ [][LedgerNext]_ledgerVars

(***************************************************************************)
(* While the daemon is up, every closed host is served as it is recorded.  *)
(***************************************************************************)
ClosedServed == up => Agree(served, ledger, Host \ open)

=============================================================================
