------------------------- MODULE RouteLedger_proofs -------------------------
(***************************************************************************)
(* What the promise of RouteLedger amounts to.                             *)
(***************************************************************************)
EXTENDS RouteLedger, TLAPS

LEMMA LedgerNextServes == ClosedServed /\ [LedgerNext]_ledgerVars => ClosedServed'
<1> SUFFICES ASSUME ClosedServed, [LedgerNext]_ledgerVars PROVE ClosedServed'
  OBVIOUS
<1>1. ASSUME NEW H \in SUBSET Host, Begin(H) PROVE ClosedServed'
  BY <1>1 DEF Begin, ClosedServed, Agree
<1>2. ASSUME NEW H \in SUBSET Host, Answer(H) PROVE ClosedServed'
  BY <1>2 DEF Answer, ClosedServed, Agree
<1>3. CASE Record
  BY <1>3 DEF Record, ClosedServed, Agree
<1>4. CASE ComeUp \/ GoDown
  BY <1>4 DEF ComeUp, GoDown, ClosedServed, Agree
<1>5. CASE UNCHANGED ledgerVars
  BY <1>5 DEF ledgerVars, ClosedServed, Agree
<1> QED BY <1>1, <1>2, <1>3, <1>4, <1>5 DEF LedgerNext

(***************************************************************************)
(* A ledger serves every closed host as it is recorded, in every state.    *)
(***************************************************************************)
THEOREM LedgerServes == Spec => []ClosedServed
<1>1. LedgerInit => ClosedServed
  BY DEF LedgerInit, ClosedServed, Agree
<1> QED BY <1>1, LedgerNextServes, PTL DEF Spec

=============================================================================
