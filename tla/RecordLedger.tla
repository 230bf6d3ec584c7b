---------------------------- MODULE RecordLedger ----------------------------
(***************************************************************************)
(* What the normalized telemetry writer promises its callers: an admitted  *)
(* record is settled, stored or lost, in batches, and Close reports        *)
(* success only when every admitted record was stored.                     *)
(***************************************************************************)
CONSTANT Record

VARIABLES
    ledger,     \* what became of each record
    outcome     \* what Close returned

ledgerVars == <<ledger, outcome>>

Entry == {"open", "admitted", "declined", "stored", "lost"}

LedgerInit ==
    /\ ledger = [r \in Record |-> "open"]
    /\ outcome = "none"

\* Records of the set go from one entry to the next together.
Moved(records, from, to) ==
    /\ \A r \in records : ledger[r] = from
    /\ ledger' = [r \in Record |-> IF r \in records THEN to ELSE ledger[r]]
    /\ UNCHANGED outcome

Admit(r) == outcome = "none" /\ Moved({r}, "open", "admitted")

Decline(r) == Moved({r}, "open", "declined")

Settle(records) ==
    /\ outcome = "none"
    /\ \/ Moved(records, "admitted", "stored")
       \/ Moved(records, "admitted", "lost")

\* Success means that nothing is outstanding and nothing was lost.
CloseReturns(result) ==
    /\ outcome = "none"
    /\ result = "ok" => \A r \in Record : ledger[r] \notin {"admitted", "lost"}
    /\ outcome' = result
    /\ UNCHANGED ledger

LedgerNext ==
    \/ \E r \in Record : Admit(r) \/ Decline(r)
    \/ \E records \in SUBSET Record : Settle(records)
    \/ \E result \in {"ok", "error"} : CloseReturns(result)

LedgerSpec == LedgerInit /\ [][LedgerNext]_ledgerVars
=============================================================================
