------------------------------ MODULE BridgeState ------------------------------
(***************************************************************************)
(* The acknowledgement state a bridge process keeps on the Mac             *)
(* (internal/state/state.go): the bounded ledger of applied command        *)
(* identifiers, the journalled in-flight command and the accepted queue    *)
(* epoch.  Pure operators on the state value; the processes that load,     *)
(* change and save it are in MacBridge.                                    *)
(*                                                                         *)
(* A command stands for its identifier: whatever else the JSON command     *)
(* carries is fixed when Home Assistant creates it.                        *)
(***************************************************************************)
EXTENDS Naturals, Sequences, Functions

CONSTANTS
    Cmd,        \* the commands Home Assistant may ever create
    NoCmd,      \* no command in flight (a nil pointer in the code)
    LedgerCap   \* maxAppliedCommands

ASSUME NoCmdAssumption == NoCmd \notin Cmd
ASSUME LedgerCapAssumption == LedgerCap \in Nat \ {0}

\* Queue epochs are fresh identifiers: 1, 2, ... in the order Home Assistant
\* creates them, and 0 for the absent epoch (the empty string).
NoEpoch == 0

State == [applied : Seq(Cmd), inFlight : Cmd \cup {NoCmd}, epoch : Nat]

\* What Load returns when there is no state file.
EmptyState == [applied |-> <<>>, inFlight |-> NoCmd, epoch |-> NoEpoch]

Has(s, c) == c \in Range(s.applied)

\* A faulty variant of Newest: an off-by-one that evicts one entry too many.
NewestOffByOne(ledger) ==
    IF Len(ledger) >= LedgerCap
    THEN SubSeq(ledger, Len(ledger) - LedgerCap + 2, Len(ledger))
    ELSE ledger

\* The newest LedgerCap entries of a ledger.
Newest(ledger) ==
    IF Len(ledger) > LedgerCap
    THEN SubSeq(ledger, Len(ledger) - LedgerCap + 1, Len(ledger))
    ELSE ledger

\* A faulty variant of MarkApplied: the journal keeps the command.
MarkAppliedKeepsJournal(s, c) ==
    [s EXCEPT !.applied = IF Has(s, c) THEN @ ELSE Newest(Append(@, c))]

\* Record a command as applied: append it to the ledger unless it is there,
\* evict the oldest entry over the bound, clear the journal if it holds it.
MarkApplied(s, c) ==
    [s EXCEPT !.applied  = IF Has(s, c) THEN @ ELSE Newest(Append(@, c)),
              !.inFlight = IF @ = c THEN NoCmd ELSE @]

\* What Save demands of the state it writes and Load of the state it reads.
Valid(s) ==
    /\ Len(s.applied) <= LedgerCap
    /\ IsInjective(s.applied)
    /\ s.inFlight # NoCmd => ~Has(s, s.inFlight)
================================================================================
