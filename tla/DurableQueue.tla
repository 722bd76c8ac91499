----------------------------- MODULE DurableQueue ------------------------------
(***************************************************************************)
(* What the command queue promises, without saying how: each accepted edit *)
(* takes effect at most once unless an operator asks for a retry, at most  *)
(* one edit at a time has an uncertain outcome, and the queue lets go of   *)
(* an edit only once it took effect, was attested by the operator, or was  *)
(* lost with the whole queue.  (docs/command-lifecycle.md in one page;     *)
(* CommandSync is shown to implement it.)                                  *)
(***************************************************************************)
EXTENDS Naturals

CONSTANTS Cmd, NoCmd

VARIABLES
    accepted,    \* edits whose service call returned success
    pending,     \* edits the queue still owes its user
    uncertain,   \* the edit whose outcome is on record as uncertain
    shown,       \* edits that took effect
    execs,       \* how often, since the operator last asked to try again
    attested     \* edits the operator declared applied

dqVars == <<accepted, pending, uncertain, shown, execs, attested>>

\* Nothing is uncertain, or what is uncertain did take effect.
Clear == uncertain = NoCmd \/ execs[uncertain] > 0

Init ==
    /\ accepted = {}
    /\ pending = {}
    /\ uncertain = NoCmd
    /\ shown = {}
    /\ execs = [c \in Cmd |-> 0]
    /\ attested = {}

Accept(c) ==
    /\ c \notin accepted
    /\ accepted' = accepted \cup {c}
    /\ pending' = pending \cup {c}
    /\ UNCHANGED <<uncertain, shown, execs, attested>>

\* An edit is about to be tried: from here its outcome is uncertain.
Begin(c) ==
    /\ Clear
    /\ c \in accepted \ attested
    /\ execs[c] = 0
    /\ uncertain' = c
    /\ UNCHANGED <<accepted, pending, shown, execs, attested>>

TakeEffect ==
    /\ uncertain # NoCmd
    /\ execs[uncertain] = 0
    /\ execs' = [execs EXCEPT ![uncertain] = @ + 1]
    /\ shown' = shown \cup {uncertain}
    /\ UNCHANGED <<accepted, pending, uncertain, attested>>

Confirm ==
    /\ uncertain # NoCmd
    /\ execs[uncertain] > 0
    /\ uncertain' = NoCmd
    /\ UNCHANGED <<accepted, pending, shown, execs, attested>>

Retry ==
    /\ uncertain # NoCmd
    /\ execs' = [execs EXCEPT ![uncertain] = 0]
    /\ uncertain' = NoCmd
    /\ UNCHANGED <<accepted, pending, shown, attested>>

Attest ==
    /\ uncertain # NoCmd
    /\ attested' = attested \cup {uncertain}
    /\ uncertain' = NoCmd
    /\ UNCHANGED <<accepted, pending, shown, execs>>

Retire(done) ==
    /\ done \subseteq shown \cup attested
    /\ pending' = pending \ done
    /\ UNCHANGED <<accepted, uncertain, shown, execs, attested>>

LoseQueue ==
    /\ pending' = {}
    /\ UNCHANGED <<accepted, uncertain, shown, execs, attested>>

Next ==
    \/ \E c \in Cmd : Accept(c) \/ Begin(c)
    \/ TakeEffect \/ Confirm \/ Retry \/ Attest
    \/ \E done \in SUBSET pending : Retire(done)
    \/ LoseQueue

Spec == Init /\ [][Next]_dqVars
================================================================================
