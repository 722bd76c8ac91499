-------------------------- MODULE EntryLifecycleProofs --------------------------
(***************************************************************************)
(* Theorems about EntryLifecycle, for any entries, tokens and bridges: the *)
(* registry of webhooks and the runtimes agree (RegistryInv), the identity *)
(* that one step of the config flow compares is the token that the other   *)
(* compares (IdentityInv), and a runtime whose token is not the stored one *)
(* has a reload to come (CurrentInv).                                      *)
(***************************************************************************)
EXTENDS EntryLifecycle, TLAPS

\* A runtime from the moment it is made has a token.
TokenInv ==
    \A e \in Entry : phase[e] \in {"loading"} \cup Registered => token[e] \in Token

\* The registry and the entries that are set up agree.
RegistryInv == NoStaleWebhook /\ LoadedIsReachable

\* The unique_id of a stored entry is that of its token.
IdentityInv ==
    /\ \A e \in Entry : entries[e] # NoEntry => entries[e].uniqueId = entries[e].token
    /\ IdentitiesDistinct

\* From its setup on, an entry without a reload to come has the stored token.
CurrentInv ==
    \A e \in Entry :
        phase[e] \in {"loading", "forwarding", "loaded"} /\ ~ pending[e]
        => token[e] = entries[e].token

\* The inductive invariant.
IInv == TypeOK /\ TokenInv /\ RegistryInv /\ IdentityInv /\ CurrentInv

\* An entry that is stored has a token, which Nothing is not.
LEMMA StoredType ==
    ASSUME TypeOK, NEW e \in Entry, phase[e] # "absent"
    PROVE  entries[e] \in Entries /\ entries[e] # NoEntry
BY DEF TypeOK

\* What is stored is not NoEntry.
LEMMA EntriesAreNotNoEntry == \A x \in Entries : x # NoEntry
BY NothingAssumption DEF Entries, NoEntry

\* The initial states satisfy the invariant.
LEMMA InitInv == Init => IInv
BY DEF Init, IInv, TypeOK, TokenInv, RegistryInv, NoStaleWebhook, LoadedIsReachable,
       IdentityInv, IdentitiesDistinct, CurrentInv, Phase, Registered

\* A step of one entry's setup or unload, which leaves the stored entries alone.
LEMMA RuntimeStepInv ==
    ASSUME IInv, NEW e \in Entry, Setup(e) \/ Unload(e)
    PROVE  IInv'
<1> USE DEF IInv, Goto
<1>1. phase[e] # "absent" /\ phase'[e] # "absent" /\ UNCHANGED <<entries, orphans>>
    BY DEF Setup, Unload, BeginSetup, LoadFails, Register, RegisterFails, PlatformsReady,
           PlatformFails, BeginUnload, FinishUnload, UnloadFails, TypeOK
<1>2. entries[e] \in Entries /\ entries[e].token \in Token
    BY <1>1, StoredType DEF Entries
<1>3. TypeOK'
    <2>1. \E place \in Phase \ {"absent"} : phase' = [phase EXCEPT ![e] = place]
        BY DEF Setup, Unload, BeginSetup, LoadFails, Register, RegisterFails, PlatformsReady,
               PlatformFails, BeginUnload, FinishUnload, UnloadFails, Phase
    <2>2. token' \in [Entry -> Token \cup {Nothing}]
        BY <1>2 DEF Setup, Unload, BeginSetup, LoadFails, Register, RegisterFails, TypeOK,
               PlatformsReady, PlatformFails, BeginUnload, FinishUnload, UnloadFails
    <2>3. pending' \in [Entry -> BOOLEAN]
        BY DEF Setup, Unload, BeginSetup, LoadFails, Register, RegisterFails, TypeOK,
               PlatformsReady, PlatformFails, BeginUnload, FinishUnload, UnloadFails
    <2>4. webhook' \in [Token -> Entry \cup {Nothing}]
        BY DEF Setup, Unload, BeginSetup, LoadFails, Register, RegisterFails, TypeOK,
               PlatformsReady, PlatformFails, BeginUnload, FinishUnload, UnloadFails
    <2>5. phase' \in [Entry -> Phase]
          /\ \A f \in Entry : phase'[f] = "absent" <=> phase[f] = "absent"
        BY <2>1, <1>1 DEF TypeOK
    <2> QED BY <1>1, <2>2, <2>3, <2>4, <2>5 DEF TypeOK
<1>4. TokenInv'
    BY <1>1, <1>2 DEF Setup, Unload, BeginSetup, LoadFails, Register, RegisterFails,
           PlatformsReady, PlatformFails, BeginUnload, FinishUnload, UnloadFails, TypeOK,
           TokenInv, Registered
<1>5. IdentityInv'
    BY <1>1 DEF IdentityInv, IdentitiesDistinct
<1>6. CurrentInv'
    BY <1>1 DEF Setup, Unload, BeginSetup, LoadFails, Register, RegisterFails,
           PlatformsReady, PlatformFails, BeginUnload, FinishUnload, UnloadFails, TypeOK,
           CurrentInv
<1>7. RegistryInv'
    <2> USE DEF RegistryInv, NoStaleWebhook, LoadedIsReachable, TypeOK, Registered
    <2>1. CASE BeginSetup(e)
        BY <2>1, <1>1, NothingAssumption DEF BeginSetup
    <2>2. CASE LoadFails(e) \/ RegisterFails(e)
        BY <2>2, <1>1, NothingAssumption DEF LoadFails, RegisterFails
    <2>3. CASE Register(e)
        BY <2>3, <1>1, NothingAssumption DEF Register, TokenInv
    <2>4. CASE PlatformsReady(e) \/ BeginUnload(e) \/ UnloadFails(e)
        BY <2>4, <1>1, NothingAssumption DEF PlatformsReady, BeginUnload, UnloadFails
    <2>5. CASE PlatformFails(e) \/ FinishUnload(e)
        BY <2>5, <1>1, NothingAssumption DEF PlatformFails, FinishUnload, TokenInv
    <2> QED BY <2>1, <2>2, <2>3, <2>4, <2>5 DEF Setup, Unload
<1> QED BY <1>3, <1>4, <1>5, <1>6, <1>7

\* A step of the config flow stores an entry or changes one.
LEMMA FlowStepInv ==
    ASSUME IInv, NEW e \in Entry, NEW t \in Token,
           ChangeToken(e, t) \/ (\E b \in Bridge : AddEntry(e, t, b))
    PROVE  IInv'
<1> USE DEF IInv, Goto
<1>1. CASE ChangeToken(e, t)
    <2>1. entries[e] \in Entries /\ entries[e] # NoEntry
        BY <1>1, StoredType DEF ChangeToken
    <2>2. entries'[e] \in Entries /\ entries'[e].token = t /\ entries'[e].uniqueId = t
          /\ entries'[e].bridge = entries[e].bridge
        BY <1>1, <2>1 DEF ChangeToken, Entries, TypeOK
    <2>3. \A f \in Entry \ {e} : entries'[f] = entries[f] /\ entries[f].token # t
        BY <1>1 DEF ChangeToken, TokenInUse, TypeOK
    <2>4. UNCHANGED <<phase, token, webhook, orphans>>
        BY <1>1 DEF ChangeToken
    <2>5. pending' = [pending EXCEPT ![e] = TRUE]
        BY <1>1 DEF ChangeToken
    <2>6. TypeOK'
        <3>1. entries' \in [Entry -> Entries \cup {NoEntry}]
            BY <1>1, <2>2, <2>3 DEF ChangeToken, TypeOK
        <3>2. entries'[e] # NoEntry
            BY <2>2, EntriesAreNotNoEntry
        <3> QED BY <3>1, <3>2, <2>1, <2>3, <2>4, <2>5 DEF TypeOK
    <2>7. TokenInv' /\ RegistryInv'
        BY <2>4 DEF TokenInv, RegistryInv, NoStaleWebhook, LoadedIsReachable
    <2>8. IdentityInv'
        BY <2>1, <2>2, <2>3 DEF IdentityInv, IdentitiesDistinct
    <2>9. CurrentInv'
        BY <2>3, <2>4, <2>5 DEF CurrentInv, TypeOK
    <2> QED BY <2>6, <2>7, <2>8, <2>9
<1>2. ASSUME NEW b \in Bridge, AddEntry(e, t, b) PROVE IInv'
    <2> DEFINE new == [token |-> t, uniqueId |-> t, bridge |-> b]
    <2>1. new \in Entries /\ new # NoEntry
        BY EntriesAreNotNoEntry DEF Entries
    <2>2. entries' = [entries EXCEPT ![e] = new] /\ phase[e] = "absent"
          /\ phase' = [phase EXCEPT ![e] = "unloaded"]
          /\ UNCHANGED <<token, pending, webhook, orphans>>
        BY <1>2 DEF AddEntry
    <2>3. \A f \in Entry : entries[f].bridge # b /\ entries[f].uniqueId # t
        BY <1>2 DEF AddEntry, BridgeIdInUse, UniqueIdConfigured
    <2>4. TypeOK'
        BY <2>1, <2>2 DEF TypeOK, Phase
    <2>5. TokenInv' /\ RegistryInv' /\ CurrentInv'
        BY <2>2 DEF TypeOK, TokenInv, RegistryInv, NoStaleWebhook, LoadedIsReachable,
                    Registered, CurrentInv
    <2>6. IdentityInv'
        <3>1. \A f \in Entry : entries'[f] = IF f = e THEN new ELSE entries[f]
            BY <2>2 DEF TypeOK
        <3>2. \A f \in Entry : entries[f] # NoEntry => entries[f].token # t
            BY <2>3 DEF IdentityInv
        <3> QED BY <3>1, <3>2, <2>3 DEF IdentityInv, IdentitiesDistinct
    <2> QED BY <2>4, <2>5, <2>6
<1> QED BY <1>1, <1>2

\* An entry is removed; a stuck one leaves its webhook among the orphans.
LEMMA RemoveInv ==
    ASSUME IInv, NEW e \in Entry, Remove(e)
    PROVE  IInv'
<1> USE DEF IInv, Goto
<1>1. /\ phase[e] \in {"unloaded", "error", "stuck"}
      /\ entries' = [entries EXCEPT ![e] = NoEntry]
      /\ phase' = [phase EXCEPT ![e] = "absent"]
      /\ pending' = [pending EXCEPT ![e] = FALSE]
      /\ UNCHANGED <<token, webhook>>
    BY DEF Remove, RemoveEntry, RemoveStuck
<1>2. orphans' = IF phase[e] = "stuck" THEN orphans \cup {token[e]} ELSE orphans
    BY DEF Remove, RemoveEntry, RemoveStuck
<1>3. TypeOK'
    BY <1>1, <1>2 DEF TypeOK, Phase, TokenInv, Registered
<1>4. TokenInv' /\ CurrentInv'
    BY <1>1 DEF TokenInv, CurrentInv, TypeOK, Registered
<1>5. IdentityInv'
    <2>1. \A f \in Entry : entries'[f] = IF f = e THEN NoEntry ELSE entries[f]
        BY <1>1 DEF TypeOK
    <2> QED BY <2>1 DEF IdentityInv, IdentitiesDistinct
<1>6. RegistryInv'
    BY <1>1, <1>2 DEF RegistryInv, NoStaleWebhook, LoadedIsReachable, TypeOK, Registered
<1> QED BY <1>3, <1>4, <1>5, <1>6

\* Every step keeps the invariant.
LEMMA NextInv == IInv /\ [Next]_vars => IInv'
<1> SUFFICES ASSUME IInv, [Next]_vars PROVE IInv'
    OBVIOUS
<1>1. ASSUME NEW e \in Entry, NEW t \in Token, NEW b \in Bridge, AddEntry(e, t, b)
      PROVE IInv'
    BY <1>1, FlowStepInv
<1>2. ASSUME NEW e \in Entry, NEW t \in Token, ChangeToken(e, t) PROVE IInv'
    BY <1>2, FlowStepInv
<1>3. ASSUME NEW e \in Entry, ChangeScope(e) PROVE IInv'
    BY <1>3 DEF ChangeScope, IInv, TypeOK, TokenInv, RegistryInv, NoStaleWebhook,
                LoadedIsReachable, IdentityInv, IdentitiesDistinct, CurrentInv
<1>4. ASSUME NEW e \in Entry, Setup(e) \/ Unload(e) PROVE IInv'
    BY <1>4, RuntimeStepInv
<1>5. ASSUME NEW e \in Entry, Remove(e) PROVE IInv'
    BY <1>5, RemoveInv
<1>6. CASE Restart
    BY <1>6 DEF Restart, IInv, TypeOK, TokenInv, RegistryInv, NoStaleWebhook, Phase,
                LoadedIsReachable, IdentityInv, IdentitiesDistinct, CurrentInv, Registered
<1>7. CASE UNCHANGED vars
    BY <1>7 DEF vars, IInv, TypeOK, TokenInv, RegistryInv, NoStaleWebhook,
                LoadedIsReachable, IdentityInv, IdentitiesDistinct, CurrentInv
<1> QED BY <1>1, <1>2, <1>3, <1>4, <1>5, <1>6, <1>7 DEF Next

\* The invariant holds in every behaviour.
LEMMA Invariance == Spec => []IInv
BY InitInv, NextInv, PTL DEF Spec

\* Every variable has its type, and an entry is stored while it has a phase
\* (config_flow.py:124, __init__.py:23).
THEOREM TypeCorrect == Spec => []TypeOK
<1>1. IInv => TypeOK
    BY DEF IInv
<1> QED BY <1>1, Invariance, PTL

\* A registered webhook is that of an entry that is set up, under the token its
\* runtime was made with (__init__.py:63-80).
THEOREM NoWebhookStaysOpen == Spec => []NoStaleWebhook
<1>1. IInv => NoStaleWebhook
    BY DEF IInv, RegistryInv
<1> QED BY <1>1, Invariance, PTL

\* Nothing that happens to another entry takes away the webhook of one that is set
\* up (__init__.py:50-80).
THEOREM WebhookReachesItsEntry == Spec => []LoadedIsReachable
<1>1. IInv => LoadedIsReachable
    BY DEF IInv, RegistryInv
<1> QED BY <1>1, Invariance, PTL

\* No two entries share a token or a bridge (config_flow.py:124, :185).
THEOREM NoSharedIdentity == Spec => []IdentitiesDistinct
<1>1. IInv => IdentitiesDistinct
    BY DEF IInv, IdentityInv
<1> QED BY <1>1, Invariance, PTL

\* A loaded entry without a reload to come listens under the stored token
\* (config_flow.py:56-67).
THEOREM RotationTakesEffect == Spec => []SettledUsesCurrentToken
<1>1. IInv => SettledUsesCurrentToken
    BY DEF IInv, CurrentInv, SettledUsesCurrentToken
<1> QED BY <1>1, Invariance, PTL
================================================================================
