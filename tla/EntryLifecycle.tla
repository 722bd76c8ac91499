----------------------------- MODULE EntryLifecycle -----------------------------
(***************************************************************************)
(* The config entries of the integration and their webhooks: creation and  *)
(* reconfiguration (config_flow.py), setup and unload (__init__.py:23-80). *)
(* An entry is set up, reloaded and removed by Home Assistant one step at  *)
(* a time, but several entries at once, and its data may change at any     *)
(* time; the registry of webhooks is common to all.                        *)
(*                                                                         *)
(* A pairing token stands for itself and for its hash, the unique_id.      *)
(* HARuntime has what the runtime between setup and unload does.           *)
(***************************************************************************)
EXTENDS Naturals

CONSTANTS
    Entry,   \* identities of config entries
    Token,   \* pairing tokens, which are webhook identifiers
    Bridge,  \* bridge identifiers
    Nothing  \* no entry, no token

ASSUME NothingAssumption == Nothing \notin Entry \cup Token \cup Bridge

VARIABLES
    entries,  \* the stored entries: token, unique_id and bridge_id, or Nothing
    phase,    \* where each entry is between setup and unload
    token,    \* the token of its runtime: runtime.webhook_token
    pending,  \* a reload is scheduled
    webhook,  \* Home Assistant's registry: whose handler a token reaches
    orphans   \* history: webhooks of entries that were removed while stuck

vars == <<entries, phase, token, pending, webhook, orphans>>

Entries == [token : Token, uniqueId : Token, bridge : Bridge]

Phase == {"absent", "unloaded", "loading", "forwarding", "loaded", "unloading",
          "error", "stuck"}

\* The phases in which the webhook of an entry is registered.
Registered == {"forwarding", "loaded", "unloading", "stuck"}

NoEntry == [token |-> Nothing, uniqueId |-> Nothing, bridge |-> Nothing]

Goto(e, place) == phase' = [phase EXCEPT ![e] = place]

(***************************************************************************)
(* The config flow.                                                        *)
(***************************************************************************)

BridgeIdInUse(b) == \E e \in Entry : entries[e].bridge = b

UniqueIdConfigured(t) == \E e \in Entry : entries[e].uniqueId = t

TokenInUse(t, current) == \E e \in Entry \ {current} : entries[e].token = t

\* A faulty variant of AddEntry: the unique_id is compared and not stored.
AddEntryWithoutId(e, t, b) ==
    /\ phase[e] = "absent"
    /\ ~ BridgeIdInUse(b) /\ ~ UniqueIdConfigured(t)
    /\ entries' = [entries EXCEPT ![e] = [token |-> t, uniqueId |-> Nothing, bridge |-> b]]
    /\ Goto(e, "unloaded")
    /\ UNCHANGED <<token, pending, webhook, orphans>>

\* async_step_user: a new entry, which Home Assistant sets up next.
AddEntry(e, t, b) ==
    /\ phase[e] = "absent"
    /\ ~ BridgeIdInUse(b) /\ ~ UniqueIdConfigured(t)
    /\ entries' = [entries EXCEPT ![e] = [token |-> t, uniqueId |-> t, bridge |-> b]]
    /\ Goto(e, "unloaded")
    /\ UNCHANGED <<token, pending, webhook, orphans>>

\* A faulty variant of ChangeToken: the unique_id stays.
ChangeTokenOnly(e, t) ==
    /\ phase[e] # "absent" /\ ~ TokenInUse(t, e)
    /\ entries' = [entries EXCEPT ![e].token = t]
    /\ pending' = [pending EXCEPT ![e] = TRUE]
    /\ UNCHANGED <<phase, token, webhook, orphans>>

\* A faulty variant of ChangeToken: the entry is not reloaded.
ChangeTokenLater(e, t) ==
    /\ phase[e] # "absent" /\ ~ TokenInUse(t, e)
    /\ entries' = [entries EXCEPT ![e].token = t, ![e].uniqueId = t]
    /\ UNCHANGED <<phase, token, pending, webhook, orphans>>

\* async_step_reconfigure with a token: stored at once, the reload is scheduled.
ChangeToken(e, t) ==
    /\ phase[e] # "absent" /\ ~ TokenInUse(t, e)
    /\ entries' = [entries EXCEPT ![e].token = t, ![e].uniqueId = t]
    /\ pending' = [pending EXCEPT ![e] = TRUE]
    /\ UNCHANGED <<phase, token, webhook, orphans>>

\* async_step_reconfigure without one: only the allowlists change.
ChangeScope(e) ==
    /\ phase[e] # "absent"
    /\ pending' = [pending EXCEPT ![e] = TRUE]
    /\ UNCHANGED <<entries, phase, token, webhook, orphans>>

(***************************************************************************)
(* Setup.                                                                  *)
(***************************************************************************)

\* The runtime is made and takes the token of the entry for its lifetime.
BeginSetup(e) ==
    /\ phase[e] = "unloaded" \/ (phase[e] = "error" /\ pending[e])
    /\ Goto(e, "loading")
    /\ token' = [token EXCEPT ![e] = entries[e].token]
    /\ pending' = [pending EXCEPT ![e] = FALSE]
    /\ UNCHANGED <<entries, webhook, orphans>>

\* async_load raises.
LoadFails(e) ==
    /\ phase[e] = "loading"
    /\ Goto(e, "error")
    /\ UNCHANGED <<entries, token, pending, webhook, orphans>>

Register(e) ==
    /\ phase[e] = "loading" /\ webhook[token[e]] = Nothing
    /\ webhook' = [webhook EXCEPT ![token[e]] = e]
    /\ Goto(e, "forwarding")
    /\ UNCHANGED <<entries, token, pending, orphans>>

\* A faulty variant of RegisterFails: the webhook is unregistered all the same.
RegisterFailsAndUnregisters(e) ==
    /\ phase[e] = "loading" /\ webhook[token[e]] # Nothing
    /\ webhook' = [webhook EXCEPT ![token[e]] = Nothing]
    /\ Goto(e, "error")
    /\ UNCHANGED <<entries, token, pending, orphans>>

\* async_register raises: the identifier has a handler. It is not this entry's
\* and is left alone.
RegisterFails(e) ==
    /\ phase[e] = "loading" /\ webhook[token[e]] # Nothing
    /\ Goto(e, "error")
    /\ UNCHANGED <<entries, token, pending, webhook, orphans>>

PlatformsReady(e) ==
    /\ phase[e] = "forwarding"
    /\ Goto(e, "loaded")
    /\ UNCHANGED <<entries, token, pending, webhook, orphans>>

\* A platform fails: the webhook is taken back.
PlatformFails(e) ==
    /\ phase[e] = "forwarding"
    /\ webhook' = [webhook EXCEPT ![token[e]] = Nothing]
    /\ Goto(e, "error")
    /\ UNCHANGED <<entries, token, pending, orphans>>

(***************************************************************************)
(* Unload.                                                                 *)
(***************************************************************************)

\* For a reload, a removal, or because the user disables the entry.
BeginUnload(e) ==
    /\ phase[e] = "loaded"
    /\ Goto(e, "unloading")
    /\ UNCHANGED <<entries, token, pending, webhook, orphans>>

\* A faulty variant of FinishUnload: the token is taken from entry.data.
FinishUnloadOfData(e) ==
    /\ phase[e] = "unloading"
    /\ webhook' = [webhook EXCEPT ![entries[e].token] = Nothing]
    /\ Goto(e, "unloaded")
    /\ UNCHANGED <<entries, token, pending, orphans>>

\* The platforms are unloaded.
FinishUnload(e) ==
    /\ phase[e] = "unloading"
    /\ webhook' = [webhook EXCEPT ![token[e]] = Nothing]
    /\ Goto(e, "unloaded")
    /\ UNCHANGED <<entries, token, pending, orphans>>

\* They are not; Home Assistant does not set the entry up again before a restart.
UnloadFails(e) ==
    /\ phase[e] = "unloading"
    /\ Goto(e, "stuck")
    /\ pending' = [pending EXCEPT ![e] = FALSE]
    /\ UNCHANGED <<entries, token, webhook, orphans>>

RemoveEntry(e) ==
    /\ phase[e] \in {"unloaded", "error"}
    /\ entries' = [entries EXCEPT ![e] = NoEntry]
    /\ Goto(e, "absent")
    /\ pending' = [pending EXCEPT ![e] = FALSE]
    /\ UNCHANGED <<token, webhook, orphans>>

\* Home Assistant removes a stuck entry without unloading it.
RemoveStuck(e) ==
    /\ phase[e] = "stuck"
    /\ entries' = [entries EXCEPT ![e] = NoEntry]
    /\ Goto(e, "absent")
    /\ orphans' = orphans \cup {token[e]}
    /\ pending' = [pending EXCEPT ![e] = FALSE]
    /\ UNCHANGED <<token, webhook>>

\* Home Assistant stops and starts.
Restart ==
    /\ phase' = [e \in Entry |-> IF phase[e] = "absent" THEN "absent" ELSE "unloaded"]
    /\ pending' = [e \in Entry |-> FALSE]
    /\ webhook' = [t \in Token |-> Nothing]
    /\ orphans' = {}
    /\ UNCHANGED <<entries, token>>

(***************************************************************************)
(* The specification.                                                      *)
(***************************************************************************)

Init ==
    /\ entries = [e \in Entry |-> NoEntry]
    /\ phase = [e \in Entry |-> "absent"]
    /\ token = [e \in Entry |-> Nothing]
    /\ pending = [e \in Entry |-> FALSE]
    /\ webhook = [t \in Token |-> Nothing]
    /\ orphans = {}

Setup(e) ==
    \/ BeginSetup(e) \/ LoadFails(e) \/ Register(e) \/ RegisterFails(e)
    \/ PlatformsReady(e) \/ PlatformFails(e)

Unload(e) == BeginUnload(e) \/ FinishUnload(e) \/ UnloadFails(e)

Remove(e) == RemoveEntry(e) \/ RemoveStuck(e)

Next ==
    \/ \E e \in Entry, t \in Token, b \in Bridge : AddEntry(e, t, b)
    \/ \E e \in Entry, t \in Token : ChangeToken(e, t)
    \/ \E e \in Entry : ChangeScope(e) \/ Setup(e) \/ Unload(e) \/ Remove(e)
    \/ Restart

Spec == Init /\ [][Next]_vars

(***************************************************************************)
(* Properties.                                                             *)
(***************************************************************************)

\* Every variable has its type; an entry is stored exactly while it has a phase.
TypeOK ==
    /\ entries \in [Entry -> Entries \cup {NoEntry}]
    /\ phase \in [Entry -> Phase]
    /\ token \in [Entry -> Token \cup {Nothing}]
    /\ pending \in [Entry -> BOOLEAN]
    /\ webhook \in [Token -> Entry \cup {Nothing}]
    /\ orphans \subseteq Token
    /\ \A e \in Entry : entries[e] = NoEntry <=> phase[e] = "absent"

\* A webhook that is registered belongs to the runtime of an entry that is set up,
\* under the token this runtime was made with: no old token stays open
\* after a rotation, a failed setup or a removal (__init__.py:63-69, runtime.py:50).
\* Only an entry that could not be unloaded and is removed leaves one until the
\* next restart.
NoStaleWebhook ==
    \A t \in Token \ orphans : webhook[t] # Nothing =>
        phase[webhook[t]] \in Registered /\ token[webhook[t]] = t

\* The webhook of an entry that is set up reaches it: the setup, the failure or the
\* unload of another entry never takes it away, whatever tokens they had.
LoadedIsReachable ==
    \A e \in Entry : phase[e] \in Registered => webhook[token[e]] = e

\* Two entries never have the same token or bridge, although the two steps of the
\* config flow compare different fields (config_flow.py:124, :185).
IdentitiesDistinct ==
    \A e, f \in Entry :
        e # f /\ entries[e] # NoEntry /\ entries[f] # NoEntry =>
            entries[e].token # entries[f].token /\ entries[e].bridge # entries[f].bridge

\* An entry that is loaded and has no reload to come listens under the token that
\* is stored, whenever that token was changed, during its setup as well.
SettledUsesCurrentToken ==
    \A e \in Entry : phase[e] = "loaded" /\ ~ pending[e] => token[e] = entries[e].token
================================================================================
