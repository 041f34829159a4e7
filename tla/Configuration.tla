----------------------------- MODULE Configuration -----------------------------
(***************************************************************************)
(* What a process goes by, from its start on: the credentials that the     *)
(* secret manager resolves once (backend/secrets.py, settings.py), the     *)
(* scopes they give (auth.py), and the live overrides of its settings      *)
(* (config_watcher.py) that the handlers of /config/live make (main.py).   *)
(*                                                                         *)
(* All of this runs on the event loop without an await, so a start and a   *)
(* request are one step each.  A secret store may fail any single read.    *)
(* No secret is asked for twice in a process, so the manager's cache never *)
(* answers.  The settings' own range checks are left out: overrides are    *)
(* not subject to them.                                                    *)
(***************************************************************************)
EXTENDS Naturals, Sequences, FiniteSets, FiniteSetsExt, Functions

CONSTANTS
  Tokens,        \* the API keys there are
  Environments,  \* what the environment may give each key field
  StoreContents, \* what a secret store may hold for each
  Bases,         \* the settings a process may start with
  AllowedKeys,   \* _CONFIG_ALLOWED_KEYS
  Updates,       \* the bodies of PATCH: their keys and values, in order
  MaxChanges     \* longest _history

NoToken == ""
Lacking == "lacking"   \* the store has no such entry

(* The key fields in the order _build_key_registry enters them, and their  *)
(* scopes: 1 READ, 2 WRITE, 3 ADMIN.                                       *)
Fields == <<"demo", "read", "write", "admin">>
ScopeOf == <<3, 1, 2, 3>>
KeyFields == DOMAIN Fields
Admin == 3

Stores == {"vault", "aws"}   \* the providers that are read from

(* What the constants must satisfy; an update is a JSON object.            *)
ConfigurationAssumption ==
  /\ NoToken \notin Tokens /\ Lacking \notin Tokens
  /\ Environments \subseteq [KeyFields -> Tokens \cup {NoToken}]
  /\ StoreContents \subseteq [KeyFields -> Tokens \cup {NoToken, Lacking}]
  /\ \A base \in Bases : AllowedKeys \subseteq DOMAIN base
  /\ \A update \in Updates :
       /\ update \in Seq(Range(update))
       /\ \A i, j \in DOMAIN update : update[i].key = update[j].key => i = j
  /\ MaxChanges \in Nat

VARIABLES
  stores,    \* the secret stores' contents
  provider,  \* SecretManager._provider; "none" without a process
  keys,      \* the settings' key fields, as resolved
  auth,      \* auth_enabled
  base,      \* the other settings
  overrides, \* HotReloadConfig._overrides
  history,   \* its _history, each entry with the caller's key
  reply,     \* the last answer of PATCH or DELETE, and to what
  held       \* history: what each field's source had at the start

vars == <<stores, provider, keys, auth, base, overrides, history, reply, held>>

NoReply == [answer |-> "none"]

TypeOK ==
  /\ stores \in [Stores -> StoreContents]
  /\ provider \in Stores \cup {"gcp", "environment", "none"}
  /\ keys \in [KeyFields -> Tokens \cup {NoToken}]
  /\ auth \in BOOLEAN /\ base \in Bases
  /\ DOMAIN overrides \subseteq DOMAIN base
  /\ \A n \in DOMAIN history : history[n].op \in {"set", "reset"}
  /\ reply.answer \in {"none", "updated", "refused", "reset", "denied"}
-----------------------------------------------------------------------------
(* SecretManager._initialize: the first layer that is configured and whose *)
(* client could be set up.  It is settled for good.                        *)
Layer(usable) == IF "vault" \in usable THEN "vault"
                 ELSE IF "aws" \in usable THEN "aws"
                 ELSE IF "gcp" \in usable THEN "gcp" ELSE "environment"

Answers(layer, answering, f) ==
  layer \in Stores /\ f \in answering /\ stores[layer][f] # Lacking

(* Mutant: a plain environment variable comes first.                       *)
ResolveFromEnvironment(layer, answering, env, f) ==
  IF env[f] = NoToken /\ Answers(layer, answering, f) THEN stores[layer][f] ELSE env[f]

(* _resolve, get, and _resolve_secrets_via_vault, which calls them: the    *)
(* layer's entry, be it empty, and without one, or without an answer, the  *)
(* environment's.  The other layers are not asked.                         *)
Resolve(layer, answering, env, f) ==
  IF Answers(layer, answering, f) THEN stores[layer][f] ELSE env[f]

(* A process starts: import time.                                          *)
Start ==
  /\ provider = "none"
  /\ \E usable \in SUBSET (Stores \cup {"gcp"}), answering \in SUBSET KeyFields,
        env \in Environments :
       /\ provider' = Layer(usable)
       /\ keys' = [f \in KeyFields |-> Resolve(provider', answering, env, f)]
       /\ held' = [f \in KeyFields |->
                     [entry |-> IF Answers(provider', answering, f) THEN stores[provider'][f]
                                                                    ELSE Lacking,
                      env |-> env[f]]]
  /\ auth' \in BOOLEAN /\ base' \in Bases
  /\ UNCHANGED <<stores, overrides, history, reply>>

NoKeys == [f \in KeyFields |-> NoToken]
NothingHeld == [f \in KeyFields |-> [entry |-> Lacking, env |-> NoToken]]

Init == /\ stores \in [Stores -> StoreContents]
        /\ provider = "none" /\ keys = NoKeys /\ held = NothingHeld
        /\ auth = FALSE /\ base \in Bases
        /\ overrides = <<>> /\ history = <<>> /\ reply = NoReply

(* It ends, or dies; everything it went by is gone.                        *)
Stop == /\ provider # "none" /\ provider' = "none"
        /\ keys' = NoKeys /\ held' = NothingHeld /\ auth' = FALSE
        /\ overrides' = <<>> /\ history' = <<>> /\ reply' = NoReply
        /\ UNCHANGED <<stores, base>>

(* Somebody changes a store's contents; nothing here notices.              *)
Rotate(s) == /\ stores' \in {[stores EXCEPT ![s] = contents] : contents \in StoreContents}
             /\ UNCHANGED <<provider, keys, auth, base, overrides, history, reply, held>>
-----------------------------------------------------------------------------
(* auth.py.                                                                *)

FieldsWith(token) == {f \in KeyFields : keys[f] = token}

(* _build_key_registry: of several fields with one key the last one counts.*)
Scope(token) == ScopeOf[Max(FieldsWith(token))]

(* Mutant: any registered key will do.                                     *)
AdmitsKnown(token, required) ==
  auth => token # NoToken /\ FieldsWith(token) # {}

(* get_api_key and require_scope.                                          *)
Admits(token, required) ==
  auth => /\ token # NoToken /\ FieldsWith(token) # {}
          /\ Scope(token) >= required
-----------------------------------------------------------------------------
(* config_watcher.py and its handlers.                                     *)

(* HotReloadConfig.get.                                                    *)
Get(key) == IF key \in DOMAIN overrides THEN overrides[key] ELSE base[key]

(* The keys of an update before the first that is not allowed.             *)
Leading(update) ==
  Max({n \in 0..Len(update) : \A i \in 1..n : update[i].key \in AllowedKeys})

(* Mutant: the record shows the setting as the value that was replaced.    *)
SetRecordOverBase(item, by, old) ==
  [op |-> "set", key |-> item.key, by |-> by, old |-> base[item.key], new |-> item.value]

SetRecord(item, by, old) ==
  [op |-> "set", key |-> item.key, by |-> by, old |-> old, new |-> item.value]

(* getattr with None for a key that is no setting.                         *)
BaseValue(key) == IF key \in DOMAIN base THEN base[key] ELSE "none"

ResetRecord(key, by) == [op |-> "reset", key |-> key, by |-> by, value |-> BaseValue(key)]

(* HotReloadConfig.set for each of a sequence of keys.                     *)
SetAll(items, by) ==
  LET keysSet == {items[i].key : i \in DOMAIN items}
      given(key) == CHOOSE item \in Range(items) : item.key = key
  IN  /\ overrides' = [key \in DOMAIN overrides \cup keysSet |->
                         IF key \in keysSet THEN given(key).value ELSE overrides[key]]
      /\ history' = history \o [i \in DOMAIN items |-> SetRecord(items[i], by, Get(items[i].key))]

(* The request is answered 401 or 403.                                     *)
Deny == reply' = [answer |-> "denied"] /\ UNCHANGED <<overrides, history>>

(* Mutant: a key that is not allowed is skipped, and refused at the end.   *)
UpdateSkipping(update, by) ==
  LET allowed == SelectSeq(update, LAMBDA item : item.key \in AllowedKeys)
  IN  /\ SetAll(allowed, by)
      /\ reply' = [answer |-> IF allowed = update THEN "updated" ELSE "refused",
                   update |-> update, from |-> Len(history)]

(* update_config: key by key, until one is not allowed.                    *)
Update(update, by) ==
  LET n == Leading(update)
  IN  /\ SetAll(SubSeq(update, 1, n), by)
      /\ reply' = [answer |-> IF n = Len(update) THEN "updated" ELSE "refused",
                   update |-> update, from |-> Len(history)]

(* reset_config_key: any key will do, overridden or not, a setting or not. *)
Reset(key, by) ==
  /\ overrides' = Restrict(overrides, DOMAIN overrides \ {key})
  /\ history' = Append(history, ResetRecord(key, by))
  /\ reply' = [answer |-> "reset", key |-> key]

Patch(token, update) ==
  /\ provider # "none"
  /\ Len(history) + Len(update) <= MaxChanges
  /\ IF Admits(token, Admin) THEN Update(update, token) ELSE Deny
  /\ UNCHANGED <<stores, provider, keys, auth, base, held>>

Delete(token, key) ==
  /\ provider # "none"
  /\ Len(history) < MaxChanges
  /\ IF Admits(token, Admin) THEN Reset(key, token) ELSE Deny
  /\ UNCHANGED <<stores, provider, keys, auth, base, held>>

Next == \/ Start \/ Stop \/ \E s \in Stores : Rotate(s)
        \/ \E token \in Tokens \cup {NoToken} :
             \/ \E update \in Updates : Patch(token, update)
             \/ \E key \in DOMAIN base \cup {"unknown"} : Delete(token, key)

Spec == Init /\ [][Next]_vars
-----------------------------------------------------------------------------
(* Who may change the configuration was settled at the start: with         *)
(* authentication on, every change was made with a key that an ADMIN field *)
(* had then, in the store if it answered and had the field, and else in    *)
(* the environment ("a configured Vault always wins over a plain env var", *)
(* settings.py:146).  A key changed in the store since then does not       *)
(* count, and a key that is also a lesser field's may not do.              *)
ChangesAuthorised ==
  LET key(f) == IF held[f].entry # Lacking THEN held[f].entry ELSE held[f].env
  IN  auth => \A n \in DOMAIN history :
                /\ history[n].by # NoToken
                /\ \E f \in KeyFields : ScopeOf[f] = Admin /\ key(f) = history[n].by

(* What the entries before the n-th make of a key.                         *)
Replayed(key, n) ==
  LET about == {m \in 1..(n - 1) : history[m].key = key}
  IN  IF about = {} THEN base[key]
      ELSE LET last == history[Max(about)]
           IN  IF last.op = "set" THEN last.new ELSE base[key]

(* The history explains what is in force: every setting has the value of   *)
(* its last entry, whether that was set by a request that succeeded, by    *)
(* the part of one that was refused, or reset.                             *)
HistoryExplains == \A key \in DOMAIN base : Get(key) = Replayed(key, Len(history) + 1)

(* Each entry names the value it replaced as the entries before it left    *)
(* it, also for the later keys of one request and after a reset.           *)
OldValuesTrue ==
  \A n \in DOMAIN history : history[n].op = "set" => history[n].old = Replayed(history[n].key, n)

(* The history is true: of what is in force, and of what was before.       *)
HistoryTrue == HistoryExplains /\ OldValuesTrue

(* A refused update is half done: just its keys before the first that is   *)
(* not allowed are recorded and in force, and an accepted one is done in   *)
(* full.  The caller's error names only the key (main.py:534).             *)
RefusedInPart ==
  reply.answer \in {"updated", "refused"} =>
    LET made == SubSeq(history, reply.from + 1, Len(history))
        asked == reply.update
    IN  /\ \A i \in DOMAIN made : /\ made[i].key = asked[i].key
                                  /\ asked[i].value = Get(asked[i].key)
        /\ reply.answer = "updated" <=> Len(made) = Len(asked)
        /\ reply.answer = "refused" => asked[Len(made) + 1].key \notin DOMAIN overrides
=============================================================================
