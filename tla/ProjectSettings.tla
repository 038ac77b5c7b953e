--------------------------- MODULE ProjectSettings ---------------------------
(***************************************************************************)
(* The settings of a project: one JSON column that four routes read, change *)
(* and write back whole, with the LLM configuration of the phases in it.    *)
(*                                                                         *)
(* Settings are the LLM configuration, the detected stack and the rest.  A  *)
(* key is told apart by the provider it was given for; models, and requests *)
(* that are refused for their format, are left out.                         *)
(***************************************************************************)
EXTENDS Naturals, FiniteSets

CONSTANTS
    Providers,      \* LLM providers
    NeedsKey,       \* those with requiresApiKey
    Phases,         \* phases that can have a configuration of their own
    SettingValues,  \* values of the other settings, and of the stack
    MaxRequests     \* bound: requests made

NoKey == "no key"

ASSUME SettingsConstants ==
    /\ NoKey \notin Providers
    /\ NeedsKey \subseteq Providers /\ \E q \in Providers : q \notin NeedsKey
    /\ MaxRequests \in Nat

NoPhase == [provider |-> "none", key |-> NoKey]
NoLLM == [form |-> "none", default |-> NoPhase, phases |-> [p \in Phases |-> NoPhase]]

VARIABLES
    settings,   \* the column
    requests,   \* requests under way
    requested,  \* requests so far
    expected,   \* the settings had every request changed its part only (history)
    overlapped  \* a request read while another was under way (history)

settingsVars == <<settings, requests, requested, expected, overlapped>>

LLMConfigs == [provider : Providers, key : Providers \cup {NoKey}]
PhaseConfigs == [Phases -> LLMConfigs \cup {NoPhase}]
Configs == [form : {"legacy", "current"}, default : LLMConfigs, phases : PhaseConfigs]
SettingsSet == [llm : Configs \cup {NoLLM}, stack : SettingValues, other : SettingValues]
PutBodies == [default : LLMConfigs, phases : PhaseConfigs]
Requests == [kind : {"patch", "put_llm", "reset_llm", "detect"}, step : {"read", "merged"},
             value : SettingValues, body : PutBodies \cup {NoLLM},
             before : SettingsSet, read : SettingsSet, id : 0..MaxRequests]

SettingsTypeOK ==
    /\ settings \in SettingsSet /\ expected \in SettingsSet
    /\ requested \in 0..MaxRequests
    /\ requests \subseteq Requests
    /\ \A r \in requests : r.kind = "put_llm" => r.body \in PutBodies
    /\ overlapped \in BOOLEAN

-----------------------------------------------------------------------------
(* config/llmProviders.ts and the readers of the configuration. *)

(* getDefaultLLMConfig: local, without a key. *)
DefaultLLMConfig ==
    [form |-> "current", phases |-> [p \in Phases |-> NoPhase],
     default |-> [provider |-> CHOOSE q \in Providers : q \notin NeedsKey, key |-> NoKey]]

(* migrateLegacyConfig: the only provider becomes the default. *)
MigrateLegacyConfig(llm) ==
    [form |-> "current", default |-> llm.default, phases |-> [p \in Phases |-> NoPhase]]

(* getFullProjectLLMConfig *)
FullLLMConfig(llm) ==
    IF llm = NoLLM THEN DefaultLLMConfig
    ELSE IF llm.form = "legacy" THEN MigrateLegacyConfig(llm)
    ELSE llm

(* getPhaseConfig: the key is inherited from the default of the same provider. *)
PhaseConfig(config, phase) ==
    LET own == config.phases[phase]
    IN IF own = NoPhase THEN config.default
       ELSE IF own.key = NoKey /\ own.provider = config.default.provider
       THEN [own EXCEPT !.key = config.default.key]
       ELSE own

-----------------------------------------------------------------------------
(* The routes. *)

(* The keys a configuration holds already. *)
ExistingKey(llm) == IF llm = NoLLM THEN NoKey ELSE llm.default.key
ExistingPhaseKey(llm, phase) ==
    IF llm = NoLLM \/ llm.form = "legacy" \/ llm.phases[phase] = NoPhase THEN NoKey
    ELSE llm.phases[phase].key

Preferred(key, fallback) == IF key # NoKey THEN key ELSE fallback

(* validateLLMConfig: a provider that needs a key has one, or had one. *)
ValidLLMConfig(config, existing) ==
    config.provider \in NeedsKey => config.key # NoKey \/ existing # NoKey

(* The key that validation accepts in place of the phase's own. *)
PhaseFallback(llm, body, phase) ==
    Preferred(ExistingPhaseKey(llm, phase),
              IF body.phases[phase].provider = body.default.provider
              THEN ExistingKey(llm) ELSE NoKey)

(* The request is answered with 400 unless all of it is valid. *)
AcceptsLLM(llm, body) ==
    /\ ValidLLMConfig(body.default, ExistingKey(llm))
    /\ \A p \in Phases : body.phases[p] # NoPhase =>
          ValidLLMConfig(body.phases[p], PhaseFallback(llm, body, p))

(* The configuration that is stored: keys that were not given are kept. *)
BuildLLMConfig(llm, body) ==
    [form |-> "current",
     default |-> [body.default EXCEPT !.key = Preferred(@, ExistingKey(llm))],
     phases |-> [p \in Phases |->
        IF body.phases[p] = NoPhase THEN NoPhase
        ELSE [body.phases[p] EXCEPT !.key = Preferred(@, ExistingPhaseKey(llm, p))]]]

(* Mutant of MergedSettings: the given settings replace the others. *)
Bug_Replaced(read, value) == [llm |-> NoLLM, stack |-> read.stack, other |-> value]

(* updateSettings: the given settings over those of the row. *)
MergedSettings(read, value) == [read EXCEPT !.other = value]

(* detect-stack writes all the settings it read before the detection, with
   the stack, over those updateSettings reads. *)
WithStack(before, read, value) ==
    [llm |-> IF before.llm = NoLLM THEN read.llm ELSE before.llm,
     stack |-> value, other |-> before.other]

(* What a request makes of the settings it read. *)
Outcome(r, before, read) ==
    CASE r.kind = "patch" -> MergedSettings(read, r.value)
      [] r.kind = "put_llm" -> IF AcceptsLLM(read.llm, r.body)
                               THEN [read EXCEPT !.llm = BuildLLMConfig(read.llm, r.body)]
                               ELSE read
      [] r.kind = "reset_llm" -> [read EXCEPT !.llm = NoLLM]
      [] r.kind = "detect" -> WithStack(before, read, r.value)

(* What the request is meant to change (history). *)
Intended(r) ==
    CASE r.kind = "patch" -> [expected EXCEPT !.other = r.value]
      [] r.kind = "put_llm" -> IF AcceptsLLM(expected.llm, r.body)
                               THEN [expected EXCEPT !.llm = BuildLLMConfig(@, r.body)]
                               ELSE expected
      [] r.kind = "reset_llm" -> [expected EXCEPT !.llm = NoLLM]
      [] r.kind = "detect" -> [expected EXCEPT !.stack = r.value]

Request(kind, value, body) ==
    [kind |-> kind, value |-> value, body |-> body, step |-> "read",
     before |-> settings, read |-> settings, id |-> requested]

(* A route has read the project and gone through its checks. *)
Arrive(kind, value, body) ==
    /\ requested < MaxRequests
    /\ requested' = requested + 1
    /\ overlapped' = (overlapped \/ requests # {})
    /\ requests' = requests \cup {Request(kind, value, body)}
    /\ UNCHANGED <<settings, expected>>

(* PATCH /settings, PUT and DELETE /llm-config, POST /detect-stack. *)
PatchSettings(value) == Arrive("patch", value, NoLLM)
PutLLMConfig(body) == Arrive("put_llm", settings.other, body)
DeleteLLMConfig == Arrive("reset_llm", settings.other, NoLLM)
DetectStack(value) == Arrive("detect", value, NoLLM)

(* updateSettings reads the row again. *)
ReadAgain(r) ==
    /\ r.kind \in {"patch", "detect"} /\ r.step = "read"
    /\ requests' = (requests \ {r}) \cup {[r EXCEPT !.read = settings, !.step = "merged"]}
    /\ UNCHANGED <<settings, requested, expected, overlapped>>

(* The row is written, and the request answered. *)
WriteSettings(r) ==
    /\ r.kind \in {"patch", "detect"} => r.step = "merged"
    /\ settings' = Outcome(r, r.before, r.read)
    /\ expected' = Intended(r)
    /\ requests' = requests \ {r}
    /\ UNCHANGED <<requested, overlapped>>

-----------------------------------------------------------------------------
Bodies == [default : [provider : Providers, key : {NoKey, "given"}],
           phases : [Phases -> [provider : Providers, key : {NoKey, "given"}] \cup {NoPhase}]]

(* A given key is the provider's own: another's is refused by its prefix. *)
Keyed(config) ==
    IF config # NoPhase /\ config.key = "given" THEN [config EXCEPT !.key = config.provider]
    ELSE config

(* A project that exists: without a configuration or with one in the old form. *)
SettingsInit ==
    /\ \E llm \in {NoLLM} \cup
          {[form |-> "legacy", default |-> [provider |-> p, key |-> IF p \in NeedsKey THEN p ELSE NoKey],
            phases |-> [q \in Phases |-> NoPhase]] : p \in Providers} :
          \E v \in SettingValues : settings = [llm |-> llm, stack |-> v, other |-> v]
    /\ requests = {} /\ requested = 0
    /\ expected = settings /\ overlapped = FALSE

SettingsNext ==
    \/ \E value \in SettingValues : PatchSettings(value) \/ DetectStack(value)
    \/ \E body \in Bodies :
          PutLLMConfig([default |-> Keyed(body.default),
                        phases |-> [p \in Phases |-> Keyed(body.phases[p])]])
    \/ DeleteLLMConfig
    \/ \E r \in requests : ReadAgain(r) \/ WriteSettings(r)

SettingsSpec == SettingsInit /\ [][SettingsNext]_settingsVars

-----------------------------------------------------------------------------
(* Whatever was configured, kept and inherited, a phase that runs on a
   provider that needs a key is given one. *)
PhaseHasKey ==
    \A p \in Phases :
        LET config == PhaseConfig(FullLLMConfig(settings.llm), p)
        IN config.provider \in NeedsKey => config.key # NoKey

(* Requests that do not overlap lose nothing of one another: each changes its
   part of the settings only, although it writes the whole column back. *)
SettingsAreExact == ~overlapped => settings = expected

(* Why: a stored configuration gives every provider a key of its own, or one
   a phase inherits, and so does whatever a request has read of it ... *)
KeysSuffice(llm) ==
    llm # NoLLM =>
        /\ llm.default.provider \in NeedsKey => llm.default.key # NoKey
        /\ \A p \in Phases : llm.phases[p] # NoPhase /\ llm.phases[p].provider \in NeedsKey =>
              \/ llm.phases[p].key # NoKey
              \/ llm.phases[p].provider = llm.default.provider /\ llm.default.key # NoKey

StoredKeysSuffice ==
    /\ KeysSuffice(settings.llm)
    /\ \A r \in requests : KeysSuffice(r.read.llm) /\ KeysSuffice(r.before.llm)

(* ... and without overlap the only request has read what is stored. *)
ReadsAreCurrent ==
    ~overlapped => /\ \A r, q \in requests : r = q
                   /\ \A r \in requests : r.read = settings /\ r.before = settings

(* The column is what its routes were asked for, and of use to a phase. *)
SettingsInv ==
    /\ SettingsTypeOK /\ PhaseHasKey /\ SettingsAreExact
    /\ StoredKeysSuffice /\ ReadsAreCurrent
=============================================================================
