--------------------------- MODULE SettingsRuntime ---------------------------
(***************************************************************************)
(* The settings of the backend: settings.json, the runtime snapshot, skill *)
(* catalogue and MCP runtime derived from it, the settings windows that    *)
(* load and save it, and the runs that capture it (settings_endpoints.rs,  *)
(* state.rs, dss-core/settings.rs, sessions.rs).                           *)
(*                                                                         *)
(* The content is reduced to its version (the number of the save that      *)
(* wrote it), the log policy, and one credential of each kind: the key of  *)
(* the enabled provider and the token of an A2A Agent; llm is the object   *)
(* that a save writes beside the list of providers, for readers of the     *)
(* older format.  A credential's place is its id and authority (an Agent's *)
(* endpoint), and its secret is named by the place it was typed for.       *)
(***************************************************************************)
EXTENDS Naturals

CONSTANTS
    Windows,    \* settings windows of the user
    Runs,       \* requests that start a run
    Places, NoPlace,
    EnvPlace,   \* DSS_LLM_BASE_URL, when the process has it
    Policies,   \* log policies
    SAVES,      \* bound: versions written
    RESTARTS    \* bound: restarts of the process

VARIABLES
    disk,       \* settings.json
    env,        \* does this process override the provider's place
    runtime,    \* AppRuntimeSnapshot: revision, version, provider and key in effect
    catalog,    \* version of the skill catalogue
    mcp,        \* version of the MCP runtime
    started,    \* AppState::settings: the log policy read at startup
    lock,       \* settings_save_lock: free, a window or a run
    window,     \* each window: its request and its form
    next,       \* the content the save in progress will write
    run,        \* each run: its progress and what it captured
    epoch       \* number of restarts

settingsVars == <<disk, env, runtime, catalog, mcp, started, lock, window, next, run, epoch>>

Credential == [place : Places, secret : Places \cup {NoPlace}]
Form == [stage |-> "closed", rev |-> 0, epoch |-> 0, seen |-> 0, policy |-> CHOOSE p \in Policies : TRUE,
         kept |-> CHOOSE p \in Policies : TRUE, provider |-> NoPlace, typed |-> FALSE,
         agent |-> NoPlace, token |-> "keep"]
NoRun == [stage |-> "idle", began |-> 0, runtime |-> 0, mcp |-> 0, catalog |-> 0]
Free == "free"

\* A window is no run, the lock is free when neither holds it, and the place that the
\* environment names is none that a user has typed.
ASSUME SettingsAssumption ==
    /\ Windows \cap Runs = {} /\ Free \notin Windows \cup Runs
    /\ EnvPlace \notin Places \cup {NoPlace}

\* resolve_candidate_llm and apply_process_environment: the environment has
\* the last word on what runs, and is no part of the file.
Effective(content, overridden) ==
    IF overridden THEN EnvPlace ELSE content.provider.place

\* Mutant: a provider without a key of its own takes the one of the llm object.
EffectiveKeyOfLlm(content) ==
    IF content.provider.secret = NoPlace THEN content.llm.secret ELSE content.provider.secret

\* resolve_effective_llm: the enabled provider counts, with its key or without;
\* llm is read in files that list no provider, which a save never leaves.
EffectiveKey(content) == content.provider.secret

Snapshot(rev, content, overridden) ==
    [rev |-> rev, version |-> content.version, provider |-> Effective(content, overridden),
     key |-> EffectiveKey(content)]

SettingsInit ==
    /\ \E p \in Places, l \in Policies :
         LET stored == [place |-> p, secret |-> p] IN
         disk = [version |-> 0, policy |-> l, provider |-> stored, llm |-> stored, agent |-> stored]
    /\ env \in BOOLEAN
    /\ runtime = Snapshot(0, disk, env)
    /\ catalog = 0 /\ mcp = 0
    /\ started = disk.policy
    /\ lock = Free
    /\ window = [w \in Windows |-> Form]
    /\ next = disk
    /\ run = [r \in Runs |-> NoRun]
    /\ epoch = 0

-----------------------------------------------------------------------------
(* get_settings: no lock, first the snapshot and then the file. *)

\* Mutant: the window shows the provider in effect.
ShownInEffect(content) == Effective(content, env)

\* What the window shows is the file, so that a save cannot copy a value of
\* the environment into it; the log policy is the one read at startup.
Shown(content) == content.provider.place

Load(w) ==
    /\ window[w].stage \in {"closed", "open"}
    /\ window' = [window EXCEPT ![w] = [Form EXCEPT !.stage = "loading", !.rev = runtime.rev,
                                            !.epoch = epoch, !.policy = started,
                                            !.kept = disk.policy]]
    /\ UNCHANGED <<disk, env, runtime, catalog, mcp, started, lock, next, run, epoch>>

LoadFile(w) ==
    /\ window[w].stage = "loading"
    /\ window' = [window EXCEPT ![w].stage = "open", ![w].seen = disk.version,
                                ![w].kept = disk.policy,
                                ![w].provider = Shown(disk), ![w].agent = disk.agent.place]
    /\ UNCHANGED <<disk, env, runtime, catalog, mcp, started, lock, next, run, epoch>>

\* The user edits some fields and saves.  The agent's token is three-state;
\* a provider's key is typed or left to be kept.
Submit(w) ==
    /\ window[w].stage = "open" /\ disk.version < SAVES
    /\ \/ \E l \in Policies, t \in BOOLEAN :
            window' = [window EXCEPT ![w].stage = "waiting", ![w].policy = l, ![w].typed = t,
                                     ![w].kept = IF l = window[w].policy THEN @ ELSE l]
       \/ \E p \in Places, t \in BOOLEAN :
            window' = [window EXCEPT ![w].stage = "waiting", ![w].provider = p, ![w].typed = t]
       \/ \E q \in Places, k \in {"keep", "type", "clear"} :
            window' = [window EXCEPT ![w].stage = "waiting", ![w].agent = q, ![w].token = k]
    /\ UNCHANGED <<disk, env, runtime, catalog, mcp, started, lock, next, run, epoch>>

-----------------------------------------------------------------------------
(* save_settings *)

\* Mutant: the revision was compared before waiting for the lock.
CurrentWhenSubmitted(w) == window[w].rev <= runtime.rev

\* The revision is compared after the lock is taken.
Current(w) == window[w].rev = runtime.rev

TakeSaveLock(w) ==
    /\ window[w].stage = "waiting" /\ lock = Free
    /\ IF Current(w)
       THEN /\ lock' = w
            /\ window' = [window EXCEPT ![w].stage = "merging"]
       ELSE /\ window' = [window EXCEPT ![w] = Form]
            /\ UNCHANGED lock
    /\ UNCHANGED <<disk, env, runtime, catalog, mcp, started, next, run, epoch>>

\* Mutant: the stored entry is found by its id alone.
KeptByIdOnly(old, place) == old.secret

\* A secret is kept for the same id and authority only.
KeptSecret(old, place) == IF old.place = place THEN old.secret ELSE NoPlace

SecretFor(old, place, update) ==
    CASE update = "type" -> place
      [] update = "clear" -> NoPlace
      [] OTHER -> KeptSecret(old, place)

\* The llm object is kept, its base_url replaced, and its api_key only when the
\* provider has one: otherwise the key that was there stays in it.
LlmOf(provider) ==
    [place |-> provider.place,
     secret |-> IF provider.secret # NoPlace THEN provider.secret ELSE disk.llm.secret]

Merged(form) ==
    LET provider == [place |-> form.provider,
                     secret |-> SecretFor(disk.provider, form.provider,
                                          IF form.typed THEN "type" ELSE "keep")]
    IN  [version |-> disk.version + 1, policy |-> form.policy,
         provider |-> provider, llm |-> LlmOf(provider),
         agent |-> [place |-> form.agent, secret |-> SecretFor(disk.agent, form.agent, form.token)]]

\* Read, merge, validate and resolve what a restart would load; then the
\* cards of the new Agents are fetched.
Merge(w) ==
    /\ window[w].stage = "merging"
    /\ next' = Merged(window[w])
    /\ window' = [window EXCEPT ![w].stage = "refreshing"]
    /\ UNCHANGED <<disk, env, runtime, catalog, mcp, started, lock, run, epoch>>

\* A validation fails, or the client goes away before the commit is spawned.
SaveDropped(w) ==
    /\ window[w].stage \in {"waiting", "merging", "refreshing"}
    /\ window' = [window EXCEPT ![w] = Form]
    /\ lock' = IF lock = w THEN Free ELSE lock
    /\ next' = IF lock = w THEN disk ELSE next
    /\ UNCHANGED <<disk, env, runtime, catalog, mcp, started, run, epoch>>

\* The commit task: rename the file, or fail and change nothing.
WriteFile(w) ==
    /\ window[w].stage = "refreshing"
    /\ disk' = next
    /\ window' = [window EXCEPT ![w].stage = "written"]
    /\ UNCHANGED <<env, runtime, catalog, mcp, started, lock, next, run, epoch>>

SwapRuntime(w) ==
    /\ window[w].stage = "written"
    /\ runtime' = Snapshot(runtime.rev + 1, next, env)
    /\ window' = [window EXCEPT ![w].stage = "swapped"]
    /\ UNCHANGED <<disk, env, catalog, mcp, started, lock, next, run, epoch>>

RebuildCatalog(w) ==
    /\ window[w].stage = "swapped"
    /\ catalog' = next.version
    /\ window' = [window EXCEPT ![w].stage = "cataloged"]
    /\ UNCHANGED <<disk, env, runtime, mcp, started, lock, next, run, epoch>>

\* Mutant: the lock is released by the handler, whose client may go away.
ReleasedEarly(w) == window[w].stage \in {"swapped", "cataloged"}

\* A commit keeps the lock until its last publication.
HoldsToTheEnd(w) == window[w].stage = "cataloged"

\* The last publication; the window is answered with the form of the new
\* revision, unless its client is gone.
RebuildMcp(w) ==
    /\ HoldsToTheEnd(w)
    /\ mcp' = next.version
    /\ lock' = Free
    /\ \/ window' = [window EXCEPT ![w] =
            [Form EXCEPT !.stage = "open", !.rev = runtime.rev, !.epoch = epoch,
                         !.seen = next.version, !.policy = started, !.kept = next.policy,
                         !.provider = Shown(next), !.agent = next.agent.place]]
       \/ window' = [window EXCEPT ![w] = Form]
    /\ UNCHANGED <<disk, env, runtime, catalog, started, next, run, epoch>>

-----------------------------------------------------------------------------
(* Runs capture runtime and MCP under the save lock (sessions.rs). *)

\* Mutant: a run captures without waiting for a save.
MayCaptureAnyTime == TRUE

\* A run waits for the save in progress and keeps saves out.
MayCapture == lock = Free

BeginCapture(r) ==
    /\ run[r].stage = "idle" /\ MayCapture
    /\ lock' = IF lock = Free THEN r ELSE lock
    /\ run' = [run EXCEPT ![r] = [NoRun EXCEPT !.stage = "runtime", !.began = disk.version]]
    /\ UNCHANGED <<disk, env, runtime, catalog, mcp, started, window, next, epoch>>

\* runtime_snapshot_with_refreshed_a2a: fetched cards are published under
\* the revision they were fetched for; they are left out here.
CaptureRuntime(r) ==
    /\ run[r].stage = "runtime"
    /\ run' = [run EXCEPT ![r].stage = "mcp", ![r].runtime = runtime.version]
    /\ UNCHANGED <<disk, env, runtime, catalog, mcp, started, lock, window, next, epoch>>

CaptureMcp(r) ==
    /\ run[r].stage = "mcp"
    /\ run' = [run EXCEPT ![r].stage = "catalog", ![r].mcp = mcp]
    /\ lock' = IF lock = r THEN Free ELSE lock
    /\ UNCHANGED <<disk, env, runtime, catalog, mcp, started, window, next, epoch>>

\* The catalogue is read later, without the lock.
CaptureCatalog(r) ==
    /\ run[r].stage = "catalog"
    /\ run' = [run EXCEPT ![r].stage = "running", ![r].catalog = catalog]
    /\ UNCHANGED <<disk, env, runtime, catalog, mcp, started, lock, window, next, epoch>>

\* A run ends, or its client goes away while it waits or captures.
EndRun(r) ==
    /\ run[r].stage # "idle"
    /\ run' = [run EXCEPT ![r] = NoRun]
    /\ lock' = IF lock = r THEN Free ELSE lock
    /\ UNCHANGED <<disk, env, runtime, catalog, mcp, started, window, next, epoch>>

-----------------------------------------------------------------------------
(* build_state after a crash: everything is loaded from the file again and *)
(* the revision starts at 0.  A window that is open keeps its form.        *)

Restart ==
    /\ epoch < RESTARTS
    /\ epoch' = epoch + 1
    /\ env' \in BOOLEAN
    /\ runtime' = Snapshot(0, disk, env')
    /\ catalog' = disk.version /\ mcp' = disk.version
    /\ started' = disk.policy
    /\ lock' = Free
    /\ next' = disk
    /\ run' = [r \in Runs |-> NoRun]
    /\ window' = [w \in Windows |-> IF window[w].stage = "open" THEN window[w] ELSE Form]
    /\ UNCHANGED disk

SaveStep(w) ==
    \/ Load(w) \/ LoadFile(w) \/ Submit(w) \/ TakeSaveLock(w) \/ Merge(w) \/ SaveDropped(w)
    \/ WriteFile(w) \/ SwapRuntime(w) \/ RebuildCatalog(w) \/ RebuildMcp(w)
RunStep(r) ==
    \/ BeginCapture(r) \/ CaptureRuntime(r) \/ CaptureMcp(r) \/ CaptureCatalog(r) \/ EndRun(r)

SettingsNext ==
    \/ \E w \in Windows : SaveStep(w)
    \/ \E r \in Runs : RunStep(r)
    \/ Restart

SettingsSpec == SettingsInit /\ [][SettingsNext]_settingsVars

-----------------------------------------------------------------------------
(* Properties *)

SavingForm(w) == window[w].stage \in {"merging", "refreshing"}

\* Between two saves everything derived is what a restart would load, and the
\* runs are given no key but the one typed for the provider that is enabled,
\* whatever key the llm object still holds (the commit task of save_settings,
\* resolve_effective_llm).
RuntimeFollowsDisk ==
    /\ lock \notin Windows =>
         /\ runtime.version = disk.version /\ catalog = disk.version /\ mcp = disk.version
         /\ runtime.provider = Effective(disk, env)
         /\ runtime.key \in {NoPlace, disk.provider.place}

\* A secret is only ever listed with the id and authority it was typed for,
\* and no value of the environment reaches the file, whatever sequence of
\* edits the windows submit.  It speaks of the entries of providers and
\* a2a_agents, not of the llm object: there the key of an earlier authority
\* stays beside the new base_url when the new provider has no key of its own
\* (settings_endpoints.rs:846), and the two agree as soon as it has one.
SecretsStayPut ==
    /\ disk.provider.secret \in {NoPlace, disk.provider.place}
    /\ disk.agent.secret \in {NoPlace, disk.agent.place}
    /\ disk.provider.place # EnvPlace
    /\ disk.provider.secret # NoPlace => disk.llm = disk.provider

\* A run never pairs a snapshot with the MCP runtime of another save, is
\* never older than the last save acknowledged before it, and its catalogue
\* is not older than its snapshot.
CapturesAreCoherent ==
    \A r \in Runs :
        /\ run[r].stage \in {"catalog", "running"} =>
             run[r].runtime = run[r].mcp /\ run[r].runtime >= run[r].began
        /\ run[r].stage = "running" => run[r].catalog >= run[r].runtime

\* A save that is about to be written was made from the content it replaces,
\* so that two windows never overwrite each other: within one process.
SavesNeverLost ==
    \A w \in Windows :
        SavingForm(w) /\ window[w].epoch = epoch => window[w].seen = disk.version

\* The same across restarts: what the API contract promises of the revision.
StaleFormIsRefused ==
    \A w \in Windows : SavingForm(w) => window[w].seen = disk.version

\* A save changes the log policy of the file only if its user edited it.
LogPolicyIsKept ==
    \A w \in Windows : window[w].stage = "refreshing" /\ window[w].epoch = epoch => next.policy = window[w].kept

\* What is shown, in effect and on disk belong together, and no save of one
\* window is lost to another's (save_settings, runtime_snapshot).
SettingsAreCoherent ==
    RuntimeFollowsDisk /\ SecretsStayPut /\ CapturesAreCoherent /\ SavesNeverLost
=============================================================================
