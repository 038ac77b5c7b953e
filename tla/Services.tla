------------------------------ MODULE Services ------------------------------
(***************************************************************************)
(* The services around the pipeline.  They share no state with one another: *)
(* what one does is invisible to the others, so it is enough to look at     *)
(* behaviours in which one of them, the focus, takes steps and the others   *)
(* rest in one of their initial states.                                     *)
(***************************************************************************)
EXTENDS SecurityTrace, CostTracker, ExecutionTrace, ActivityLog, ActivityStream,
        ContextCache, ProjectSettings, Repositories, Accounts

VARIABLE focus  \* the service that takes steps

ServicesInit ==
    /\ SpyInit /\ CostInit /\ TraceInit /\ LogInit /\ StreamInit /\ CacheInit
    /\ SettingsInit /\ RepositoriesInit /\ AccountsInit
    /\ focus \in {"spy", "cost", "trace", "log", "stream", "cache", "settings",
                  "repositories", "accounts"}
    /\ focus # "spy" => enabled
    /\ focus # "settings" =>
          settings.llm = NoLLM /\ settings.other = CHOOSE v \in SettingValues : TRUE

BesidesSpy == <<costVars, traceVars, logVars, streamVars, cacheVars, settingsVars, repoVars, accountVars>>
BesidesCost == <<spyVars, traceVars, logVars, streamVars, cacheVars, settingsVars, repoVars, accountVars>>
BesidesTrace == <<spyVars, costVars, logVars, streamVars, cacheVars, settingsVars, repoVars, accountVars>>
BesidesLog == <<spyVars, costVars, traceVars, streamVars, cacheVars, settingsVars, repoVars, accountVars>>
BesidesStream == <<spyVars, costVars, traceVars, logVars, cacheVars, settingsVars, repoVars, accountVars>>
BesidesCache == <<spyVars, costVars, traceVars, logVars, streamVars, settingsVars, repoVars, accountVars>>
BesidesSettings == <<spyVars, costVars, traceVars, logVars, streamVars, cacheVars, repoVars, accountVars>>
BesidesRepositories == <<spyVars, costVars, traceVars, logVars, streamVars, cacheVars, settingsVars, accountVars>>
BesidesAccounts == <<spyVars, costVars, traceVars, logVars, streamVars, cacheVars, settingsVars, repoVars>>

ServicesNext ==
    /\ UNCHANGED focus
    /\ \/ focus = "spy" /\ SpyNext /\ UNCHANGED BesidesSpy
       \/ focus = "cost" /\ CostNext /\ UNCHANGED BesidesCost
       \/ focus = "trace" /\ TraceNext /\ UNCHANGED BesidesTrace
       \/ focus = "log" /\ LogNext /\ UNCHANGED BesidesLog
       \/ focus = "stream" /\ StreamNext /\ UNCHANGED BesidesStream
       \/ focus = "cache" /\ CacheNext /\ UNCHANGED BesidesCache
       \/ focus = "settings" /\ SettingsNext /\ UNCHANGED BesidesSettings
       \/ focus = "repositories" /\ RepositoriesNext /\ UNCHANGED BesidesRepositories
       \/ focus = "accounts" /\ AccountsNext /\ UNCHANGED BesidesAccounts

serviceVars == <<focus, spyVars, BesidesSpy>>

ServicesSpec ==
    /\ ServicesInit /\ [][ServicesNext]_serviceVars
    /\ WF_serviceVars(focus = "log" /\ FlushTimer /\ UNCHANGED <<focus, BesidesLog>>)
=============================================================================
