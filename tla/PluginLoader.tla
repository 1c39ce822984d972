---------------------------- MODULE PluginLoader ----------------------------
(***************************************************************************)
(* How the kernel starts (kernel/src/loader.cpp, hooks.cpp and             *)
(* plugin_abi_runtime.cpp): the executable is identified, the hooks are    *)
(* installed, the manifests are read, and the plugins are discovered,      *)
(* created and loaded one after the other.  The first thing that fails     *)
(* ends it: the plugin that failed is unloaded and destroyed at once, the  *)
(* ones loaded before it in the reverse order, and the hooks that were     *)
(* installed stay.  What a plugin does in its load and unload callbacks is *)
(* its own module's.                                                       *)
(***************************************************************************)
EXTENDS Integers, Sequences, FiniteSets, SequencesExt

CONSTANTS Plugins,   \* the plugins of the command line, in its order
          HookCount  \* the hooks InstallHooks installs

Names == ToSet(Plugins)

ASSUME PluginLoaderAssumption ==
    Plugins \in Seq(Names) /\ IsInjective(Plugins) /\ HookCount \in Nat

VARIABLES
    loader,   \* where LoadPlugins is, and at which plugin
    plug,     \* of each plugin's instance: what has been called of it
    hooks     \* the hooks in the game

loaderVars == <<loader, plug, hooks>>
Here == Plugins[loader.next]

Goto(at) == loader' = [loader EXCEPT !.at = at]

\* UnloadPlugins takes the plugins from the last one that was started.
Started == {i \in DOMAIN Plugins : plug[Plugins[i]] = "started"}
Fail ==
    /\ loader' = IF Started = {} THEN [at |-> "failed", next |-> 0]
                 ELSE [at |-> "unload", next |-> Max(Started)]

LoaderInit ==
    /\ loader = [at |-> "identity", next |-> 1]
    /\ plug = [p \in Names |-> "absent"]
    /\ hooks = {}

\* ValidateCurrentExecutableIdentity, and RequireSignature of every hook.
Validate ==
    /\ loader.at = "identity"
    /\ Goto("hooks") \/ Fail
    /\ UNCHANGED <<plug, hooks>>

(***************************************************************************)
(* InstallHooks: one hook after the other.  One that fails has the ones    *)
(* before it restored, the last one first; one that cannot be restored     *)
(* stays in the game.                                                      *)
(***************************************************************************)
InstallHooks ==
    /\ loader.at = "hooks"
    /\ \/ hooks' = 1 .. HookCount /\ Goto("manifests")
       \/ \E installed \in 0 .. HookCount - 1 :
              hooks' \in SUBSET (1 .. installed) /\ Fail
    /\ UNCHANGED plug

\* ReadPluginManifest of every plugin, before the first one is looked for.
ReadPluginManifests ==
    /\ loader.at = "manifests"
    /\ Goto(IF Plugins = <<>> THEN "loaded" ELSE "discover") \/ Fail
    /\ UNCHANGED <<plug, hooks>>

\* The module, its SmedleyPluginGetApiV1, and ValidatePluginApiV1 of what it gave.
Discover ==
    /\ loader.at = "discover"
    /\ Goto("create") \/ Fail
    /\ UNCHANGED <<plug, hooks>>

\* Start: storage is allocated and the instance created in it, or freed again.
Create ==
    /\ loader.at = "create"
    /\ \/ plug' = [plug EXCEPT ![Here] = "loading"] /\ Goto("load")
       \/ UNCHANGED plug /\ Fail
    /\ UNCHANGED hooks

\* The load callback returned: the next plugin, or what it did is undone.
LoadReturns(success) ==
    /\ loader.at = "load" /\ plug[Here] = "loading"
    /\ IF success
       THEN /\ plug' = [plug EXCEPT ![Here] = "started"]
            /\ loader' = IF loader.next = Len(Plugins) THEN [loader EXCEPT !.at = "loaded"]
                         ELSE [at |-> "discover", next |-> loader.next + 1]
       ELSE plug' = [plug EXCEPT ![Here] = "unloading"] /\ Goto("cleanup")
    /\ UNCHANGED hooks

\* Stop: the unload callback of a plugin that was started is called.
Stop ==
    /\ loader.at = "unload" /\ plug[Here] = "started"
    /\ plug' = [plug EXCEPT ![Here] = "unloading"]
    /\ UNCHANGED <<loader, hooks>>

\* CleanupAfterLoadAttempt: whatever unload returned, the instance is destroyed.
UnloadReturns ==
    /\ loader.at \in {"cleanup", "unload"} /\ plug[Here] = "unloading"
    /\ plug' = [plug EXCEPT ![Here] = "destroyed"]
    /\ Fail
    /\ UNCHANGED hooks

LoaderStep ==
    Validate \/ InstallHooks \/ ReadPluginManifests \/ Discover \/ Create \/ Stop
-----------------------------------------------------------------------------
(* What the loader's place says of the plugins, for the proofs above it.   *)

PlugStates == {"absent", "loading", "started", "unloading", "destroyed"}
Gone == {"absent", "destroyed"}
Ahead(n, S) == \A i \in DOMAIN Plugins : i > n => plug[Plugins[i]] \in S
Behind(n) == \A i \in DOMAIN Plugins : i < n => plug[Plugins[i]] = "started"

\* Where the loader is says of every plugin what was called of it.
LoaderInOrder ==
  /\ loader \in [at : {"identity", "hooks", "manifests", "discover", "create", "load", "cleanup", "unload",
                       "failed", "loaded"}, next : Nat]
  /\ plug \in [Names -> PlugStates]
  /\ loader.at \in {"identity", "hooks", "manifests"} => loader.next = 1 /\ Ahead(0, {"absent"})
  /\ loader.at \in {"discover", "create", "load", "cleanup", "unload"} =>
       loader.next \in DOMAIN Plugins /\ Behind(loader.next)
  /\ loader.at \in {"discover", "create"} => Ahead(loader.next - 1, {"absent"})
  /\ loader.at = "load" => plug[Here] = "loading" /\ Ahead(loader.next, {"absent"})
  /\ loader.at = "cleanup" => plug[Here] = "unloading" /\ Ahead(loader.next, {"absent"})
  /\ loader.at = "unload" => plug[Here] \in {"started", "unloading"} /\ Ahead(loader.next, Gone)
  /\ loader.at = "failed" => Ahead(0, Gone)
  /\ loader.at = "loaded" => Behind(Len(Plugins) + 1)
=============================================================================
