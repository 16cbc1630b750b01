--------------------------- MODULE TenantLifecycle ---------------------------
(***************************************************************************)
(* The tenants over time: config_manager.py, which knows them;             *)
(* management_service.py and server.py, which delete them and stop their   *)
(* servers while calls of theirs are still being served; the sessions of   *)
(* tenant_manager.py; and the calls (servicer.py).                         *)
(*                                                                         *)
(* What the resource manager does under its lock is one step here, and of  *)
(* its table only the types of a tenant's resources are kept; module       *)
(* Hypervisor has the rest.  TenantManager.config is the dictionary        *)
(* config_manager.tenants itself.  Tenants are those of the configuration  *)
(* file: CreateTenant raises in its import, before it changes anything.    *)
(* UpdateTenant and AddAllowedBitstream change limits, keys and lists,     *)
(* which decide only whether a call is refused; here any call may be.      *)
(***************************************************************************)
EXTENDS Integers

CONSTANTS
  Tenants,
  Managers,   \* the threads of the management server
  Threads,    \* the threads of the tenants' servers
  Tokens      \* the session tokens uuid4 may return

VARIABLES
  config,     \* the tenants in config_manager.tenants
  servers,    \* the tenants whose gRPC server takes calls
  cm_lock,    \* DynamicConfigManager._lock: {} or the thread that holds it
  manager,    \* the DeleteTenant each management thread is in
  sessions,   \* the tokens of TenantManager.sessions that have not expired
  held,       \* tenant -> the resources the resource manager has for it
  thread      \* the call each thread of a tenant's server is in

lifeVars == <<config, servers, cm_lock, manager, sessions, held, thread>>

\* mine: the program that asked for the resource still runs.  A "handle" is one
\* of an MMIO range or a buffer.
Types == {"overlay", "handle"}
Resource == [type : Types, mine : BOOLEAN]

\* CreateDMA has no caller in the client.
Creating == {"LoadOverlay", "CreateMMIO", "AllocateBuffer"}
Ops == Creating \cup {"CleanupResources"}

\* caller: whether its client waits for the answer, went on without it, or is
\* a program that has ended; made: the call has registered a resource.
Answers == {"ok", "error", "unauthenticated"}
Call == [pc : {"validate", "run"} \cup Answers, tenant : Tenants, op : Ops,
         token : Tokens, caller : {"waits", "went on", "ended"}, made : BOOLEAN]
Free == [pc |-> "idle"]

Deleting == [pc : {"stop", "remove", "watch", "watch_stop", "cleanup"},
             tenant : Tenants]

LifecycleTypeOK ==
  /\ config \subseteq Tenants
  /\ servers \subseteq Tenants
  /\ cm_lock \in SUBSET Managers
  /\ manager \in [Managers -> Deleting \cup {Free}]
  /\ sessions \subseteq Tokens
  /\ held \in [Tenants -> SUBSET Resource]
  /\ thread \in [Threads -> Call \cup {Free}]

\* What start() makes of the configuration file.
LifecycleInit ==
  /\ config = Tenants
  /\ servers = Tenants
  /\ cm_lock = {}
  /\ manager = [m \in Managers |-> Free]
  /\ sessions = {}
  /\ held = [t \in Tenants |-> {}]
  /\ thread = [w \in Threads |-> Free]

\* The process is stopped or crashes, and is started again.  The file is as it
\* was: _save_to_file reads a field PRZoneConfig does not have and logs that.
RestartServer ==
  /\ config' = Tenants
  /\ servers' = Tenants
  /\ cm_lock' = {}
  /\ manager' = [m \in Managers |-> Free]
  /\ sessions' = {}
  /\ held' = [t \in Tenants |-> {}]
  /\ thread' = [w \in Threads |-> Free]

-----------------------------------------------------------------------------
(* Helpers *)

Managing(m, pc) == manager[m].pc = pc
Proceed(m, pc) == manager' = [manager EXCEPT ![m].pc = pc]
Return(m) == manager' = [manager EXCEPT ![m] = Free]

Serving(w, pc) == thread[w].pc = pc

\* An answer nobody waits for is lost.
Answered(call, answer) ==
  IF call.caller = "waits" THEN [call EXCEPT !.pc = answer] ELSE Free
Answer(w, answer) == thread' = [thread EXCEPT ![w] = Answered(@, answer)]

Has(t, type) == \E r \in held[t] : r.type = type

cleanup_tenant_resources(t) == held' = [held EXCEPT ![t] = {}]

-----------------------------------------------------------------------------
(* DeleteTenant.  Without force it changes nothing: it is refused for a       *)
(* tenant with an overlay and raises for any other one, since TenantResources *)
(* has no field buffers.                                                      *)

\* stop_tenant_server looks for the server ...
DeleteTenant(m, t) ==
  /\ Managing(m, "idle")
  /\ manager' = [manager EXCEPT ![m] =
       [pc |-> IF t \in servers THEN "stop" ELSE "remove", tenant |-> t]]
  /\ UNCHANGED <<config, servers, cm_lock, sessions, held, thread>>

\* ... and stops and then deletes it, which raises if another thread was faster.
\* The calls being served go on.
StopServer(m) ==
  /\ Managing(m, "stop")
  /\ servers' = servers \ {manager[m].tenant}
  /\ IF manager[m].tenant \in servers THEN Proceed(m, "remove") ELSE Return(m)
  /\ UNCHANGED <<config, cm_lock, sessions, held, thread>>

\* The lock is kept while the watcher runs.
remove_tenant(m) ==
  /\ Managing(m, "remove")
  /\ cm_lock = {}
  /\ manager[m].tenant \in config
  /\ config' = config \ {manager[m].tenant}
  /\ cm_lock' = {m}
  /\ Proceed(m, "watch")
  /\ UNCHANGED <<servers, sessions, held, thread>>

RemovesNobody(m) ==
  /\ Managing(m, "remove")
  /\ cm_lock = {}
  /\ manager[m].tenant \notin config
  /\ Return(m)
  /\ UNCHANGED <<config, servers, cm_lock, sessions, held, thread>>

\* _on_config_change, tenant_removed ...
WatcherCleans(m) ==
  /\ Managing(m, "watch")
  /\ cleanup_tenant_resources(manager[m].tenant)
  /\ Proceed(m, "watch_stop")
  /\ UNCHANGED <<config, servers, cm_lock, sessions, thread>>

\* ... where what stop_tenant_server raises is logged.  The tenant has left
\* the configuration, so its record stays, and so do its sessions.
WatcherStops(m) ==
  /\ Managing(m, "watch_stop")
  /\ servers' = servers \ {manager[m].tenant}
  /\ cm_lock' = {}
  /\ Proceed(m, "cleanup")
  /\ UNCHANGED <<config, sessions, held, thread>>

DeleteCleans(m) ==
  /\ Managing(m, "cleanup")
  /\ cleanup_tenant_resources(manager[m].tenant)
  /\ Return(m)
  /\ UNCHANGED <<config, servers, cm_lock, sessions, thread>>

-----------------------------------------------------------------------------
(* Sessions *)

\* bound: a session is forgotten when nobody has its token, which is not among
\* those in use, any more; and so is uuid4's choice of that token.
authenticate(t, token, used) ==
  /\ t \in servers
  /\ t \in config
  /\ token \notin used
  /\ sessions' = (sessions \cap used) \cup {token}

\* An hour has passed.  That the session stays until it is asked for makes no
\* difference to the answer.
Expire(token) ==
  /\ token \in sessions
  /\ sessions' = sessions \ {token}
  /\ UNCHANGED <<config, servers, cm_lock, manager, held, thread>>

validate_token(w) ==
  /\ Serving(w, "validate")
  /\ IF thread[w].token \in sessions THEN thread' = [thread EXCEPT ![w].pc = "run"]
                                      ELSE Answer(w, "unauthenticated")
  /\ UNCHANGED <<config, servers, cm_lock, manager, sessions, held>>

-----------------------------------------------------------------------------
(* The calls.  Any of them may fail having done nothing.                      *)

Registers(w, type, answer) ==
  /\ held' = [held EXCEPT ![thread[w].tenant] =
                @ \cup {[type |-> type, mine |-> thread[w].caller # "ended"]}]
  /\ thread' = [thread EXCEPT ![w] = Answered([@ EXCEPT !.made = TRUE], answer)]

\* Mutant: does not look the tenant up.
LoadsUnlisted(w) == Registers(w, "overlay", "ok")

\* can_allocate_overlay raises for a tenant that is gone.
LoadOverlay(w) ==
  /\ thread[w].tenant \in config
  /\ Registers(w, "overlay", "ok")

\* The range must lie in a zone of the tenant.
CreateMMIO(w) == Has(thread[w].tenant, "overlay") /\ Registers(w, "handle", "ok")

\* The method raises once the buffer is registered.
AllocateBuffer(w) ==
  /\ thread[w].tenant \in config
  /\ Registers(w, "handle", "error")

\* success=False is possible still, if the summary does not fit the message.
CleanupResources(w) ==
  /\ cleanup_tenant_resources(thread[w].tenant)
  /\ \E answer \in {"ok", "error"} : Answer(w, answer)

Fails(w) == Answer(w, "error") /\ UNCHANGED held

Serve(w) ==
  /\ Serving(w, "run")
  /\ \/ thread[w].op = "LoadOverlay" /\ LoadOverlay(w)
     \/ thread[w].op = "CreateMMIO" /\ CreateMMIO(w)
     \/ thread[w].op = "AllocateBuffer" /\ AllocateBuffer(w)
     \/ thread[w].op = "CleanupResources" /\ CleanupResources(w)
     \/ Fails(w)
  /\ UNCHANGED <<config, servers, cm_lock, manager, sessions>>

-----------------------------------------------------------------------------

Management(m) ==
  \/ \E t \in Tenants : DeleteTenant(m, t)
  \/ StopServer(m)
  \/ remove_tenant(m) \/ RemovesNobody(m)
  \/ WatcherCleans(m) \/ WatcherStops(m) \/ DeleteCleans(m)

LifecycleNext ==
  \/ \E m \in Managers : Management(m)
  \/ \E token \in Tokens : Expire(token)
  \/ \E w \in Threads : validate_token(w) \/ Serve(w)
=============================================================================
