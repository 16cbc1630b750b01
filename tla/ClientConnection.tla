--------------------------- MODULE ClientConnection ---------------------------
(***************************************************************************)
(* Containers/client/connection.py: the connection a tenant's program      *)
(* keeps to its server.  It authenticates, authenticates once more when a  *)
(* token has expired and retries the call, remembers whether the program   *)
(* may have created resources, and cleans them up on exit.                 *)
(*                                                                         *)
(* A tenant runs one program at a time, which may be killed at any point.  *)
(***************************************************************************)
EXTENDS TenantLifecycle, FiniteSets

CONSTANT Clients   \* the tenants whose programs are modelled

ASSUME ClientsAssumption == Clients \subseteq Tenants

VARIABLE client   \* the program of each, and its Connection

clientVars == <<lifeVars, client>>

NoToken == "none"
NoProgram == [pc |-> "none"]

\* pc: between two steps, in Authenticate, sending a call or waiting for one;
\* channel, token, created (_resources_created), atexit: of the Connection;
\* closing: the method the program is in, and which of its cleanups;
\* op, retried, made: the call in progress, whether it is the second attempt,
\* and how many resources earlier attempts registered.
Program ==
  [pc : {"runs", "authenticate", "send", "wait"}, channel : BOOLEAN,
   token : Tokens \cup {NoToken}, created : BOOLEAN, atexit : BOOLEAN,
   closing : {"no", "disconnect", "disconnect again", "exit"}, op : Ops, retried : BOOLEAN, made : 0..1]

NewProgram ==
  [pc |-> "runs", channel |-> FALSE, token |-> NoToken, created |-> FALSE,
   atexit |-> TRUE, closing |-> "no", op |-> "CleanupResources", retried |-> FALSE,
   made |-> 0]

ConnectionTypeOK ==
  /\ LifecycleTypeOK
  /\ client \in [Clients -> Program \cup {NoProgram}]

ConnectionInit ==
  /\ LifecycleInit
  /\ client = [t \in Clients |-> NoProgram]

-----------------------------------------------------------------------------
(* Helpers *)

In(t, pc) == client[t].pc = pc
Idle(t) == In(t, "runs") /\ client[t].closing = "no"

\* The thread that serves the call the program waits for.
Waits(w, t) == thread[w] # Free /\ thread[w].tenant = t /\ thread[w].caller = "waits"
Served(t) == \E w \in Threads : Waits(w, t)

\* The call is over, with an answer or an exception, and its variables are.
Over(program) ==
  [program EXCEPT !.pc = "runs", !.op = "CleanupResources", !.retried = FALSE, !.made = 0]
CallEnds(t) == client' = [client EXCEPT ![t] = Over(@)]

-----------------------------------------------------------------------------
(* The program *)

StartProgram(t) ==
  /\ In(t, "none")
  /\ client' = [client EXCEPT ![t] = NewProgram]
  /\ UNCHANGED lifeVars

\* What the program asked for outlives it.
ProgramGone(t) ==
  /\ client' = [client EXCEPT ![t] = NoProgram]
  /\ held' = [held EXCEPT ![t] = {[r EXCEPT !.mine = FALSE] : r \in @}]
  /\ thread' = [w \in Threads |->
                  IF thread[w] # Free /\ thread[w].tenant = t
                  THEN IF thread[w].pc \in Answers THEN Free
                       ELSE [thread[w] EXCEPT !.caller = "ended"]
                  ELSE thread[w]]
  /\ UNCHANGED <<config, servers, cm_lock, manager, sessions>>

Kill(t) == ~In(t, "none") /\ ProgramGone(t)

-----------------------------------------------------------------------------
(* call_with_auth *)

\* connect() sets the channel before it authenticates.
call_with_auth(t, op) ==
  /\ Idle(t)
  /\ client' = [client EXCEPT ![t].pc = IF client[t].channel THEN "send" ELSE "authenticate",
                              ![t].channel = TRUE, ![t].op = op,
                              ![t].retried = FALSE, ![t].made = 0]
  /\ UNCHANGED lifeVars

TokensInUse(t) ==
  {thread[w].token : w \in {v \in Threads : thread[v] # Free}} \cup
  {client[u].token : u \in {v \in Clients \ {t} : client[v] # NoProgram}}

_authenticate(t, token) ==
  /\ In(t, "authenticate")
  /\ authenticate(t, token, TokensInUse(t))
  /\ client' = [client EXCEPT ![t].pc = "send", ![t].token = token]
  /\ UNCHANGED <<config, servers, cm_lock, manager, held, thread>>

\* Refused, or no answer: the exception leaves call_with_auth.
AuthenticationFails(t) ==
  /\ In(t, "authenticate")
  /\ CallEnds(t)
  /\ UNCHANGED lifeVars

\* Mutant: the list of the calls that create has one entry.
OnlyOverlaysRaiseIt(t) == client[t].created \/ client[t].op = "LoadOverlay"

\* The flag is raised before the call, and only calls that create raise it.
FlagAfterSend(t) == client[t].created \/ client[t].op \in Creating

Send(t, w) ==
  /\ In(t, "send")
  /\ client[t].token # NoToken
  /\ t \in servers
  /\ Serving(w, "idle")
  /\ client' = [client EXCEPT ![t].pc = "wait", ![t].created = FlagAfterSend(t)]
  /\ thread' = [thread EXCEPT ![w] =
                  [pc |-> "validate", tenant |-> t, op |-> client[t].op,
                   token |-> client[t].token, caller |-> "waits", made |-> FALSE]]
  /\ UNCHANGED <<config, servers, cm_lock, manager, sessions, held>>

\* Without a token gRPC refuses the metadata; without a server, or while the
\* process is started again, nobody answers.
SendFails(t) ==
  /\ In(t, "send")
  /\ client' = [client EXCEPT ![t] = [Over(@) EXCEPT !.created = FlagAfterSend(t)]]
  /\ UNCHANGED lifeVars

\* Mutant: whatever went wrong.
RetriesAnyError(t, answer) == answer # "ok" /\ ~client[t].retried

\* Only a call of call_with_auth, and only once.
Retries(t, answer) ==
  /\ answer = "unauthenticated"
  /\ client[t].op \in Creating
  /\ ~client[t].retried

\* A cleanup that was answered success=True lowers the flag.
Receive(t, w) ==
  LET answer == thread[w].pc
      cleaned == answer = "ok" /\ client[t].op = "CleanupResources"
  IN
  /\ In(t, "wait")
  /\ Waits(w, t)
  /\ answer \in Answers
  /\ client' = [client EXCEPT ![t] =
       IF Retries(t, answer)
       THEN [@ EXCEPT !.pc = "authenticate", !.retried = TRUE,
                      !.made = IF thread[w].made THEN 1 ELSE client[t].made]
       ELSE [Over(@) EXCEPT !.created = client[t].created /\ ~cleaned]]
  /\ thread' = [thread EXCEPT ![w] = Free]
  /\ UNCHANGED <<config, servers, cm_lock, manager, sessions, held>>

\* The hypervisor is not the one that took the call any more.
ConnectionLost(t) ==
  /\ In(t, "wait")
  /\ ~Served(t)
  /\ CallEnds(t)
  /\ UNCHANGED lifeVars

\* Five seconds after its server was stopped the call is cancelled; its thread
\* knows nothing of it.
Cancelled(t, w) ==
  /\ In(t, "wait")
  /\ Waits(w, t)
  /\ t \notin servers
  /\ thread[w].pc \notin Answers
  /\ CallEnds(t)
  /\ thread' = [thread EXCEPT ![w].caller = "went on"]
  /\ UNCHANGED <<config, servers, cm_lock, manager, sessions, held>>

-----------------------------------------------------------------------------
(* cleanup_resources, disconnect and the end of the program *)

\* cleanup_resources sends nothing without a token.
cleanup_resources(t, closing) ==
  /\ client' = [client EXCEPT ![t].closing = closing, ![t].op = "CleanupResources",
                              ![t].pc = IF client[t].channel /\ client[t].token # NoToken
                                        THEN "send" ELSE "runs"]
  /\ UNCHANGED lifeVars

CleansUp(t) == Idle(t) /\ cleanup_resources(t, "no")

disconnect(t) == Idle(t) /\ cleanup_resources(t, "disconnect")

\* _cleanup_on_exit, which disconnect calls ...
DisconnectCleansAgain(t) ==
  /\ In(t, "runs") /\ client[t].closing = "disconnect" /\ client[t].created
  /\ cleanup_resources(t, "disconnect again")

\* ... and takes out of atexit.  Only Connection() puts it there, and there is
\* one Connection: nobody cleans up after a program that connects once more.
Disconnected(t) ==
  /\ In(t, "runs")
  /\ \/ client[t].closing = "disconnect" /\ ~client[t].created
     \/ client[t].closing = "disconnect again"
  /\ client' = [client EXCEPT ![t].closing = "no", ![t].channel = FALSE,
                              ![t].token = NoToken, ![t].atexit = FALSE]
  /\ UNCHANGED lifeVars

Exit(t) ==
  /\ Idle(t)
  /\ client[t].atexit /\ client[t].created
  /\ cleanup_resources(t, "exit")

End(t) ==
  /\ \/ Idle(t) /\ ~(client[t].atexit /\ client[t].created)
     \/ In(t, "runs") /\ client[t].closing = "exit"
  /\ ProgramGone(t)

-----------------------------------------------------------------------------

ConnectionNext ==
  \/ LifecycleNext /\ UNCHANGED client
  \/ RestartServer /\ UNCHANGED client
  \/ \E t \in Clients :
       \/ StartProgram(t) \/ Kill(t)
       \/ \E op \in Creating : call_with_auth(t, op)
       \/ \E token \in Tokens : _authenticate(t, token)
       \/ AuthenticationFails(t) \/ SendFails(t)
       \/ \E w \in Threads : Send(t, w) \/ Receive(t, w) \/ Cancelled(t, w)
       \/ ConnectionLost(t)
       \/ CleansUp(t) \/ disconnect(t) \/ DisconnectCleansAgain(t) \/ Disconnected(t)
       \/ Exit(t) \/ End(t)

ConnectionSpec == ConnectionInit /\ [][ConnectionNext]_clientVars

-----------------------------------------------------------------------------

\* A tenant that was deleted holds nothing, whatever calls of it were being
\* served: management_service.py removes it from the configuration, then frees
\* its resources, and a call that is served later must find it gone.
DeletedTenantsHoldNothing ==
  \A t \in Tenants \ config :
    held[t] = {} \/ \E m \in Managers : Managing(m, "watch") /\ manager[m].tenant = t

\* _resources_created is never too low: as long as the program holds anything,
\* the cleanup at exit will be asked for.
FlagCoversResources ==
  \A t \in Clients :
    client[t] # NoProgram /\ (\E r \in held[t] : r.mine) => client[t].created

\* One call_with_auth registers at most one resource, although it may send the
\* request twice.
RetriesTakeEffectOnce ==
  \A t \in Clients : In(t, "wait") =>
    client[t].made + Cardinality({w \in Threads : Waits(w, t) /\ thread[w].made}) <= 1
=============================================================================
