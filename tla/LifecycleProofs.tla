--------------------------- MODULE LifecycleProofs ---------------------------
(***************************************************************************)
(* Proofs about tenants that are deleted while they are served, and about  *)
(* the flag and the retry of the programs' connections.                    *)
(***************************************************************************)
EXTENDS ClientConnection, FiniteSetTheorems, TLAPS

\* The program that made the call may still run.
Live(w, t) == thread[w] # Free /\ thread[w].tenant = t /\ thread[w].caller # "ended"

\* The program waits exactly for the call it made.
WaitersAreKnown ==
  \A w \in Threads, t \in Clients :
    Waits(w, t) => In(t, "wait") /\ thread[w].op = client[t].op

\* A program that went on without its answer has no server any more, and so
\* cannot have made another call.
OneCallEach ==
  \A v, w \in Threads, t \in Clients : Live(v, t) /\ Live(w, t) => v = w

CancelledIsUnserved ==
  \A w \in Threads, t \in Clients :
    Live(w, t) /\ thread[w].caller = "went on" => t \notin servers

CallsAreFlagged ==
  \A w \in Threads, t \in Clients :
    Live(w, t) => client[t] # NoProgram /\ (thread[w].op \in Creating => client[t].created)

\* A cleanup that was answered success=True has left nothing.
CleanedIsEmpty ==
  \A w \in Threads, t \in Clients :
    Waits(w, t) /\ thread[w].op = "CleanupResources" /\ thread[w].pc = "ok" =>
      \A r \in held[t] : ~r.mine

\* Where no program runs, nothing is a running program's.
OthersOwnNothing ==
  \A t \in Clients : client[t] = NoProgram => \A r \in held[t] : ~r.mine

\* What is not yet run, or was turned away, has registered nothing.
UnservedMadeNothing ==
  /\ \A w \in Threads :
       thread[w] # Free /\ thread[w].pc \in {"validate", "run", "unauthenticated"} =>
         ~thread[w].made
  /\ \A t \in Clients : client[t] # NoProgram => client[t].made = 0

LifeInv ==
  /\ ConnectionTypeOK
  /\ DeletedTenantsHoldNothing
  /\ WaitersAreKnown
  /\ OneCallEach
  /\ CancelledIsUnserved
  /\ CallsAreFlagged
  /\ CleanedIsEmpty
  /\ FlagCoversResources
  /\ OthersOwnNothing
  /\ UnservedMadeNothing

-----------------------------------------------------------------------------

LEMMA LifeInit == ConnectionInit => LifeInv
<1> SUFFICES ASSUME ConnectionInit PROVE LifeInv
  OBVIOUS
<1> USE DEF ConnectionInit, LifecycleInit, Free, NoProgram
<1>1. ConnectionTypeOK
  BY DEF ConnectionTypeOK, LifecycleTypeOK
<1>2. DeletedTenantsHoldNothing
  BY DEF DeletedTenantsHoldNothing
<1>3. WaitersAreKnown /\ OneCallEach /\ CancelledIsUnserved /\ CallsAreFlagged /\ CleanedIsEmpty
  BY DEF WaitersAreKnown, OneCallEach, CancelledIsUnserved, CallsAreFlagged, CleanedIsEmpty, Waits, Live
<1>4. FlagCoversResources /\ OthersOwnNothing /\ UnservedMadeNothing
  BY ClientsAssumption DEF OthersOwnNothing, FlagCoversResources, UnservedMadeNothing
<1> QED BY <1>1, <1>2, <1>3, <1>4 DEF LifeInv

-----------------------------------------------------------------------------
(* Type correctness *)

LEMMA AnsweredIsTyped ==
  ASSUME NEW c \in Call, NEW a \in Answers
  PROVE  Answered(c, a) \in Call \cup {Free}
  BY DEF Answered, Call, Answers

LEMMA OverIsTyped ==
  ASSUME NEW p \in Program
  PROVE  /\ Over(p) \in Program
         /\ Over(p).pc = "runs" /\ Over(p).made = 0 /\ Over(p).created = p.created
<1>1. "CleanupResources" \in Ops /\ 0 \in 0..1
  BY DEF Ops
<1> QED BY <1>1 DEF Over, Program

LEMMA NewIsTyped == NewProgram \in Program /\ NewProgram.made = 0
<1>1. "CleanupResources" \in Ops /\ 0 \in 0..1
  BY DEF Ops
<1> QED BY <1>1 DEF NewProgram, Program

LEMMA CallIsTyped ==
  ASSUME NEW p \in Program, NEW op \in Creating, NEW pc \in {"send", "authenticate"}
  PROVE  LET q == [p EXCEPT !.pc = pc, !.channel = TRUE, !.op = op, !.retried = FALSE,
                            !.made = 0]
         IN  q \in Program /\ q.made = 0 /\ q.created = p.created
<1>1. op \in Ops /\ 0 \in 0..1
  BY DEF Ops
<1> QED BY <1>1 DEF Program

LEMMA CleanupIsTyped ==
  ASSUME NEW p \in Program, NEW pc \in {"runs", "send"},
         NEW closing \in {"no", "disconnect", "disconnect again", "exit"}
  PROVE  LET q == [p EXCEPT !.closing = closing, !.op = "CleanupResources", !.pc = pc]
         IN  q \in Program /\ q.made = p.made /\ q.created = p.created
<1>1. "CleanupResources" \in Ops
  BY DEF Ops
<1> QED BY <1>1 DEF Program

LEMMA TokenIsTyped ==
  ASSUME NEW p \in Program, NEW k \in Tokens
  PROVE  LET q == [p EXCEPT !.pc = "send", !.token = k]
         IN  q \in Program /\ q.made = p.made /\ q.created = p.created
  BY DEF Program

LEMMA FlagIsTyped ==
  ASSUME NEW p \in Program, NEW b \in BOOLEAN
  PROVE  LET q == [p EXCEPT !.created = b]
         IN  q \in Program /\ q.pc = p.pc /\ q.made = p.made /\ q.created = b
  BY DEF Program

LEMMA DisconnectedIsTyped ==
  ASSUME NEW p \in Program
  PROVE  LET q == [p EXCEPT !.closing = "no", !.channel = FALSE, !.token = NoToken,
                            !.atexit = FALSE]
         IN  q \in Program /\ q.made = p.made /\ q.created = p.created
  BY DEF Program

LEMMA RetryIsTyped ==
  ASSUME NEW p \in Program, NEW c
  PROVE  [p EXCEPT !.pc = "authenticate", !.retried = TRUE,
                   !.made = IF c THEN 1 ELSE p.made] \in Program
<1>1. p.made \in 0..1
  BY DEF Program
<1>2. (IF c THEN 1 ELSE p.made) \in 0..1
  BY <1>1
<1> QED BY <1>2 DEF Program

LEMMA ManagementTyped ==
  ASSUME LifecycleTypeOK, NEW m \in Managers, Management(m)
  PROVE  LifecycleTypeOK'
<1> USE DEF LifecycleTypeOK, Managing, Proceed, Return, Deleting, Free
<1>1. CASE \E t \in Tenants : DeleteTenant(m, t)
  BY <1>1 DEF DeleteTenant
<1>2. CASE StopServer(m)
  BY <1>2 DEF StopServer
<1>3. CASE remove_tenant(m)
  BY <1>3 DEF remove_tenant
<1>4. CASE RemovesNobody(m)
  BY <1>4 DEF RemovesNobody
<1>5. CASE WatcherCleans(m)
  BY <1>5 DEF WatcherCleans, cleanup_tenant_resources
<1>6. CASE WatcherStops(m)
  BY <1>6 DEF WatcherStops
<1>7. CASE DeleteCleans(m)
  BY <1>7 DEF DeleteCleans, cleanup_tenant_resources
<1> QED BY <1>1, <1>2, <1>3, <1>4, <1>5, <1>6, <1>7 DEF Management

LEMMA ServingTyped ==
  ASSUME LifecycleTypeOK, NEW w \in Threads, validate_token(w) \/ Serve(w)
  PROVE  LifecycleTypeOK'
<1>1. thread[w] \in Call
  BY DEF LifecycleTypeOK, validate_token, Serve, Serving, Free
<1>2. \A a \in Answers : Answered(thread[w], a) \in Call \cup {Free}
  BY <1>1, AnsweredIsTyped
<1>3. \A a \in Answers : Answered([thread[w] EXCEPT !.made = TRUE], a) \in Call \cup {Free}
  <2>1. [thread[w] EXCEPT !.made = TRUE] \in Call
    BY <1>1 DEF Call
  <2> QED BY <2>1, AnsweredIsTyped
<1>4. CASE validate_token(w)
  <2>1. [thread[w] EXCEPT !.pc = "run"] \in Call
    BY <1>1 DEF Call
  <2> QED BY <1>2, <1>4, <2>1 DEF validate_token, Answer, LifecycleTypeOK, Answers
<1>5. CASE Serve(w)
  <2>1. thread' \in [Threads -> Call \cup {Free}]
    BY <1>2, <1>3, <1>5 DEF Serve, LifecycleTypeOK, Answers, Answer, Fails, Registers,
       LoadOverlay, CreateMMIO, AllocateBuffer, CleanupResources
  <2>2. \A type \in Types : [type |-> type, mine |-> thread[w].caller # "ended"] \in Resource
    BY DEF Resource
  <2>3. thread[w].tenant \in Tenants
    BY <1>1 DEF Call
  <2>4. held' \in [Tenants -> SUBSET Resource]
    BY <2>2, <2>3, <1>5 DEF Serve, LifecycleTypeOK, Fails, Registers, LoadOverlay, CreateMMIO,
       AllocateBuffer, CleanupResources, cleanup_tenant_resources, Types
  <2> QED BY <1>5, <2>1, <2>4 DEF Serve, LifecycleTypeOK
<1> QED BY <1>4, <1>5

LEMMA GoneTyped ==
  ASSUME ConnectionTypeOK, NEW t \in Clients, ProgramGone(t)
  PROVE  ConnectionTypeOK'
<1>1. thread' \in [Threads -> Call \cup {Free}]
  <2> SUFFICES ASSUME NEW w \in Threads PROVE thread'[w] \in Call \cup {Free}
    BY DEF ProgramGone
  <2> QED BY DEF ProgramGone, ConnectionTypeOK, LifecycleTypeOK, Call
<1>2. held' \in [Tenants -> SUBSET Resource]
  <2>1. \A r \in Resource : [r EXCEPT !.mine = FALSE] \in Resource
    BY DEF Resource
  <2> QED BY <2>1, ClientsAssumption DEF ProgramGone, ConnectionTypeOK, LifecycleTypeOK
<1> QED BY <1>1, <1>2 DEF ProgramGone, ConnectionTypeOK, LifecycleTypeOK

LEMMA TypeStep ==
  ASSUME ConnectionTypeOK, [ConnectionNext]_clientVars
  PROVE  ConnectionTypeOK'
<1> USE DEF ConnectionTypeOK
<1>1. CASE LifecycleNext /\ UNCHANGED client
  <2>1. CASE \E token \in Tokens : Expire(token)
    BY <1>1, <2>1 DEF Expire, LifecycleTypeOK
  <2> QED BY <1>1, <2>1, ManagementTyped, ServingTyped DEF LifecycleNext
<1>2. CASE RestartServer /\ UNCHANGED client
  BY <1>2 DEF RestartServer, LifecycleTypeOK
<1>3. ASSUME NEW t \in Clients, StartProgram(t) PROVE ConnectionTypeOK'
  BY <1>3, NewIsTyped DEF StartProgram, lifeVars, LifecycleTypeOK
<1>4. ASSUME NEW t \in Clients, Kill(t) \/ End(t) PROVE ConnectionTypeOK'
  BY <1>4, GoneTyped DEF Kill, End
<1>5. ASSUME NEW t \in Clients, client[t] \in Program,
             \/ \E op \in Creating : call_with_auth(t, op)
             \/ AuthenticationFails(t) \/ SendFails(t) \/ ConnectionLost(t)
             \/ CleansUp(t) \/ disconnect(t) \/ DisconnectCleansAgain(t)
             \/ Disconnected(t) \/ Exit(t)
      PROVE ConnectionTypeOK'
  <2>1. SUFFICES client' \in [Clients -> Program \cup {NoProgram}] /\ UNCHANGED lifeVars
    BY DEF lifeVars, LifecycleTypeOK
  <2>2. CASE \E op \in Creating : call_with_auth(t, op)
    <3>1. PICK op \in Creating : call_with_auth(t, op)
      BY <2>2
    <3>2. PICK pc \in {"send", "authenticate"} :
            client' = [client EXCEPT ![t] =
              [client[t] EXCEPT !.pc = pc, !.channel = TRUE, !.op = op, !.retried = FALSE,
                                !.made = 0]]
      BY <3>1 DEF call_with_auth
    <3>3. [client[t] EXCEPT !.pc = pc, !.channel = TRUE, !.op = op, !.retried = FALSE,
                            !.made = 0] \in Program
      BY <1>5, CallIsTyped
    <3>4. \A p \in Program : [client EXCEPT ![t] = p] \in [Clients -> Program \cup {NoProgram}]
      OBVIOUS
    <3>5. client' \in [Clients -> Program \cup {NoProgram}]
      BY <3>2, <3>3, <3>4
    <3> QED BY <3>1, <3>5 DEF call_with_auth
  <2>3. CASE AuthenticationFails(t) \/ ConnectionLost(t)
    BY <2>3, <1>5, OverIsTyped DEF AuthenticationFails, ConnectionLost, CallEnds
  <2>4. CASE SendFails(t)
    <3>1. \A p \in Program : [p EXCEPT !.created = FlagAfterSend(t)] \in Program
      BY DEF Program, FlagAfterSend
    <3> QED BY <2>4, <3>1, <1>5, OverIsTyped DEF SendFails
  <2>5. CASE CleansUp(t) \/ disconnect(t) \/ DisconnectCleansAgain(t) \/ Exit(t)
    <3>1. PICK closing \in {"no", "disconnect", "disconnect again", "exit"} :
            cleanup_resources(t, closing)
      BY <2>5 DEF CleansUp, disconnect, DisconnectCleansAgain, Exit
    <3> QED BY <3>1, <1>5, CleanupIsTyped DEF cleanup_resources
  <2>6. CASE Disconnected(t)
    BY <2>6, <1>5 DEF Disconnected, Program
  <2> QED BY <1>5, <2>2, <2>3, <2>4, <2>5, <2>6
<1>6. ASSUME NEW t \in Clients, client[t] \in Program, NEW k \in Tokens, _authenticate(t, k)
      PROVE ConnectionTypeOK'
  BY <1>6 DEF _authenticate, authenticate, LifecycleTypeOK, Program
<1>7. ASSUME NEW t \in Clients, client[t] \in Program, NEW w \in Threads, Send(t, w)
      PROVE ConnectionTypeOK'
  <2>1. thread' \in [Threads -> Call \cup {Free}]
    BY <1>7, ClientsAssumption DEF Send, LifecycleTypeOK, Call, Program
  <2>2. client' \in [Clients -> Program \cup {NoProgram}]
    BY <1>7 DEF Send, Program, FlagAfterSend
  <2> QED BY <1>7, <2>1, <2>2 DEF Send, LifecycleTypeOK
<1>8. ASSUME NEW t \in Clients, client[t] \in Program, NEW w \in Threads, Receive(t, w)
      PROVE ConnectionTypeOK'
  <2>1. [client[t] EXCEPT !.pc = "authenticate", !.retried = TRUE,
                          !.made = IF thread[w].made THEN 1 ELSE client[t].made] \in Program
    BY <1>8, RetryIsTyped
  <2>2. \A b \in BOOLEAN : [Over(client[t]) EXCEPT !.created = client[t].created /\ b] \in Program
    <3>1. \A b \in BOOLEAN : (client[t].created /\ b) \in BOOLEAN
      OBVIOUS
    <3>2. \A p \in Program, b \in BOOLEAN : [p EXCEPT !.created = b] \in Program
      BY DEF Program
    <3> QED BY <1>8, <3>1, <3>2, OverIsTyped
  <2>3. client' \in [Clients -> Program \cup {NoProgram}]
    BY <1>8, <2>1, <2>2 DEF Receive
  <2> QED BY <1>8, <2>3 DEF Receive, LifecycleTypeOK
<1>9. ASSUME NEW t \in Clients, client[t] \in Program, NEW w \in Threads, Cancelled(t, w)
      PROVE ConnectionTypeOK'
  <2>1. client' \in [Clients -> Program \cup {NoProgram}]
    BY <1>9, OverIsTyped DEF Cancelled, CallEnds
  <2>2. thread' \in [Threads -> Call \cup {Free}]
    BY <1>9 DEF Cancelled, Waits, LifecycleTypeOK, Call
  <2> QED BY <1>9, <2>1, <2>2 DEF Cancelled, LifecycleTypeOK
<1>10. CASE UNCHANGED clientVars
  BY <1>10 DEF clientVars, lifeVars, LifecycleTypeOK
<1>11. ASSUME NEW t \in Clients, client[t] = NoProgram
       PROVE  /\ \A k \in Tokens : ~_authenticate(t, k)
              /\ \A w \in Threads : ~Send(t, w) /\ ~Receive(t, w) /\ ~Cancelled(t, w)
              /\ ~AuthenticationFails(t) /\ ~SendFails(t) /\ ~ConnectionLost(t)
              /\ \A op \in Creating : ~call_with_auth(t, op)
              /\ ~CleansUp(t) /\ ~disconnect(t) /\ ~DisconnectCleansAgain(t)
              /\ ~Disconnected(t) /\ ~Exit(t)
  BY <1>11 DEF NoProgram, In, Idle, _authenticate, AuthenticationFails, SendFails, Send, Receive,
     Cancelled, ConnectionLost, call_with_auth, CleansUp, disconnect, DisconnectCleansAgain,
     Disconnected, Exit
<1>12. \A t \in Clients : client[t] \in Program \/ client[t] = NoProgram
  OBVIOUS
<1>13. ASSUME NEW t \in Clients, client[t] \in Program,
              \/ \E token \in Tokens : _authenticate(t, token)
              \/ \E w \in Threads : Send(t, w) \/ Receive(t, w) \/ Cancelled(t, w)
       PROVE ConnectionTypeOK'
  BY <1>6, <1>7, <1>8, <1>9, <1>13
<1> HIDE DEF ConnectionTypeOK
<1>14. CASE \E t \in Clients :
              \/ \E op \in Creating : call_with_auth(t, op)
              \/ \E token \in Tokens : _authenticate(t, token)
              \/ AuthenticationFails(t) \/ SendFails(t)
              \/ \E w \in Threads : Send(t, w) \/ Receive(t, w) \/ Cancelled(t, w)
              \/ ConnectionLost(t)
              \/ CleansUp(t) \/ disconnect(t) \/ DisconnectCleansAgain(t) \/ Disconnected(t)
              \/ Exit(t)
  BY <1>5, <1>11, <1>12, <1>13, <1>14
<1> QED BY <1>1, <1>2, <1>3, <1>4, <1>10, <1>14 DEF ConnectionNext

-----------------------------------------------------------------------------
(* The steps, by who takes them *)

Inv1 == DeletedTenantsHoldNothing /\ WaitersAreKnown /\ OneCallEach
Inv2 == CancelledIsUnserved /\ CallsAreFlagged /\ CleanedIsEmpty
Inv3 == FlagCoversResources /\ OthersOwnNothing /\ UnservedMadeNothing

LEMMA ManagementStep ==
  ASSUME LifeInv, UNCHANGED client,
         \/ \E m \in Managers : Management(m)
         \/ \E token \in Tokens : Expire(token)
  PROVE  Inv1' /\ Inv2' /\ Inv3'
<1> USE DEF LifeInv, Inv1, Inv2, Inv3
<1>1. /\ UNCHANGED <<thread, client>>
      /\ servers' \subseteq servers
      /\ \A t \in Tenants : held'[t] = held[t] \/ held'[t] = {}
  BY DEF Management, DeleteTenant, StopServer, remove_tenant, RemovesNobody, WatcherCleans,
     WatcherStops, DeleteCleans, Expire, cleanup_tenant_resources, ConnectionTypeOK, LifecycleTypeOK
<1>2. DeletedTenantsHoldNothing'
  <2> USE DEF DeletedTenantsHoldNothing, Managing, Proceed, Return, ConnectionTypeOK, LifecycleTypeOK,
              Free, Deleting
  <2>1. CASE \E token \in Tokens : Expire(token)
    BY <2>1 DEF Expire
  <2>2. ASSUME NEW m \in Managers, NEW t \in Tenants, DeleteTenant(m, t)
        PROVE DeletedTenantsHoldNothing'
    BY <2>2 DEF DeleteTenant
  <2>3. ASSUME NEW m \in Managers, StopServer(m) PROVE DeletedTenantsHoldNothing'
    BY <2>3 DEF StopServer
  <2>4. ASSUME NEW m \in Managers, remove_tenant(m) PROVE DeletedTenantsHoldNothing'
    BY <2>4 DEF remove_tenant
  <2>5. ASSUME NEW m \in Managers, RemovesNobody(m) PROVE DeletedTenantsHoldNothing'
    BY <2>5 DEF RemovesNobody
  <2>6. ASSUME NEW m \in Managers, WatcherCleans(m) PROVE DeletedTenantsHoldNothing'
    BY <2>6 DEF WatcherCleans, cleanup_tenant_resources
  <2>7. ASSUME NEW m \in Managers, WatcherStops(m) PROVE DeletedTenantsHoldNothing'
    BY <2>7 DEF WatcherStops
  <2>8. ASSUME NEW m \in Managers, DeleteCleans(m) PROVE DeletedTenantsHoldNothing'
    BY <2>8 DEF DeleteCleans, cleanup_tenant_resources
  <2> QED BY <2>1, <2>2, <2>3, <2>4, <2>5, <2>6, <2>7, <2>8 DEF Management
<1>3. WaitersAreKnown' /\ OneCallEach' /\ CallsAreFlagged'
  BY <1>1 DEF WaitersAreKnown, OneCallEach, CallsAreFlagged, Waits, Live, In
<1>4. CancelledIsUnserved'
  BY <1>1 DEF CancelledIsUnserved, Live
<1>5. CleanedIsEmpty'
  BY <1>1, ClientsAssumption DEF CleanedIsEmpty, Waits
<1>6. FlagCoversResources' /\ OthersOwnNothing'
  BY <1>1, ClientsAssumption DEF FlagCoversResources, OthersOwnNothing
<1>7. UnservedMadeNothing'
  BY <1>1 DEF UnservedMadeNothing
<1> QED BY <1>2, <1>3, <1>4, <1>5, <1>6, <1>7

LEMMA RestartStep ==
  ASSUME LifeInv, UNCHANGED client, RestartServer
  PROVE  Inv1' /\ Inv2' /\ Inv3'
<1> USE DEF LifeInv, Inv1, Inv2, Inv3, RestartServer, Free
<1>1. DeletedTenantsHoldNothing'
  BY DEF DeletedTenantsHoldNothing
<1>2. WaitersAreKnown' /\ OneCallEach' /\ CancelledIsUnserved' /\ CallsAreFlagged' /\ CleanedIsEmpty'
  BY DEF WaitersAreKnown, OneCallEach, CancelledIsUnserved, CallsAreFlagged, CleanedIsEmpty, Waits, Live
<1>3. FlagCoversResources' /\ OthersOwnNothing' /\ UnservedMadeNothing'
  BY ClientsAssumption DEF FlagCoversResources, OthersOwnNothing, UnservedMadeNothing
<1> QED BY <1>1, <1>2, <1>3

LEMMA ProgramIsOne == ASSUME NEW p \in Program PROVE p # NoProgram
<1>1. p.pc \in {"runs", "authenticate", "send", "wait"}
  BY DEF Program
<1>2. NoProgram.pc = "none"
  BY DEF NoProgram
<1> QED BY <1>1, <1>2

\* Steps of a program that leave the server alone and end no call in progress.
LEMMA ProgramStep ==
  ASSUME LifeInv, NEW t \in Clients, NEW p \in Program,
         UNCHANGED <<config, servers, manager, held, thread>>,
         client' = [client EXCEPT ![t] = p],
         p.made = 0,
         client[t] # NoProgram => (client[t].created => p.created),
         ~In(t, "wait") \/ ~Served(t)
  PROVE  Inv1' /\ Inv2' /\ Inv3'
<1> USE DEF LifeInv, Inv1, Inv2, Inv3
<1>0. p # NoProgram
  BY ProgramIsOne
<1>1. DeletedTenantsHoldNothing'
  BY DEF DeletedTenantsHoldNothing, Managing
<1>2. \A w \in Threads : ~Waits(w, t)
  BY DEF WaitersAreKnown, Served
<1>3. WaitersAreKnown' /\ OneCallEach'
  BY <1>2 DEF WaitersAreKnown, OneCallEach, Waits, Live, In, ConnectionTypeOK
<1>4. CancelledIsUnserved' /\ CleanedIsEmpty'
  BY DEF CancelledIsUnserved, CleanedIsEmpty, Waits, Live
<1>5. CallsAreFlagged'
  BY <1>0 DEF CallsAreFlagged, Live, ConnectionTypeOK
<1>6. FlagCoversResources' /\ OthersOwnNothing'
  BY <1>0 DEF FlagCoversResources, OthersOwnNothing, ConnectionTypeOK
<1>7. UnservedMadeNothing'
  BY <1>0 DEF UnservedMadeNothing, ConnectionTypeOK
<1> QED BY <1>1, <1>3, <1>4, <1>5, <1>6, <1>7

LEMMA GoneStep ==
  ASSUME LifeInv, NEW t \in Clients, ProgramGone(t)
  PROVE  Inv1' /\ Inv2' /\ Inv3'
<1> USE DEF LifeInv, Inv1, Inv2, Inv3
<1>1. /\ UNCHANGED <<config, servers, cm_lock, manager, sessions>>
      /\ client' = [client EXCEPT ![t] = NoProgram]
      /\ \A u \in Clients : u # t => client'[u] = client[u]
      /\ client'[t] = NoProgram
  BY DEF ProgramGone, ConnectionTypeOK
<1>2. /\ \A u \in Tenants : u # t => held'[u] = held[u]
      /\ \A r \in held'[t] : ~r.mine
      /\ held[t] = {} => held'[t] = {}
  BY ClientsAssumption DEF ProgramGone, ConnectionTypeOK, LifecycleTypeOK, Resource
<1>3. ASSUME NEW w \in Threads
      PROVE  /\ ~(thread[w] # Free /\ thread[w].tenant = t) => thread'[w] = thread[w]
             /\ (thread[w] # Free /\ thread[w].tenant = t) =>
                  thread'[w] = Free \/ thread'[w] = [thread[w] EXCEPT !.caller = "ended"]
  BY DEF ProgramGone
<1>4. ASSUME NEW w \in Threads, thread'[w] # Free
      PROVE  /\ thread[w] # Free
             /\ thread'[w].tenant = thread[w].tenant
             /\ thread'[w].pc = thread[w].pc
             /\ thread'[w].op = thread[w].op
             /\ thread'[w].made = thread[w].made
             /\ thread'[w].tenant = t => thread'[w].caller = "ended"
             /\ thread'[w].tenant # t => thread'[w] = thread[w]
  <2>1. thread[w] # Free
    BY <1>3, <1>4
  <2>2. thread[w] \in Call
    BY <2>1 DEF ConnectionTypeOK, LifecycleTypeOK
  <2> QED BY <1>3, <1>4, <2>1, <2>2 DEF Call
<1>5. DeletedTenantsHoldNothing'
  BY <1>1, <1>2 DEF DeletedTenantsHoldNothing, Managing
<1>6. \A w \in Threads, u \in Clients :
        /\ Live(w, u)' => u # t /\ Live(w, u) /\ thread'[w] = thread[w]
        /\ Waits(w, u)' => u # t /\ Waits(w, u) /\ thread'[w] = thread[w]
  BY <1>4 DEF Live, Waits
<1>7. WaitersAreKnown'
  BY <1>1, <1>6 DEF WaitersAreKnown, In
<1>8. OneCallEach'
  BY <1>6 DEF OneCallEach
<1>9. CancelledIsUnserved' /\ CallsAreFlagged'
  BY <1>1, <1>6 DEF CancelledIsUnserved, CallsAreFlagged
<1>10. CleanedIsEmpty'
  BY <1>1, <1>2, <1>6, ClientsAssumption DEF CleanedIsEmpty
<1>11. FlagCoversResources' /\ OthersOwnNothing'
  BY <1>1, <1>2, ClientsAssumption DEF FlagCoversResources, OthersOwnNothing
<1>12. UnservedMadeNothing'
  BY <1>1, <1>4 DEF UnservedMadeNothing
<1> QED BY <1>5, <1>7, <1>8, <1>9, <1>10, <1>11, <1>12

\* What an answer and a registered resource leave of a call.
LEMMA AnsweredKeeps ==
  ASSUME NEW c \in Call, NEW a \in Answers, Answered(c, a) # Free
  PROVE  /\ Answered(c, a).tenant = c.tenant
         /\ Answered(c, a).op = c.op
         /\ Answered(c, a).caller = c.caller
         /\ Answered(c, a).made = c.made
         /\ Answered(c, a).pc = a
  BY DEF Answered, Call

LEMMA MadeKeeps ==
  ASSUME NEW c \in Call
  PROVE  /\ [c EXCEPT !.made = TRUE] \in Call
         /\ [c EXCEPT !.made = TRUE].tenant = c.tenant
         /\ [c EXCEPT !.made = TRUE].op = c.op
         /\ [c EXCEPT !.made = TRUE].caller = c.caller
  BY DEF Call

LEMMA RunKeeps ==
  ASSUME NEW c \in Call
  PROVE  /\ [c EXCEPT !.pc = "run"].tenant = c.tenant
         /\ [c EXCEPT !.pc = "run"].op = c.op
         /\ [c EXCEPT !.pc = "run"].caller = c.caller
         /\ [c EXCEPT !.pc = "run"].made = c.made
  BY DEF Call

LEMMA ServingStep ==
  ASSUME LifeInv, UNCHANGED client, NEW w \in Threads, validate_token(w) \/ Serve(w)
  PROVE  Inv1' /\ Inv2' /\ Inv3'
<1> USE DEF LifeInv, Inv1, Inv2, Inv3
<1>1. thread[w] \in Call /\ thread[w].pc \in {"validate", "run"}
  BY DEF ConnectionTypeOK, LifecycleTypeOK, validate_token, Serve, Serving, Free
<1> DEFINE o == thread[w].tenant
<1>2. UNCHANGED <<config, servers, cm_lock, manager, sessions, client>>
  BY DEF validate_token, Serve
<1>3. /\ \A v \in Threads : v # w => thread'[v] = thread[v]
      /\ thread'[w] # Free =>
           /\ thread'[w].tenant = o
           /\ thread'[w].op = thread[w].op
           /\ thread'[w].caller = thread[w].caller
           /\ thread'[w].pc \in {"validate", "run", "unauthenticated"} => ~thread'[w].made
  <2>1. ~thread[w].made
    BY <1>1 DEF UnservedMadeNothing, Free
  <2>2. CASE validate_token(w)
    <3>1. /\ \A v \in Threads : v # w => thread'[v] = thread[v]
          /\ \/ thread'[w] = [thread[w] EXCEPT !.pc = "run"]
             \/ thread'[w] = Answered(thread[w], "unauthenticated")
      BY <2>2 DEF validate_token, Answer, ConnectionTypeOK, LifecycleTypeOK
    <3>2. CASE thread'[w] = [thread[w] EXCEPT !.pc = "run"]
      <4>1. /\ thread'[w].tenant = o /\ thread'[w].op = thread[w].op
            /\ thread'[w].caller = thread[w].caller /\ ~thread'[w].made
        BY <1>1, <2>1, <3>2, RunKeeps
      <4> QED BY <3>1, <4>1
    <3>3. CASE thread'[w] = Answered(thread[w], "unauthenticated")
      BY <1>1, <2>1, <3>1, <3>3, AnsweredKeeps DEF Answers
    <3> QED BY <3>1, <3>2, <3>3
  <2>3. CASE Serve(w)
    <3>1. \/ \E a \in {"ok", "error"} : Answer(w, a)
          \/ \E type \in Types, a \in {"ok", "error"} : Registers(w, type, a)
      BY <2>3 DEF Serve, LoadOverlay, CreateMMIO, AllocateBuffer, CleanupResources, Fails, Types
    <3>2. CASE \E a \in {"ok", "error"} : Answer(w, a)
      <4>1. PICK a \in {"ok", "error"} : thread' = [thread EXCEPT ![w] = Answered(thread[w], a)]
        BY <3>2 DEF Answer
      <4>2. /\ \A v \in Threads : v # w => thread'[v] = thread[v]
            /\ thread'[w] = Answered(thread[w], a)
        BY <4>1 DEF ConnectionTypeOK, LifecycleTypeOK
      <4> QED BY <1>1, <2>1, <4>2, AnsweredKeeps DEF Answers
    <3>3. CASE \E type \in Types, a \in {"ok", "error"} : Registers(w, type, a)
      <4> DEFINE c == [thread[w] EXCEPT !.made = TRUE]
      <4>1. PICK a \in {"ok", "error"} : thread' = [thread EXCEPT ![w] = Answered(c, a)]
        BY <3>3 DEF Registers
      <4>2. /\ \A v \in Threads : v # w => thread'[v] = thread[v]
            /\ thread'[w] = Answered(c, a)
        BY <4>1 DEF ConnectionTypeOK, LifecycleTypeOK
      <4>3. /\ c \in Call
            /\ c.tenant = o /\ c.op = thread[w].op /\ c.caller = thread[w].caller
        BY <1>1, MadeKeeps
      <4> HIDE DEF c
      <4> QED BY <4>2, <4>3, AnsweredKeeps DEF Answers
    <3> QED BY <3>1, <3>2, <3>3
  <2> QED BY <2>2, <2>3
<1>4. /\ \A u \in Tenants : u # o => held'[u] = held[u]
      /\ \A r \in held'[o] : r \in held[o] \/
           (r.mine => thread[w].caller # "ended" /\ thread[w].op \in Creating)
      /\ held'[o] # {} => held[o] # {} \/ o \in config
      /\ thread[w].op \in Creating \/ held'[o] \subseteq held[o]
      /\ (thread'[w] # Free /\ thread'[w].pc = "ok" /\ thread[w].op = "CleanupResources") => held'[o] = {}
  <2>1. CASE validate_token(w)
    BY <1>1, <2>1 DEF validate_token, Answer, Answered, Call, ConnectionTypeOK, LifecycleTypeOK
  <2>2. CASE Serve(w)
    <3>1. o \in Tenants
      BY <1>1 DEF Call
    <3>2. CASE thread[w].op = "CleanupResources" /\ CleanupResources(w)
      BY <3>1, <3>2 DEF CleanupResources, cleanup_tenant_resources, ConnectionTypeOK, LifecycleTypeOK
    <3>3. CASE Fails(w)
      BY <1>1, <3>3 DEF Fails, Answer, Answered, Call, ConnectionTypeOK, LifecycleTypeOK
    <3>4. CASE \/ thread[w].op = "LoadOverlay" /\ LoadOverlay(w)
               \/ thread[w].op = "CreateMMIO" /\ CreateMMIO(w)
               \/ thread[w].op = "AllocateBuffer" /\ AllocateBuffer(w)
      <4>1. thread[w].op \in Creating /\ thread[w].op # "CleanupResources"
        BY <3>4 DEF Creating
      <4>2. held[o] # {} \/ o \in config
        BY <3>4 DEF LoadOverlay, CreateMMIO, AllocateBuffer, Has
      <4>3. PICK x : held' = [held EXCEPT ![o] = held[o] \cup {x}]
                     /\ x.mine = (thread[w].caller # "ended")
        <5> DEFINE x(type) == [type |-> type, mine |-> thread[w].caller # "ended"]
        <5>1. PICK type \in Types : held' = [held EXCEPT ![o] = held[o] \cup {x(type)}]
          BY <3>4 DEF LoadOverlay, CreateMMIO, AllocateBuffer, Registers, Types
        <5>2. x(type).mine = (thread[w].caller # "ended")
          OBVIOUS
        <5> HIDE DEF x
        <5> QED BY <5>1, <5>2
      <4>4. /\ \A u \in Tenants : u # o => held'[u] = held[u]
            /\ held'[o] = held[o] \cup {x}
        BY <3>1, <4>3 DEF ConnectionTypeOK, LifecycleTypeOK
      <4> QED BY <4>1, <4>2, <4>3, <4>4
    <3> QED BY <2>2, <3>2, <3>3, <3>4 DEF Serve
  <2> QED BY <2>1, <2>2
<1>5. o \in Tenants
  BY <1>1 DEF Call
<1>6. \A v \in Threads, t \in Clients : /\ Live(v, t)' => Live(v, t)
                                        /\ Waits(v, t)' => Waits(v, t)
                                        /\ Live(v, t)' => thread'[v].op = thread[v].op
                                        /\ Live(v, t)' => thread'[v].caller = thread[v].caller
  BY <1>1, <1>3 DEF Live, Waits, Free
<1>7. DeletedTenantsHoldNothing'
  BY <1>2, <1>4, <1>5 DEF DeletedTenantsHoldNothing, Managing
<1>8. WaitersAreKnown'
  BY <1>2, <1>6 DEF WaitersAreKnown, In, Waits, Live
<1>9. OneCallEach'
  BY <1>6 DEF OneCallEach
<1>10. CancelledIsUnserved'
  BY <1>2, <1>6 DEF CancelledIsUnserved
<1>11. CallsAreFlagged'
  BY <1>2, <1>6 DEF CallsAreFlagged
<1>12. CleanedIsEmpty'
  <2> SUFFICES ASSUME NEW v \in Threads, NEW t \in Clients, Waits(v, t)',
                      thread'[v].op = "CleanupResources", thread'[v].pc = "ok",
                      NEW r \in held'[t], r.mine
               PROVE  FALSE
    BY DEF CleanedIsEmpty
  <2>1. CASE v = w
    BY <1>3, <1>4, <2>1 DEF Waits
  <2>2. CASE v # w
    <3>1. Waits(v, t) /\ thread[v] = thread'[v] /\ Live(v, t)
      BY <1>3, <2>2 DEF Waits, Live
    <3>2. r \notin held[t]
      BY <3>1 DEF CleanedIsEmpty
    <3>3. t = o /\ thread[w].caller # "ended"
      BY <1>4, <3>2, ClientsAssumption
    <3>4. Live(w, t)
      BY <1>1, <3>3 DEF Live, Free
    <3> QED BY <2>2, <3>1, <3>4 DEF OneCallEach
  <2> QED BY <2>1, <2>2
<1>13. FlagCoversResources' /\ OthersOwnNothing'
  <2> SUFFICES ASSUME NEW t \in Clients, NEW r \in held'[t], r.mine
               PROVE  client[t] # NoProgram /\ client[t].created
    BY <1>2 DEF FlagCoversResources, OthersOwnNothing
  <2>1. CASE r \in held[t]
    BY <2>1 DEF FlagCoversResources, OthersOwnNothing
  <2>2. CASE r \notin held[t]
    <3>1. t = o /\ thread[w].caller # "ended" /\ thread[w].op \in Creating
      BY <1>4, <2>2, ClientsAssumption
    <3>2. Live(w, t)
      BY <1>1, <3>1 DEF Live, Free
    <3> QED BY <3>1, <3>2 DEF CallsAreFlagged
  <2> QED BY <2>1, <2>2
<1>14. UnservedMadeNothing'
  BY <1>2, <1>3 DEF UnservedMadeNothing
<1> QED BY <1>7, <1>8, <1>9, <1>10, <1>11, <1>12, <1>13, <1>14

\* The steps of a program outside a call in progress, and the loss of its call.
LEMMA OwnStep ==
  ASSUME LifeInv, ConnectionTypeOK', NEW t \in Clients,
         \/ StartProgram(t) \/ \E op \in Creating : call_with_auth(t, op)
         \/ \E token \in Tokens : _authenticate(t, token)
         \/ AuthenticationFails(t) \/ SendFails(t) \/ ConnectionLost(t)
         \/ CleansUp(t) \/ disconnect(t) \/ DisconnectCleansAgain(t)
         \/ Disconnected(t) \/ Exit(t)
  PROVE  Inv1' /\ Inv2' /\ Inv3'
<1>1. /\ UNCHANGED <<config, servers, manager, held, thread>>
      /\ ~In(t, "wait") \/ ~Served(t)
  BY DEF StartProgram, call_with_auth, _authenticate, AuthenticationFails, SendFails,
     ConnectionLost, CleansUp, disconnect, DisconnectCleansAgain, Disconnected, Exit,
     cleanup_resources, Idle, In, lifeVars
<1>2. client[t] # NoProgram => client[t] \in Program /\ client[t].made = 0
  BY DEF LifeInv, ConnectionTypeOK, UnservedMadeNothing
<1>3. /\ client' = [client EXCEPT ![t] = client'[t]]
      /\ client'[t] \in Program
      /\ client'[t].made = 0
      /\ client[t] # NoProgram => (client[t].created => client'[t].created)
  <2>1. CASE StartProgram(t)
    <3>1. client[t] = NoProgram
      BY <1>2, <2>1 DEF StartProgram, In, Program
    <3>2. client' = [client EXCEPT ![t] = NewProgram]
      BY <2>1 DEF StartProgram
    <3> QED BY <3>1, <3>2, NewIsTyped DEF LifeInv, ConnectionTypeOK
  <2>2. CASE client[t] # NoProgram /\ ~StartProgram(t)
    <3> DEFINE p == client[t]
               Moves(q) == /\ client' = [client EXCEPT ![t] = q]
                           /\ q \in Program /\ q.made = 0 /\ q.created = p.created
    <3>1. p \in Program /\ p.made = 0
      BY <1>2, <2>2
    <3>2. ASSUME NEW q, Moves(q)
          PROVE  /\ client' = [client EXCEPT ![t] = client'[t]]
                 /\ client'[t] \in Program
                 /\ client'[t].made = 0
                 /\ client'[t].created = p.created
      BY <3>2 DEF LifeInv, ConnectionTypeOK
    <3>3. ASSUME NEW op \in Creating, call_with_auth(t, op) PROVE \E q : Moves(q)
      <4> DEFINE q(pc) == [p EXCEPT !.pc = pc, !.channel = TRUE, !.op = op, !.retried = FALSE,
                                    !.made = 0]
      <4>1. PICK pc \in {"send", "authenticate"} : client' = [client EXCEPT ![t] = q(pc)]
        BY <3>3 DEF call_with_auth
      <4>2. q(pc) \in Program /\ q(pc).made = 0 /\ q(pc).created = p.created
        <5>1. op \in Ops /\ 0 \in 0..1
          BY DEF Ops
        <5> QED BY <3>1, <5>1 DEF Program
      <4> HIDE DEF q
      <4> QED BY <4>1, <4>2
    <3>4. ASSUME NEW k \in Tokens, _authenticate(t, k) PROVE \E q : Moves(q)
      <4>1. client' = [client EXCEPT ![t] = [p EXCEPT !.pc = "send", !.token = k]]
        BY <3>4 DEF _authenticate
      <4> QED BY <3>1, <4>1, TokenIsTyped
    <3>5. CASE AuthenticationFails(t) \/ ConnectionLost(t)
      BY <3>1, <3>2, <3>5, OverIsTyped DEF AuthenticationFails, ConnectionLost, CallEnds
    <3>6. CASE CleansUp(t) \/ disconnect(t) \/ DisconnectCleansAgain(t) \/ Exit(t)
      <4>1. PICK closing \in {"no", "disconnect", "disconnect again", "exit"} :
              cleanup_resources(t, closing)
        BY <3>6 DEF CleansUp, disconnect, DisconnectCleansAgain, Exit
      <4>2. PICK pc \in {"runs", "send"} :
              client' = [client EXCEPT ![t] =
                [p EXCEPT !.closing = closing, !.op = "CleanupResources", !.pc = pc]]
        BY <4>1 DEF cleanup_resources
      <4>3. \E q : Moves(q)
        BY <3>1, <4>2, CleanupIsTyped
      <4> QED BY <3>2, <4>3
    <3>7. CASE Disconnected(t)
      <4>1. client' = [client EXCEPT ![t] = [p EXCEPT !.closing = "no", !.channel = FALSE,
                                                      !.token = NoToken, !.atexit = FALSE]]
        BY <3>7 DEF Disconnected
      <4>2. \E q : Moves(q)
        BY <3>1, <4>1, DisconnectedIsTyped
      <4> QED BY <3>2, <4>2
    <3>8. CASE SendFails(t)
      <4> DEFINE q == [Over(p) EXCEPT !.created = FlagAfterSend(t)]
      <4>1. client' = [client EXCEPT ![t] = q]
        BY <3>8 DEF SendFails
      <4>2. FlagAfterSend(t) \in BOOLEAN /\ (p.created => FlagAfterSend(t))
        BY <3>1 DEF FlagAfterSend, Program
      <4>3. q \in Program /\ q.made = 0 /\ q.created = FlagAfterSend(t)
        BY <3>1, <4>2, OverIsTyped, FlagIsTyped
      <4> HIDE DEF q
      <4> QED BY <4>1, <4>2, <4>3 DEF LifeInv, ConnectionTypeOK
    <3> HIDE DEF Moves
    <3>9. CASE \/ \E op \in Creating : call_with_auth(t, op)
               \/ \E token \in Tokens : _authenticate(t, token)
      BY <3>2, <3>3, <3>4, <3>9
    <3> QED BY <2>2, <3>5, <3>6, <3>7, <3>8, <3>9
  <2>3. StartProgram(t) \/ client[t].pc # "none"
    BY DEF In, call_with_auth, _authenticate, AuthenticationFails, SendFails, ConnectionLost,
       CleansUp, disconnect, DisconnectCleansAgain, Disconnected, Exit, Idle
  <2>4. NoProgram.pc = "none"
    BY DEF NoProgram
  <2> QED BY <2>1, <2>2, <2>3, <2>4
<1> QED BY <1>1, <1>3, ProgramStep

LEMMA SendStep ==
  ASSUME LifeInv, ConnectionTypeOK', NEW t \in Clients, NEW w \in Threads, Send(t, w)
  PROVE  Inv1' /\ Inv2' /\ Inv3'
<1> DEFINE p == [client[t] EXCEPT !.pc = "wait", !.created = FlagAfterSend(t)]
           c == [pc |-> "validate", tenant |-> t, op |-> client[t].op,
                 token |-> client[t].token, caller |-> "waits", made |-> FALSE]
<1>1. client[t] \in Program /\ client[t].made = 0 /\ client[t] # NoProgram
  BY DEF LifeInv, ConnectionTypeOK, UnservedMadeNothing, Send, In, NoProgram
<1>2. /\ p \in Program /\ p.made = 0 /\ p.pc = "wait" /\ p.op = client[t].op
      /\ p.created = (client[t].created \/ client[t].op \in Creating)
  BY <1>1 DEF Program, FlagAfterSend
<1>3. /\ c # Free /\ c.tenant = t /\ c.op = client[t].op /\ c.caller = "waits"
      /\ ~c.made /\ c.pc = "validate"
  <2>1. c.pc # Free.pc
    BY DEF Free
  <2> QED BY <2>1
<1>4. client' = [client EXCEPT ![t] = p] /\ thread' = [thread EXCEPT ![w] = c]
  BY DEF Send
<1> HIDE DEF p, c
<1>5. /\ UNCHANGED <<config, servers, manager, held>>
      /\ t \in servers
      /\ In(t, "send")
      /\ \A v \in Threads : v # w => thread'[v] = thread[v]
      /\ thread'[w] = c
      /\ \A u \in Clients : u # t => client'[u] = client[u]
      /\ client'[t] = p
  BY <1>4 DEF Send, LifeInv, ConnectionTypeOK, LifecycleTypeOK
<1>6. thread[w] = Free
  BY DEF Send, Serving, LifeInv, ConnectionTypeOK, LifecycleTypeOK, Call, Answers
<1>7. \A v \in Threads : ~Live(v, t)
  <2> SUFFICES ASSUME NEW v \in Threads, Live(v, t) PROVE FALSE
    OBVIOUS
  <2>1. thread[v].caller = "waits"
    BY <1>5 DEF LifeInv, CancelledIsUnserved, Live, ConnectionTypeOK, LifecycleTypeOK, Call
  <2>2. Waits(v, t)
    BY <2>1 DEF Live, Waits
  <2> QED BY <1>5, <2>2 DEF LifeInv, WaitersAreKnown, In
<1>8. p # NoProgram
  BY <1>2, ProgramIsOne
<1>9. \A v \in Threads, u \in Clients :
        /\ Live(v, u)' <=> IF v = w THEN u = t ELSE Live(v, u)
        /\ Waits(v, u)' <=> IF v = w THEN u = t ELSE Waits(v, u)
  BY <1>3, <1>5 DEF Live, Waits
<1>10. \A v \in Threads : ~Waits(v, t)
  BY <1>7 DEF Live, Waits
<1> USE DEF LifeInv
<1>11. DeletedTenantsHoldNothing'
  BY <1>5 DEF DeletedTenantsHoldNothing, Managing
<1>12. WaitersAreKnown'
  <2> SUFFICES ASSUME NEW v \in Threads, NEW u \in Clients, Waits(v, u)'
               PROVE  client'[u].pc = "wait" /\ thread'[v].op = client'[u].op
    BY DEF WaitersAreKnown, In
  <2>1. CASE v = w
    BY <1>2, <1>3, <1>5, <1>9, <2>1
  <2>2. CASE v # w
    BY <1>5, <1>9, <1>10, <2>2 DEF WaitersAreKnown, In
  <2> QED BY <2>1, <2>2
<1>13. OneCallEach'
  BY <1>7, <1>9 DEF OneCallEach
<1>14. CancelledIsUnserved'
  BY <1>3, <1>5, <1>9 DEF CancelledIsUnserved
<1>15. CallsAreFlagged'
  BY <1>2, <1>3, <1>5, <1>7, <1>8, <1>9 DEF CallsAreFlagged
<1>16. CleanedIsEmpty'
  BY <1>3, <1>5, <1>9 DEF CleanedIsEmpty
<1>17. FlagCoversResources' /\ OthersOwnNothing'
  BY <1>1, <1>2, <1>5, <1>8 DEF FlagCoversResources, OthersOwnNothing
<1>18. UnservedMadeNothing'
  BY <1>2, <1>3, <1>5 DEF UnservedMadeNothing
<1> QED BY <1>11, <1>12, <1>13, <1>14, <1>15, <1>16, <1>17, <1>18 DEF Inv1, Inv2, Inv3

LEMMA ReceiveStep ==
  ASSUME LifeInv, ConnectionTypeOK', NEW t \in Clients, NEW w \in Threads, Receive(t, w)
  PROVE  Inv1' /\ Inv2' /\ Inv3'
<1>1. client[t] \in Program /\ client[t].made = 0 /\ client[t] # NoProgram
  BY DEF LifeInv, ConnectionTypeOK, UnservedMadeNothing, Receive, In, NoProgram
<1>2. /\ UNCHANGED <<config, servers, manager, held>>
      /\ Waits(w, t)
      /\ thread' = [thread EXCEPT ![w] = Free]
  BY DEF Receive
<1>3. /\ \A v \in Threads : v # w => thread'[v] = thread[v]
      /\ thread'[w] = Free
  BY <1>2 DEF LifeInv, ConnectionTypeOK, LifecycleTypeOK
<1>4. Live(w, t)
  BY <1>2 DEF Live, Waits
<1>5. thread[w].op = client[t].op
  BY <1>2 DEF LifeInv, WaitersAreKnown
<1>6. PICK p : /\ client' = [client EXCEPT ![t] = p]
               /\ p.made = 0
               /\ \/ p.created = client[t].created
                  \/ /\ thread[w].pc = "ok" /\ client[t].op = "CleanupResources"
  <2>1. CASE Retries(t, thread[w].pc)
    <3> DEFINE p == [client[t] EXCEPT !.pc = "authenticate", !.retried = TRUE,
                                      !.made = IF thread[w].made THEN 1 ELSE client[t].made]
    <3>1. client' = [client EXCEPT ![t] = p]
      BY <2>1 DEF Receive
    <3>2. ~thread[w].made
      BY <1>2, <2>1 DEF Retries, Waits, LifeInv, UnservedMadeNothing
    <3>3. p.made = 0 /\ p.created = client[t].created
      BY <1>1, <3>2 DEF Program
    <3> HIDE DEF p
    <3> QED BY <3>1, <3>3
  <2>2. CASE ~Retries(t, thread[w].pc)
    <3> DEFINE cleaned == thread[w].pc = "ok" /\ client[t].op = "CleanupResources"
               p == [Over(client[t]) EXCEPT !.created = client[t].created /\ ~cleaned]
    <3>1. client' = [client EXCEPT ![t] = p]
      BY <2>2 DEF Receive
    <3>2. (client[t].created /\ ~cleaned) \in BOOLEAN
      OBVIOUS
    <3>3. p.made = 0 /\ p.created = (client[t].created /\ ~cleaned)
      BY <1>1, <3>2, OverIsTyped, FlagIsTyped
    <3>4. ~cleaned => (client[t].created /\ ~cleaned) = client[t].created
      BY <1>1 DEF Program
    <3> HIDE DEF p
    <3> QED BY <3>1, <3>3, <3>4
  <2> QED BY <2>1, <2>2
<1>7. /\ \A u \in Clients : u # t => client'[u] = client[u]
      /\ client'[t] = p
  BY <1>6 DEF LifeInv, ConnectionTypeOK
<1>8. p # NoProgram
  <2>1. p.pc # "none"
    <3>1. CASE Retries(t, thread[w].pc)
      BY <1>1, <1>7, <3>1 DEF Receive, Program, LifeInv, ConnectionTypeOK
    <3>2. CASE ~Retries(t, thread[w].pc)
      BY <1>1, <1>7, <3>2 DEF Receive, Over, Program, LifeInv, ConnectionTypeOK
    <3> QED BY <3>1, <3>2
  <2> QED BY <2>1 DEF NoProgram
<1>9. \A v \in Threads, u \in Clients :
        /\ Live(v, u)' => Live(v, u) /\ thread'[v] = thread[v] /\ u # t
        /\ Waits(v, u)' => Waits(v, u) /\ thread'[v] = thread[v] /\ u # t
  <2> SUFFICES ASSUME NEW v \in Threads, NEW u \in Clients, Live(v, u)'
               PROVE  Live(v, u) /\ thread'[v] = thread[v] /\ u # t
    BY DEF Live, Waits
  <2>1. v # w
    BY <1>3 DEF Live
  <2>2. Live(v, u)
    BY <1>3, <2>1 DEF Live
  <2> QED BY <1>3, <1>4, <2>1, <2>2 DEF LifeInv, OneCallEach
<1> USE DEF LifeInv
<1>10. DeletedTenantsHoldNothing'
  BY <1>2 DEF DeletedTenantsHoldNothing, Managing
<1>11. WaitersAreKnown' /\ OneCallEach' /\ CancelledIsUnserved'
  <2>1. WaitersAreKnown'
    BY <1>7, <1>9 DEF WaitersAreKnown, In
  <2>2. OneCallEach'
    BY <1>9 DEF OneCallEach
  <2>3. CancelledIsUnserved'
    BY <1>2, <1>9 DEF CancelledIsUnserved
  <2> QED BY <2>1, <2>2, <2>3
<1>12. CallsAreFlagged' /\ CleanedIsEmpty'
  BY <1>2, <1>7, <1>9 DEF CallsAreFlagged, CleanedIsEmpty
<1>13. FlagCoversResources' /\ OthersOwnNothing'
  <2>1. p.created \/ \A r \in held[t] : ~r.mine
    BY <1>1, <1>2, <1>5, <1>6 DEF FlagCoversResources, CleanedIsEmpty
  <2> QED BY <1>2, <1>7, <1>8, <2>1 DEF FlagCoversResources, OthersOwnNothing
<1>14. UnservedMadeNothing'
  BY <1>3, <1>6, <1>7 DEF UnservedMadeNothing
<1> QED BY <1>10, <1>11, <1>12, <1>13, <1>14 DEF Inv1, Inv2, Inv3

LEMMA WentOnKeeps ==
  ASSUME NEW c \in Call
  PROVE  LET d == [c EXCEPT !.caller = "went on"]
         IN  /\ d.tenant = c.tenant /\ d.op = c.op /\ d.pc = c.pc /\ d.made = c.made
             /\ d.caller = "went on" /\ d # Free
<1>1. [c EXCEPT !.caller = "went on"].pc # "idle"
  BY DEF Call, Answers
<1>2. Free.pc = "idle"
  BY DEF Free
<1> QED BY <1>1, <1>2 DEF Call

LEMMA CancelledStep ==
  ASSUME LifeInv, ConnectionTypeOK', NEW t \in Clients, NEW w \in Threads, Cancelled(t, w)
  PROVE  Inv1' /\ Inv2' /\ Inv3'
<1>1. client[t] \in Program /\ client[t] # NoProgram
  <2>1. client[t].pc = "wait"
    BY DEF Cancelled, In
  <2>2. client[t] # NoProgram
    BY <2>1 DEF NoProgram
  <2> QED BY <2>2 DEF LifeInv, ConnectionTypeOK
<1>2. thread[w] \in Call /\ Waits(w, t) /\ Live(w, t)
  BY DEF Cancelled, Waits, Live, LifeInv, ConnectionTypeOK, LifecycleTypeOK
<1> DEFINE p == Over(client[t])
           c == [thread[w] EXCEPT !.caller = "went on"]
<1>3. /\ p # NoProgram /\ p.made = 0 /\ p.created = client[t].created
  BY <1>1, OverIsTyped, ProgramIsOne
<1>4. /\ c # Free /\ c.tenant = t /\ c.op = thread[w].op /\ c.caller = "went on"
      /\ c.pc = thread[w].pc /\ c.made = thread[w].made
  BY <1>2, WentOnKeeps DEF Waits
<1>5. /\ UNCHANGED <<config, servers, manager, held>>
      /\ t \notin servers
      /\ client' = [client EXCEPT ![t] = p]
      /\ thread' = [thread EXCEPT ![w] = c]
  BY DEF Cancelled, CallEnds
<1> HIDE DEF p, c
<1>6. /\ \A v \in Threads : v # w => thread'[v] = thread[v]
      /\ thread'[w] = c
      /\ \A u \in Clients : u # t => client'[u] = client[u]
      /\ client'[t] = p
  BY <1>5 DEF LifeInv, ConnectionTypeOK, LifecycleTypeOK
<1>7. \A v \in Threads, u \in Clients :
        /\ Live(v, u)' => Live(v, u) /\ thread'[v].op = thread[v].op
        /\ Live(v, u)' /\ u = t => v = w
        /\ Live(v, u)' /\ u # t => v # w
        /\ Waits(v, u)' => Waits(v, u) /\ v # w /\ u # t /\ thread'[v] = thread[v]
  <2> SUFFICES ASSUME NEW v \in Threads, NEW u \in Clients, Live(v, u)'
               PROVE  /\ Live(v, u) /\ thread'[v].op = thread[v].op
                      /\ u = t <=> v = w
                      /\ Waits(v, u)' => Waits(v, u) /\ v # w /\ thread'[v] = thread[v]
    BY DEF Live, Waits
  <2>1. CASE v = w
    BY <1>2, <1>4, <1>6, <2>1 DEF Live, Waits
  <2>2. CASE v # w
    BY <1>2, <1>6, <2>2 DEF Live, Waits, LifeInv, OneCallEach
  <2> QED BY <2>1, <2>2
<1> USE DEF LifeInv
<1>8. DeletedTenantsHoldNothing'
  BY <1>5 DEF DeletedTenantsHoldNothing, Managing
<1>9. WaitersAreKnown' /\ OneCallEach'
  BY <1>6, <1>7 DEF WaitersAreKnown, OneCallEach, In
<1>10. CancelledIsUnserved'
  BY <1>5, <1>6, <1>7 DEF CancelledIsUnserved
<1>11. CallsAreFlagged'
  BY <1>3, <1>6, <1>7 DEF CallsAreFlagged
<1>12. CleanedIsEmpty'
  BY <1>5, <1>7 DEF CleanedIsEmpty
<1>13. FlagCoversResources' /\ OthersOwnNothing'
  BY <1>1, <1>3, <1>5, <1>6 DEF FlagCoversResources, OthersOwnNothing
<1>14. UnservedMadeNothing'
  BY <1>2, <1>3, <1>4, <1>6 DEF UnservedMadeNothing, Waits
<1> QED BY <1>8, <1>9, <1>10, <1>11, <1>12, <1>13, <1>14 DEF Inv1, Inv2, Inv3

-----------------------------------------------------------------------------
(* The theorems *)

LEMMA LifeStep == ASSUME LifeInv, [ConnectionNext]_clientVars PROVE LifeInv'
<1>1. ConnectionTypeOK'
  BY TypeStep DEF LifeInv
<1> SUFFICES Inv1' /\ Inv2' /\ Inv3'
  BY <1>1 DEF LifeInv, Inv1, Inv2, Inv3
<1>2. CASE LifecycleNext /\ UNCHANGED client
  BY <1>2, ManagementStep, ServingStep DEF LifecycleNext
<1>3. CASE RestartServer /\ UNCHANGED client
  BY <1>3, RestartStep
<1>4. ASSUME NEW t \in Clients,
             \/ StartProgram(t) \/ \E op \in Creating : call_with_auth(t, op)
             \/ \E token \in Tokens : _authenticate(t, token)
             \/ AuthenticationFails(t) \/ SendFails(t) \/ ConnectionLost(t)
             \/ CleansUp(t) \/ disconnect(t) \/ DisconnectCleansAgain(t)
             \/ Disconnected(t) \/ Exit(t)
      PROVE Inv1' /\ Inv2' /\ Inv3'
  BY <1>1, <1>4, OwnStep
<1>5. ASSUME NEW t \in Clients, Kill(t) \/ End(t)
      PROVE Inv1' /\ Inv2' /\ Inv3'
  BY <1>5, GoneStep DEF Kill, End
<1>6. ASSUME NEW t \in Clients, NEW w \in Threads, Send(t, w) \/ Receive(t, w) \/ Cancelled(t, w)
      PROVE Inv1' /\ Inv2' /\ Inv3'
  BY <1>1, <1>6, SendStep, ReceiveStep, CancelledStep
<1>7. CASE UNCHANGED clientVars
  <2>1. UNCHANGED <<config, servers, cm_lock, manager, sessions, held, thread, client>>
    BY <1>7 DEF clientVars, lifeVars
  <2>2. Inv1'
    BY <2>1 DEF LifeInv, Inv1, DeletedTenantsHoldNothing, Managing, WaitersAreKnown,
       OneCallEach, Waits, Live, In
  <2>3. Inv2'
    BY <2>1 DEF LifeInv, Inv2, CancelledIsUnserved, CallsAreFlagged, CleanedIsEmpty,
       Waits, Live, In
  <2>4. Inv3'
    BY <2>1 DEF LifeInv, Inv3, FlagCoversResources, OthersOwnNothing, UnservedMadeNothing,
       Waits, In
  <2> QED BY <2>2, <2>3, <2>4
<1> QED BY <1>2, <1>3, <1>4, <1>5, <1>6, <1>7 DEF ConnectionNext

\* What is true of every program and of every call that is served, whoever
\* deletes the tenant, stops its server or kills the program meanwhile.
THEOREM LifeInvariance == ConnectionSpec => []LifeInv
  BY LifeInit, LifeStep, PTL DEF ConnectionSpec

\* The connection, the sessions and the calls keep their types.
THEOREM ConnectionTypes == ConnectionSpec => []ConnectionTypeOK
<1>1. LifeInv => ConnectionTypeOK
  BY DEF LifeInv
<1> QED BY <1>1, LifeInvariance, PTL

\* A call of a tenant that was deleted (management_service.py, DeleteTenant)
\* cannot leave anything allocated, however many managers delete tenants and
\* however many calls are being served.
THEOREM DeletedTenantsAreFreed == ConnectionSpec => []DeletedTenantsHoldNothing
<1>1. LifeInv => DeletedTenantsHoldNothing
  BY DEF LifeInv
<1> QED BY <1>1, LifeInvariance, PTL

\* connection.py never forgets that its program may hold resources: the cleanup
\* at exit is asked for whenever there is something to clean up.
THEOREM FlagIsNeverTooLow == ConnectionSpec => []FlagCoversResources
<1>1. LifeInv => FlagCoversResources
  BY DEF LifeInv
<1> QED BY <1>1, LifeInvariance, PTL

\* call_with_auth may send a request twice, but only after an answer that
\* registered nothing.
THEOREM CallsTakeEffectOnce == ConnectionSpec => []RetriesTakeEffectOnce
<1>1. ASSUME LifeInv PROVE RetriesTakeEffectOnce
  <2> SUFFICES ASSUME NEW t \in Clients, In(t, "wait")
               PROVE  client[t].made + Cardinality({w \in Threads : Waits(w, t) /\ thread[w].made}) <= 1
    BY DEF RetriesTakeEffectOnce
  <2> DEFINE S == {w \in Threads : Waits(w, t) /\ thread[w].made}
  <2>1. client[t].made = 0
    BY <1>1 DEF LifeInv, UnservedMadeNothing, In, NoProgram
  <2>2. \A v, w \in S : v = w
    BY <1>1 DEF LifeInv, OneCallEach, Waits, Live
  <2>3. S = {} \/ \E w : S = {w}
    BY <2>2
  <2> HIDE DEF S
  <2>4. Cardinality(S) \in {0, 1}
    BY <2>3, FS_EmptySet, FS_Singleton
  <2> QED BY <2>1, <2>4 DEF S
<1> QED BY <1>1, LifeInvariance, PTL
=============================================================================
