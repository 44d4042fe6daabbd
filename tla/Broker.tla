-------------------------------- MODULE Broker --------------------------------
(***************************************************************************)
(* The credential broker of the VM bridge provider (vm-bridge-provider.py, *)
(* _BrokerServer, _BrokerHandler and BrokerLease): a loopback server that  *)
(* lives for one launch and forwards the guest's model calls with a        *)
(* credential the guest never sees.  The owner opens the lease and closes  *)
(* it; one accept loop hands connections to threads, a bounded number at a *)
(* time; a thread serves the requests of its connection one after another. *)
(* Every action ends at a lock: what a thread read under one may be stale  *)
(* under the next.                                                         *)
(***************************************************************************)
EXTENDS Integers, FiniteSets

CONSTANTS
  Conns,        \* the connections the guest may open
  Requests,     \* the requests it may send
  MaxSlots,     \* MAX_BROKER_CONCURRENT_CONNECTIONS
  MaxRequests,  \* MAX_BROKER_REQUESTS
  Limits        \* the bounds a chat request must keep

ASSUME BrokerAssumption ==
  /\ IsFiniteSet(Conns)
  /\ MaxSlots \in Nat \ {0} /\ MaxRequests \in Nat
  /\ Limits \in [bytes : Nat, depth : Nat, string : Nat, items : Nat, tokens : Nat,
                 messages : Nat, tools : Nat]

VARIABLES
  owner,      \* where BrokerLease.__enter__ and __exit__ are
  accepting,  \* _accepting; the lease and the credential are kept as long
  count,      \* _request_count
  slots,      \* how many of _connection_slots are taken
  sockets,    \* _active_sockets
  upstreams,  \* _active_upstreams
  closing,    \* what revoke has left to close of its two snapshots
  conn,       \* the connections: where the loop or the thread of each is
  calls       \* how many requests the upstream endpoint was sent

vars == <<owner, accepting, count, slots, sockets, upstreams, closing, conn, calls>>

\* The pc of a connection: held has its slot, known is registered; from idle on
\* it has a thread, which goes down the checks of _proxy and back to idle.
Pc == {"off", "held", "known", "idle", "authorized", "reserved", "checked",
       "credential", "registered", "sent", "gone"}
Holding == Pc \ {"off", "gone"}
Threads == Holding \ {"held", "known"}
Owner == {"off", "ready", "up", "revoking", "stopping", "closed", "failed"}
\* open: the client's socket; call: the connection to the upstream endpoint.
Conn == [pc : Pc, open : BOOLEAN, call : {"none", "made", "open", "shut"},
         req : SUBSET Requests]
Fresh == [pc |-> "off", open |-> TRUE, call |-> "none", req |-> {}]
Gone == [Fresh EXCEPT !.pc = "gone", !.open = FALSE]

Handled == {c \in Conns : conn[c].pc \in Threads}

\* The registered sockets and upstream connections are those of live threads.
TypeOK ==
  /\ owner \in Owner /\ accepting \in BOOLEAN
  /\ count \in Nat /\ slots \in Nat /\ calls \in Nat
  /\ conn \in [Conns -> Conn]
  /\ closing \in [upstreams : SUBSET Conns, sockets : SUBSET Conns]
  /\ sockets = Handled \cup {c \in Conns : conn[c].pc = "known"}
  /\ upstreams = {c \in Conns : conn[c].pc \in {"registered", "sent"}}

Init ==
  /\ owner = "off" /\ accepting = FALSE
  /\ count = 0 /\ slots = 0 /\ calls = 0
  /\ sockets = {} /\ upstreams = {}
  /\ closing = [upstreams |-> {}, sockets |-> {}]
  /\ conn = [c \in Conns |-> Fresh]

-----------------------------------------------------------------------------
\* What a request must be to be forwarded.

Authorized(r) ==
  /\ r.command = "POST" /\ r.loopback /\ r.path = "chat"
  /\ r.authorizations = <<"lease">>

WellFramed(r) ==
  /\ r.types = <<"json">> /\ r.encodings = <<>>
  /\ r.length \in 1..Limits.bytes

BoundedJson(v) ==
  /\ v.depth <= Limits.depth
  /\ v.string <= Limits.string
  /\ v.items <= Limits.items

Whole(r) == r.body = r.length

ValidatedChat(v) ==
  /\ v.json /\ v.fields = "exact" /\ BoundedJson(v)
  /\ v.model = "kimi-for-coding" /\ v.stream /\ v.usage
  /\ v.tokens \in 1..Limits.tokens
  /\ v.messages \in 1..Limits.messages
  /\ v.tools \in 0..Limits.tools
  /\ v.cacheKey /\ v.thinking

-----------------------------------------------------------------------------
\* The owner.

\* The policy must name the fixed endpoint, and the credential outlive the
\* longest lease.
ReadPolicy ==
  /\ owner = "off"
  /\ owner' \in {"ready", "failed"}
  /\ UNCHANGED <<accepting, count, slots, sockets, upstreams, closing, conn, calls>>

\* The server listens, or its port cannot be bound.
Enter ==
  /\ owner = "ready"
  /\ \/ owner' = "up" /\ accepting' = TRUE
     \/ owner' = "failed" /\ accepting' = FALSE
  /\ UNCHANGED <<count, slots, sockets, upstreams, closing, conn, calls>>

\* Mutant: the connections of the guest are left open.
RevokeHalf ==
  /\ owner = "up"
  /\ owner' = "revoking" /\ accepting' = FALSE
  /\ closing' = [upstreams |-> upstreams, sockets |-> {}]
  /\ UNCHANGED <<count, slots, sockets, upstreams, conn, calls>>

Revoke ==
  /\ owner = "up"
  /\ owner' = "revoking" /\ accepting' = FALSE
  /\ closing' = [upstreams |-> upstreams, sockets |-> sockets]
  /\ UNCHANGED <<count, slots, sockets, upstreams, conn, calls>>

\* http.client opens its socket when the request is made: closing a connection
\* that has not sent anything closes nothing.
CloseUpstream(c) ==
  /\ owner = "revoking" /\ c \in closing.upstreams
  /\ closing' = [closing EXCEPT !.upstreams = @ \ {c}]
  /\ conn' = [conn EXCEPT ![c].call = IF @ = "open" THEN "shut" ELSE @]
  /\ UNCHANGED <<owner, accepting, count, slots, sockets, upstreams, calls>>

CloseSocket(c) ==
  /\ owner = "revoking" /\ closing.upstreams = {} /\ c \in closing.sockets
  /\ closing' = [closing EXCEPT !.sockets = @ \ {c}]
  /\ conn' = [conn EXCEPT ![c].open = FALSE]
  /\ UNCHANGED <<owner, accepting, count, slots, sockets, upstreams, calls>>

\* shutdown returns when the accept loop is between two connections.
Loop == {c \in Conns : conn[c].pc \in {"held", "known"}}

Shutdown ==
  /\ owner = "revoking" /\ closing = [upstreams |-> {}, sockets |-> {}] /\ Loop = {}
  /\ owner' = "stopping"
  /\ UNCHANGED <<accepting, count, slots, sockets, upstreams, closing, conn, calls>>

\* Mutant: the threads are not joined.
CloseUnjoined ==
  /\ owner = "stopping"
  /\ owner' = "closed"
  /\ UNCHANGED <<accepting, count, slots, sockets, upstreams, closing, conn, calls>>

\* server_close joins the threads, with no timeout.
Close ==
  /\ owner = "stopping" /\ Handled = {}
  /\ owner' = "closed"
  /\ UNCHANGED <<accepting, count, slots, sockets, upstreams, closing, conn, calls>>

-----------------------------------------------------------------------------
\* The accept loop.

Serving == owner \in {"up", "revoking"} /\ Loop = {}

Acquire(c) ==
  /\ Serving /\ conn[c].pc = "off"
  /\ \/ slots < MaxSlots /\ slots' = slots + 1 /\ conn' = [conn EXCEPT ![c].pc = "held"]
     \/ slots = MaxSlots /\ slots' = slots /\ conn' = [conn EXCEPT ![c] = Gone]
  /\ UNCHANGED <<owner, accepting, count, sockets, upstreams, closing, calls>>

Register(c) ==
  /\ conn[c].pc = "held" /\ accepting
  /\ sockets' = sockets \cup {c}
  /\ conn' = [conn EXCEPT ![c].pc = "known"]
  /\ UNCHANGED <<owner, accepting, count, slots, upstreams, closing, calls>>

RegisterLate(c) ==
  /\ conn[c].pc = "held" /\ ~accepting
  /\ slots' = slots - 1
  /\ conn' = [conn EXCEPT ![c] = Gone]
  /\ UNCHANGED <<owner, accepting, count, sockets, upstreams, closing, calls>>

StartThread(c) ==
  /\ conn[c].pc = "known"
  /\ conn' = [conn EXCEPT ![c].pc = "idle"]
  /\ UNCHANGED <<owner, accepting, count, slots, sockets, upstreams, closing, calls>>

\* The end of a connection, in the loop or in its thread.
Leave(c) ==
  /\ sockets' = sockets \ {c} /\ slots' = slots - 1
  /\ conn' = [conn EXCEPT ![c] = Gone]
  /\ UNCHANGED <<owner, accepting, count, upstreams, closing, calls>>

StartFails(c) == conn[c].pc = "known" /\ Leave(c)

\* The client closes, says nothing for BROKER_CLIENT_TIMEOUT_SECONDS, or finds
\* its socket shut.
EndConnection(c) == conn[c].pc = "idle" /\ Leave(c)
CutOff(c) == ~conn[c].open /\ EndConnection(c)

-----------------------------------------------------------------------------
\* The requests of a connection.

Goto(c, pc) == conn' = [conn EXCEPT ![c].pc = pc]
Reject(c) == conn' = [conn EXCEPT ![c].pc = "idle", ![c].req = {}, ![c].call = "none"]

Request(c, r) ==
  /\ conn[c].pc = "idle" /\ conn[c].open
  /\ Authorized(r) /\ accepting /\ WellFramed(r)
  /\ conn' = [conn EXCEPT ![c].pc = "authorized", ![c].req = {r}]
  /\ UNCHANGED <<owner, accepting, count, slots, sockets, upstreams, closing, calls>>

\* Mutant: the budget ends one request too late.
ReserveOnePast(c) ==
  /\ conn[c].pc = "authorized"
  /\ \/ accepting /\ count <= MaxRequests /\ count' = count + 1 /\ Goto(c, "reserved")
     \/ ~(accepting /\ count <= MaxRequests) /\ count' = count /\ Reject(c)
  /\ UNCHANGED <<owner, accepting, slots, sockets, upstreams, closing, calls>>

\* The budget is spent before the body is read.
Reserve(c) ==
  /\ conn[c].pc = "authorized"
  /\ \/ accepting /\ count < MaxRequests /\ count' = count + 1 /\ Goto(c, "reserved")
     \/ ~(accepting /\ count < MaxRequests) /\ count' = count /\ Reject(c)
  /\ UNCHANGED <<owner, accepting, slots, sockets, upstreams, closing, calls>>

ReadBody(c) ==
  /\ conn[c].pc = "reserved"
  /\ \E r \in conn[c].req :
       LET fits == conn[c].open /\ Whole(r) /\ ValidatedChat(r.chat)
       IN  \/ fits /\ Goto(c, "checked")
           \/ ~fits /\ Reject(c)
  /\ UNCHANGED <<owner, accepting, count, slots, sockets, upstreams, closing, calls>>

TakeCredential(c) ==
  /\ conn[c].pc = "checked"
  /\ IF accepting THEN Goto(c, "credential") ELSE Reject(c)
  /\ UNCHANGED <<owner, accepting, count, slots, sockets, upstreams, closing, calls>>

RegisterUpstream(c) ==
  /\ conn[c].pc = "credential"
  /\ \/ /\ accepting
        /\ upstreams' = upstreams \cup {c}
        /\ conn' = [conn EXCEPT ![c].pc = "registered", ![c].call = "made"]
     \/ ~accepting /\ upstreams' = upstreams /\ Reject(c)
  /\ UNCHANGED <<owner, accepting, count, slots, sockets, closing, calls>>

Send(c) ==
  /\ conn[c].pc = "registered"
  /\ conn' = [conn EXCEPT ![c].pc = "sent", ![c].call = "open"]
  /\ calls' = calls + 1
  /\ UNCHANGED <<owner, accepting, count, slots, sockets, upstreams, closing>>

\* The answer is relayed, or it is too long, or the connection fails, is shut,
\* or times out: the thread goes back to its client's next request.
Respond(c) ==
  /\ conn[c].pc \in {"registered", "sent"}
  /\ upstreams' = upstreams \ {c}
  /\ Reject(c)
  /\ UNCHANGED <<owner, accepting, count, slots, sockets, closing, calls>>

-----------------------------------------------------------------------------
LoopStep(c) == Acquire(c) \/ Register(c) \/ RegisterLate(c) \/ StartThread(c) \/ StartFails(c)
ThreadStep(c) ==
  \/ Reserve(c) \/ ReadBody(c) \/ TakeCredential(c) \/ RegisterUpstream(c)
  \/ Send(c) \/ Respond(c) \/ EndConnection(c)
OwnerStep ==
  \/ ReadPolicy \/ Enter \/ Revoke \/ Shutdown \/ Close
  \/ \E c \in Conns : CloseUpstream(c) \/ CloseSocket(c)

Next ==
  \/ OwnerStep
  \/ \E c \in Conns : LoopStep(c) \/ ThreadStep(c)
  \/ \E c \in Conns, r \in Requests : Request(c, r)

Spec == Init /\ [][Next]_vars

\* The owner and the loop run; a thread that has something to do does it, since
\* its socket to the endpoint has a timeout.  An open connection may last: its
\* client has a request ready whenever the thread asks for the next.
Fairness ==
  /\ WF_vars(Shutdown \/ Close \/ (\E c \in Conns : CloseUpstream(c) \/ CloseSocket(c)))
  /\ \A c \in Conns :
       /\ WF_vars(Register(c) \/ RegisterLate(c) \/ StartThread(c) \/ StartFails(c))
       /\ WF_vars(Reserve(c)) /\ WF_vars(ReadBody(c)) /\ WF_vars(TakeCredential(c))
       /\ WF_vars(RegisterUpstream(c)) /\ WF_vars(Respond(c)) /\ WF_vars(CutOff(c))

FairSpec == Spec /\ Fairness

-----------------------------------------------------------------------------
\* When the lease is closed nothing of it is left: no thread, no socket, no
\* upstream connection, and every slot is free (BrokerLease.__exit__ discards
\* the credential after it).
NothingOutlivesTheLease ==
  owner = "closed" =>
    /\ \A c \in Conns : conn[c].pc \in {"off", "gone"} /\ conn[c].call = "none"
    /\ slots = 0 /\ sockets = {} /\ upstreams = {} /\ ~accepting

\* The bounds of a lease hold however its connections interleave: every request
\* on its way to the upstream endpoint was counted before (reserve_request), a
\* refused one stays counted, and no more are counted than the lease allows; a
\* slot is taken exactly while a connection holds one, and there are never more
\* of those than the server admits (process_request, process_request_thread).
WithinBudget ==
  /\ calls + Cardinality({c \in Conns : conn[c].pc \in {"reserved", "checked", "credential", "registered"}})
       <= count
  /\ count <= MaxRequests
  /\ slots = Cardinality({c \in Conns : conn[c].pc \in Holding})
  /\ slots <= MaxSlots

\* Closing the lease ends, whatever the guest keeps sending: its threads are
\* joined without a timeout, so the revocation must have cut them off.
LeaseCloses == owner = "revoking" ~> owner = "closed"

=============================================================================
