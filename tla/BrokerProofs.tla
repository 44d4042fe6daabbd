----------------------------- MODULE BrokerProofs -----------------------------
(***************************************************************************)
(* Proofs about Broker, for every number of connections, slots and         *)
(* requests.                                                               *)
(***************************************************************************)
EXTENDS Broker, FiniteSetTheorems, TLAPS

\* The connections whose program counter, as f has it, is in P.
In(f, P) == {c \in Conns : f[c].pc \in P}
\* How much a connection at pc adds to the count of P.
One(pc, P) == IF pc \in P THEN 1 ELSE 0
Paid == {"reserved", "checked", "credential", "registered"}

\* The lock of the lease, the accept loop and the threads agree: only a lease
\* that is up lets a call in, the loop is through before the threads are waited
\* for, and only a thread that is calling has a call.
Shape ==
  /\ accepting <=> owner = "up"
  /\ \A c \in Conns : conn[c].call # "none" => conn[c].pc \in {"registered", "sent"}
  /\ owner \notin {"up", "revoking"} => Loop = {}
  /\ owner \notin {"up", "revoking", "stopping"} => Handled = {}

IInv == TypeOK /\ Shape /\ WithinBudget

-----------------------------------------------------------------------------
\* Counting connections

LEMMA InIsFinite ==
  ASSUME NEW f, NEW P
  PROVE  IsFiniteSet(In(f, P)) /\ Cardinality(In(f, P)) \in Nat
<1>1. In(f, P) \in SUBSET Conns
  BY DEF In
<1> QED
  BY <1>1, BrokerAssumption, FS_Subset, FS_CardinalityType

\* One connection moves: a count changes by that connection.
LEMMA Moved ==
  ASSUME NEW f \in [Conns -> Conn], NEW c \in Conns, NEW v \in Conn, NEW P
  PROVE  Cardinality(In([f EXCEPT ![c] = v], P)) =
           Cardinality(In(f, P)) + One(v.pc, P)
                                 - One(f[c].pc, P)
<1> DEFINE g == [f EXCEPT ![c] = v]
           S == In(f, P)
           T == In(g, P)
<1>1. g[c] = v /\ \A d \in Conns \ {c} : g[d] = f[d]
  OBVIOUS
<1>2. IsFiniteSet(S) /\ Cardinality(S) \in Nat
  BY InIsFinite
<1>3. c \in S <=> f[c].pc \in P
  BY DEF In
<1>4. ASSUME v.pc \in P PROVE Cardinality(T) = Cardinality(S \cup {c})
  <2>1. T = S \cup {c}
    BY <1>1, <1>4 DEF In
  <2> QED
    BY <2>1, Zenon
<1>5. ASSUME v.pc \notin P PROVE Cardinality(T) = Cardinality(S \ {c})
  <2>1. T = S \ {c}
    BY <1>1, <1>5 DEF In
  <2> QED
    BY <2>1, Zenon
<1>6. Cardinality(S \cup {c}) = IF c \in S THEN Cardinality(S) ELSE Cardinality(S) + 1
  BY <1>2, FS_AddElement
<1>7. Cardinality(S \ {c}) = IF c \in S THEN Cardinality(S) - 1 ELSE Cardinality(S)
  BY <1>2, FS_RemoveElement
<1> HIDE DEF S, T, g
<1>8. Cardinality(T) = Cardinality(S) + One(v.pc, P)
                                      - One(f[c].pc, P)
  BY <1>2, <1>3, <1>4, <1>5, <1>6, <1>7 DEF One
<1> QED
  BY <1>8 DEF S, T, g

LEMMA Balance ==
  ASSUME NEW a \in Nat, NEW b \in Nat, NEW x \in Nat, NEW y \in Nat,
         NEW m \in Nat, NEW i \in Nat, NEW j \in Nat, NEW n \in Nat,
         n = m + i - j, a + m <= x, b + i - y <= a + j - x
  PROVE  b + n <= y
  OBVIOUS

\* A connection moves from one place to another, and what is counted about it
\* is written with it.
Accounts(c, v) ==
  /\ count' \in Nat /\ count' <= MaxRequests /\ calls' \in Nat
  /\ slots' = slots + One(v.pc, Holding) - One(conn[c].pc, Holding)
  /\ slots' <= MaxSlots
  /\ v.pc \in Threads \cup {"known"} => sockets' = sockets \cup {c}
  /\ v.pc \notin Threads \cup {"known"} => sockets' = sockets \ {c}
  /\ v.pc \in {"registered", "sent"} => upstreams' = upstreams \cup {c}
  /\ v.pc \notin {"registered", "sent"} => upstreams' = upstreams \ {c}
  /\ v.call # "none" => v.pc \in {"registered", "sent"}
  /\ v.pc \in {"held", "known"} => owner \in {"up", "revoking"}
  /\ v.pc \in Threads => conn[c].pc \in Threads \cup {"known"}
  /\ calls' + One(v.pc, Paid) - count' <= calls + One(conn[c].pc, Paid) - count

LEMMA ConnStep ==
  ASSUME IInv, NEW c \in Conns, NEW v \in Conn,
         conn' = [conn EXCEPT ![c] = v],
         UNCHANGED <<owner, accepting, closing>>,
         Accounts(c, v)
  PROVE  IInv'
<1>1. ASSUME NEW P
      PROVE  Cardinality(In(conn', P)) =
               Cardinality(In(conn, P)) + One(v.pc, P)
                                        - One(conn[c].pc, P)
  <2>1. conn \in [Conns -> Conn]
    BY DEF IInv, TypeOK
  <2>2. Cardinality(In([conn EXCEPT ![c] = v], P)) =
               Cardinality(In(conn, P)) + One(v.pc, P)
                                        - One(conn[c].pc, P)
    BY <2>1, Moved
  <2>3. conn' = [conn EXCEPT ![c] = v]
    OBVIOUS
  <2> QED
    BY <2>2, <2>3, Zenon
<1> USE DEF Accounts
<1> USE DEF IInv
<1>2. conn' \in [Conns -> Conn] /\ conn'[c] = v /\ \A d \in Conns \ {c} : conn'[d] = conn[d]
  BY DEF TypeOK
<1>3. Cardinality(In(conn, Paid)) \in Nat /\ Cardinality(In(conn', Paid)) \in Nat
  BY InIsFinite
<1>4. TypeOK' /\ slots' = Cardinality(In(conn', Holding))
  <2>1. slots' = Cardinality(In(conn', Holding))
    <3>1. slots = Cardinality(In(conn, Holding))
      BY DEF WithinBudget, In
    <3>2. Cardinality(In(conn', Holding)) =
            Cardinality(In(conn, Holding)) + One(v.pc, Holding) - One(conn[c].pc, Holding)
      BY <1>1
    <3>3. slots' = slots + One(v.pc, Holding) - One(conn[c].pc, Holding)
      OBVIOUS
    <3> QED
      BY <3>1, <3>2, <3>3, Zenon
  <2>2. (sockets = Handled \cup {d \in Conns : conn[d].pc = "known"})'
    BY <1>2 DEF TypeOK, Handled
  <2>3. (upstreams = {d \in Conns : conn[d].pc \in {"registered", "sent"}})'
    BY <1>2 DEF TypeOK
  <2>4. slots' \in Nat
    BY <2>1, InIsFinite
  <2> QED
    BY <1>2, <2>1, <2>2, <2>3, <2>4 DEF TypeOK
<1>5. Shape'
  <2>1. owner \notin {"up", "revoking"} => Loop' = {}
    BY <1>2 DEF Shape, Loop
  <2>2. owner \notin {"up", "revoking", "stopping"} => Handled' = {}
    BY <1>2 DEF Shape, Loop, Handled
  <2>3. \A d \in Conns : conn'[d].call # "none" => conn'[d].pc \in {"registered", "sent"}
    BY <1>2 DEF Shape
  <2> QED
    BY <2>1, <2>2, <2>3 DEF Shape
<1>6. WithinBudget'
  <2>1. calls + Cardinality(In(conn, Paid)) <= count
    BY DEF WithinBudget, In, Paid
  <2>2. calls \in Nat /\ count \in Nat /\ count' \in Nat
    BY BrokerAssumption DEF TypeOK
  <2>3. calls' + Cardinality(In(conn', Paid)) <= count'
    <3> DEFINE m == Cardinality(In(conn, Paid))
               n == Cardinality(In(conn', Paid))
               i == One(v.pc, Paid)
               j == One(conn[c].pc, Paid)
    <3>1. n = m + i - j /\ m \in Nat /\ n \in Nat /\ i \in Nat /\ j \in Nat
      BY <1>1, <1>3 DEF One
    <3>2. calls' + i - count' <= calls + j - count /\ calls + m <= count
      BY <2>1
    <3> HIDE DEF m, n, i, j
    <3>3. calls' + n <= count'
      BY <2>2, <3>1, <3>2, Balance
    <3> QED
      BY <3>3 DEF n
  <2> QED
    BY <1>4, <2>3 DEF WithinBudget, In, Paid
<1> QED
  BY <1>4, <1>5, <1>6

-----------------------------------------------------------------------------
\* The inductive invariant, action by action

\* What the invariant says of one connection and of the counters.
LEMMA OfConn ==
  ASSUME IInv, NEW c \in Conns
  PROVE  /\ conn[c] \in Conn
         /\ c \in sockets <=> conn[c].pc \in Threads \cup {"known"}
         /\ c \in upstreams <=> conn[c].pc \in {"registered", "sent"}
         /\ conn[c].call # "none" => conn[c].pc \in {"registered", "sent"}
         /\ conn[c].pc \in {"held", "known"} => owner \in {"up", "revoking"}
         /\ slots \in Nat /\ slots <= MaxSlots /\ MaxSlots \in Nat
         /\ count \in Nat /\ count <= MaxRequests /\ MaxRequests \in Nat /\ calls \in Nat
  BY BrokerAssumption DEF IInv, TypeOK, WithinBudget, Shape, Handled, Loop

LEMMA LoopKeeps ==
  ASSUME IInv, NEW c \in Conns, LoopStep(c)
  PROVE  IInv'
<1> USE DEF Holding, Threads, Pc, Paid, One
<1>0. /\ conn[c] \in Conn
      /\ c \in sockets <=> conn[c].pc \in Threads \cup {"known"}
      /\ c \in upstreams <=> conn[c].pc \in {"registered", "sent"}
      /\ conn[c].call # "none" => conn[c].pc \in {"registered", "sent"}
      /\ conn[c].pc \in {"held", "known"} => owner \in {"up", "revoking"}
      /\ slots \in Nat /\ slots <= MaxSlots /\ MaxSlots \in Nat
      /\ count \in Nat /\ count <= MaxRequests /\ MaxRequests \in Nat /\ calls \in Nat
  BY OfConn
<1> DEFINE To(pc) == [conn[c] EXCEPT !.pc = pc]
<1>1. \A pc \in Pc : To(pc) \in Conn /\ To(pc).pc = pc /\ To(pc).call = conn[c].call
  BY <1>0 DEF Conn
<1>2. Gone \in Conn /\ Gone.pc = "gone" /\ Gone.call = "none"
  BY DEF Gone, Fresh, Conn
<1> HIDE DEF To
<1>3. CASE Acquire(c)
  <2>0. UNCHANGED <<owner, accepting, closing>> /\ conn[c].pc = "off"
    BY <1>3 DEF Acquire
  <2>1. CASE slots < MaxSlots /\ slots' = slots + 1 /\ conn' = [conn EXCEPT ![c].pc = "held"]
    <3>1. conn' = [conn EXCEPT ![c] = To("held")]
      BY <2>1 DEF To
    <3>2. Accounts(c, To("held"))
      BY <1>0, <1>1, <1>3, <2>1 DEF Acquire, Serving, Accounts
    <3> QED
      BY <1>1, <2>0, <3>1, <3>2, ConnStep
  <2>2. CASE slots' = slots /\ conn' = [conn EXCEPT ![c] = Gone]
    <3>1. Accounts(c, Gone)
      BY <1>0, <1>2, <1>3, <2>2 DEF Acquire, Accounts
    <3> QED
      BY <1>2, <2>0, <2>2, <3>1, ConnStep
  <2> QED
    BY <1>3, <2>1, <2>2 DEF Acquire
<1>4. CASE Register(c)
  <2>1. conn' = [conn EXCEPT ![c] = To("known")] /\ UNCHANGED <<owner, accepting, closing>>
    BY <1>4 DEF Register, To
  <2>2. Accounts(c, To("known"))
    BY <1>0, <1>1, <1>4 DEF Register, Accounts
  <2> QED
    BY <1>1, <2>1, <2>2, ConnStep
<1>5. CASE RegisterLate(c)
  <2>1. Accounts(c, Gone)
    BY <1>0, <1>2, <1>5 DEF RegisterLate, Accounts
  <2> QED
    BY <1>2, <1>5, <2>1, ConnStep DEF RegisterLate
<1>6. CASE StartThread(c)
  <2>1. conn' = [conn EXCEPT ![c] = To("idle")] /\ UNCHANGED <<owner, accepting, closing>>
    BY <1>6 DEF StartThread, To
  <2>2. Accounts(c, To("idle"))
    BY <1>0, <1>1, <1>6 DEF StartThread, Accounts
  <2> QED
    BY <1>1, <2>1, <2>2, ConnStep
<1>7. CASE StartFails(c)
  <2>1. Accounts(c, Gone)
    BY <1>0, <1>2, <1>7 DEF StartFails, Leave, Accounts
  <2> QED
    BY <1>2, <1>7, <2>1, ConnStep DEF StartFails, Leave
<1> QED
  BY <1>3, <1>4, <1>5, <1>6, <1>7 DEF LoopStep

LEMMA ThreadKeeps ==
  ASSUME IInv, NEW c \in Conns,
         ThreadStep(c) \/ \E r \in Requests : Request(c, r)
  PROVE  IInv'
<1> USE DEF Holding, Threads, Pc, Paid, One
<1>0. /\ conn[c] \in Conn
      /\ c \in sockets <=> conn[c].pc \in Threads \cup {"known"}
      /\ c \in upstreams <=> conn[c].pc \in {"registered", "sent"}
      /\ conn[c].call # "none" => conn[c].pc \in {"registered", "sent"}
      /\ conn[c].pc \in {"held", "known"} => owner \in {"up", "revoking"}
      /\ slots \in Nat /\ slots <= MaxSlots /\ MaxSlots \in Nat
      /\ count \in Nat /\ count <= MaxRequests /\ MaxRequests \in Nat /\ calls \in Nat
  BY OfConn
<1> DEFINE To(pc) == [conn[c] EXCEPT !.pc = pc]
           Idle == [conn[c] EXCEPT !.pc = "idle", !.req = {}, !.call = "none"]
           With(pc, call) == [conn[c] EXCEPT !.pc = pc, !.call = call]
           Asks(r) == [conn[c] EXCEPT !.pc = "authorized", !.req = {r}]
<1>1. \A pc \in Pc : To(pc) \in Conn /\ To(pc).pc = pc /\ To(pc).call = conn[c].call
  BY <1>0 DEF Conn
<1>2. /\ Gone \in Conn /\ Gone.pc = "gone" /\ Gone.call = "none"
      /\ Idle \in Conn /\ Idle.pc = "idle" /\ Idle.call = "none"
  BY <1>0 DEF Gone, Fresh, Conn
<1>3. \A pc \in Pc, call \in {"made", "open"} :
        With(pc, call) \in Conn /\ With(pc, call).pc = pc /\ With(pc, call).call = call
  <2> SUFFICES ASSUME NEW pc \in Pc, NEW call \in {"made", "open"}
               PROVE  With(pc, call) \in Conn /\ With(pc, call).pc = pc
                        /\ With(pc, call).call = call
    OBVIOUS
  <2>1. conn[c] \in Conn
    BY <1>0
  <2> QED
    BY <2>1 DEF Conn
<1>4. \A r \in Requests :
        Asks(r) \in Conn /\ Asks(r).pc = "authorized" /\ Asks(r).call = conn[c].call
  BY <1>0 DEF Conn
<1>5. Reject(c) => conn' = [conn EXCEPT ![c] = Idle]
  BY DEF Reject
<1>6. \A pc \in Pc : Goto(c, pc) => conn' = [conn EXCEPT ![c] = To(pc)]
  BY DEF Goto
<1> HIDE DEF To, Idle, With, Asks
<1>7. CASE Reserve(c)
  <2>0. UNCHANGED <<owner, accepting, closing>>
    BY <1>7 DEF Reserve
  <2>1. CASE count < MaxRequests /\ count' = count + 1 /\ Goto(c, "reserved")
    <3>1. Accounts(c, To("reserved"))
      BY <1>0, <1>1, <1>7, <2>1 DEF Reserve, Accounts
    <3> QED
      BY <1>1, <1>6, <2>0, <2>1, <3>1, ConnStep
  <2>2. CASE count' = count /\ Reject(c)
    <3>1. Accounts(c, Idle)
      BY <1>0, <1>2, <1>7, <2>2 DEF Reserve, Accounts
    <3> QED
      BY <1>2, <1>5, <2>0, <2>2, <3>1, ConnStep
  <2> QED
    BY <1>7, <2>1, <2>2 DEF Reserve
<1>8. CASE ReadBody(c) \/ TakeCredential(c)
  <2>0. /\ UNCHANGED <<owner, accepting, count, slots, sockets, upstreams, closing, calls>>
        /\ conn[c].pc \in {"reserved", "checked"}
    BY <1>8 DEF ReadBody, TakeCredential
  <2>1. ASSUME NEW pc \in {"checked", "credential"}, Goto(c, pc)
        PROVE  IInv'
    <3>1. Accounts(c, To(pc))
      BY <1>0, <1>1, <2>0 DEF Accounts
    <3> QED
      BY <1>1, <1>6, <2>0, <2>1, <3>1, ConnStep
  <2>2. CASE Reject(c)
    <3>1. Accounts(c, Idle)
      BY <1>0, <1>2, <2>0 DEF Accounts
    <3> QED
      BY <1>2, <1>5, <2>0, <2>2, <3>1, ConnStep
  <2> QED
    BY <1>8, <2>1, <2>2 DEF ReadBody, TakeCredential
<1>9. CASE RegisterUpstream(c)
  <2>0. UNCHANGED <<owner, accepting, closing>>
    BY <1>9 DEF RegisterUpstream
  <2>1. CASE /\ upstreams' = upstreams \cup {c}
             /\ conn' = [conn EXCEPT ![c].pc = "registered", ![c].call = "made"]
    <3>1. Accounts(c, With("registered", "made"))
      BY <1>0, <1>3, <1>9, <2>1 DEF RegisterUpstream, Accounts
    <3>2. conn' = [conn EXCEPT ![c] = With("registered", "made")]
      BY <2>1 DEF With
    <3> QED
      BY <1>3, <2>0, <3>1, <3>2, ConnStep
  <2>2. CASE upstreams' = upstreams /\ Reject(c)
    <3>1. Accounts(c, Idle)
      BY <1>0, <1>2, <1>9, <2>2 DEF RegisterUpstream, Accounts
    <3> QED
      BY <1>2, <1>5, <2>0, <2>2, <3>1, ConnStep
  <2> QED
    BY <1>9, <2>1, <2>2 DEF RegisterUpstream
<1>10. CASE Send(c)
  <2>1. Accounts(c, With("sent", "open"))
    BY <1>0, <1>3, <1>10 DEF Send, Accounts
  <2>2. conn' = [conn EXCEPT ![c] = With("sent", "open")] /\ UNCHANGED <<owner, accepting, closing>>
    BY <1>10 DEF Send, With
  <2> QED
    BY <1>3, <2>1, <2>2, ConnStep
<1>11. CASE Respond(c)
  <2>1. Accounts(c, Idle)
    BY <1>0, <1>2, <1>11 DEF Respond, Accounts
  <2> QED
    BY <1>2, <1>5, <1>11, <2>1, ConnStep DEF Respond
<1>12. CASE EndConnection(c)
  <2>1. Accounts(c, Gone)
    BY <1>0, <1>2, <1>12 DEF EndConnection, Leave, Accounts
  <2> QED
    BY <1>2, <1>12, <2>1, ConnStep DEF EndConnection, Leave
<1>13. ASSUME NEW r \in Requests, Request(c, r)
       PROVE  IInv'
  <2>1. Accounts(c, Asks(r))
    BY <1>0, <1>4, <1>13 DEF Request, Accounts
  <2>2. conn' = [conn EXCEPT ![c] = Asks(r)] /\ UNCHANGED <<owner, accepting, closing>>
    BY <1>13 DEF Request, Asks
  <2> QED
    BY <1>4, <2>1, <2>2, ConnStep
<1> QED
  BY <1>7, <1>8, <1>9, <1>10, <1>11, <1>12, <1>13 DEF ThreadStep

\* The owner closes sockets and waits; it moves no connection.
LEMMA OwnerKeeps ==
  ASSUME IInv, OwnerStep
  PROVE  IInv'
<1> USE DEF IInv
<1>1. CASE ReadPolicy \/ Enter \/ Revoke \/ Shutdown \/ Close
  <2>1. UNCHANGED <<count, slots, sockets, upstreams, conn, calls>>
    BY <1>1 DEF ReadPolicy, Enter, Revoke, Shutdown, Close
  <2>2. owner' \in Owner /\ accepting' \in BOOLEAN
    BY <1>1 DEF ReadPolicy, Enter, Revoke, Shutdown, Close, TypeOK, Owner
  <2>3. closing' \in [upstreams : SUBSET Conns, sockets : SUBSET Conns]
    BY <1>1 DEF ReadPolicy, Enter, Revoke, Shutdown, Close, TypeOK, Handled
  <2>4. TypeOK'
    BY <2>1, <2>2, <2>3 DEF TypeOK, Handled
  <2>5. WithinBudget'
    BY <2>1 DEF WithinBudget
  <2>6. Shape'
    BY <1>1, <2>1 DEF ReadPolicy, Enter, Revoke, Shutdown, Close, Shape, TypeOK, Loop, Handled
  <2> QED
    BY <2>4, <2>5, <2>6
<1>2. ASSUME NEW c \in Conns, CloseUpstream(c) \/ CloseSocket(c)
      PROVE  IInv'
  <2>1. UNCHANGED <<owner, accepting, count, slots, sockets, upstreams, calls>>
    BY <1>2 DEF CloseUpstream, CloseSocket
  <2>2. closing' \in [upstreams : SUBSET Conns, sockets : SUBSET Conns]
    BY <1>2 DEF CloseUpstream, CloseSocket, TypeOK
  <2>3. conn \in [Conns -> Conn]
    BY DEF TypeOK
  <2>4. /\ conn' \in [Conns -> Conn]
        /\ \A d \in Conns : /\ conn'[d].pc = conn[d].pc
                            /\ conn'[d].call # "none" => conn[d].call # "none"
    <3>1. CASE CloseUpstream(c)
      <4>1. [conn[c] EXCEPT !.call = IF @ = "open" THEN "shut" ELSE @] \in Conn
        BY <2>3 DEF Conn
      <4> QED
        BY <2>3, <3>1, <4>1 DEF CloseUpstream, Conn
    <3>2. CASE CloseSocket(c)
      <4>1. [conn[c] EXCEPT !.open = FALSE] \in Conn
        BY <2>3 DEF Conn
      <4> QED
        BY <2>3, <3>2, <4>1 DEF CloseSocket, Conn
    <3> QED
      BY <1>2, <3>1, <3>2
  <2>5. \A P : In(conn', P) = In(conn, P)
    BY <2>4 DEF In
  <2>6. TypeOK'
    <3>3. /\ sockets' = Handled' \cup {d \in Conns : conn'[d].pc = "known"}
          /\ upstreams' = {d \in Conns : conn'[d].pc \in {"registered", "sent"}}
      BY <2>1, <2>4 DEF TypeOK, Handled
    <3> QED
      BY <2>1, <2>2, <2>4, <3>3 DEF TypeOK
  <2>7. Shape'
    BY <2>1, <2>4 DEF Shape, Loop, Handled
  <2>8. WithinBudget'
    <3>1. calls + Cardinality(In(conn, Paid)) <= count
      BY DEF WithinBudget, In, Paid
    <3>2. Cardinality(In(conn', Paid)) = Cardinality(In(conn, Paid))
      BY <2>5, Zenon
    <3>3. slots = Cardinality(In(conn, Holding))
      BY DEF WithinBudget, In
    <3>4. slots' = Cardinality(In(conn', Holding))
      BY <2>1, <2>5, <3>3, Zenon
    <3> QED
      BY <2>1, <3>1, <3>2, <3>4 DEF WithinBudget, In, Paid
  <2> QED
    BY <2>6, <2>7, <2>8
<1> QED
  BY <1>1, <1>2 DEF OwnerStep

LEMMA IInvInduction == IInv /\ [Next]_vars => IInv'
<1> SUFFICES ASSUME IInv, [Next]_vars PROVE IInv'
  OBVIOUS
<1>1. CASE UNCHANGED vars
  BY <1>1 DEF vars, IInv, TypeOK, Shape, WithinBudget, Handled, Loop
<1> QED
  BY <1>1, LoopKeeps, ThreadKeeps, OwnerKeeps DEF Next

\* The inductive invariant holds in every reachable state.
THEOREM BrokerInvariant == Spec => []IInv
<1>1. Init => IInv
  <2> SUFFICES ASSUME Init PROVE IInv
    OBVIOUS
  <2>1. \A c \in Conns : conn[c] \in Conn /\ conn[c].pc = "off" /\ conn[c].call = "none"
    BY DEF Init, Fresh, Conn, Pc
  <2>2. {c \in Conns : conn[c].pc \in Holding} = {} /\ In(conn, Paid) = {}
    BY <2>1 DEF Holding, Pc, In, Paid
  <2>3. TypeOK
    <3>2. /\ sockets = Handled \cup {c \in Conns : conn[c].pc = "known"}
          /\ upstreams = {c \in Conns : conn[c].pc \in {"registered", "sent"}}
      BY <2>1 DEF Init, Handled, Threads, Holding, Pc
    <3>3. conn \in [Conns -> Conn]
      BY <2>1 DEF Init
    <3>4. owner \in Owner /\ accepting \in BOOLEAN
      BY Zenon DEF Init, Owner
    <3>5. count \in Nat /\ calls \in Nat /\ slots \in Nat
      <4>1. count = 0 /\ calls = 0 /\ slots = 0
        BY Zenon DEF Init
      <4> QED
        BY <4>1
    <3>6. closing \in [upstreams : SUBSET Conns, sockets : SUBSET Conns]
      BY DEF Init
    <3> QED
      BY <3>2, <3>3, <3>4, <3>5, <3>6, Zenon DEF TypeOK
  <2>4. Shape
    BY <2>1 DEF Init, Shape, Loop, Handled, Threads, Holding, Pc
  <2>5. WithinBudget
    <3>1. Cardinality(In(conn, Paid)) = 0
      BY <2>2, FS_EmptySet, Zenon
    <3>2. slots = Cardinality({c \in Conns : conn[c].pc \in Holding})
      BY <2>2, FS_EmptySet, Zenon DEF Init
    <3>3. count = 0 /\ calls = 0 /\ slots = 0 /\ MaxRequests \in Nat /\ MaxSlots \in Nat
      BY BrokerAssumption, Zenon DEF Init
    <3> QED
      BY <3>1, <3>2, <3>3 DEF WithinBudget, In, Paid
  <2> QED
    BY <2>3, <2>4, <2>5 DEF IInv
<1> QED
  BY <1>1, IInvInduction, PTL DEF Spec

\* However many connections share it, a lease never sends more upstream than was
\* counted, counts no more than MAX_BROKER_REQUESTS, and has exactly as many
\* slots taken as connections hold one, never more than it has.
THEOREM BudgetIsKept == Spec => []WithinBudget
<1>1. IInv => WithinBudget
  BY DEF IInv
<1> QED
  BY <1>1, BrokerInvariant, PTL

\* A lease that is closed has left nothing behind: no thread, no socket, no
\* upstream connection, no slot taken.
THEOREM NothingIsLeft == Spec => []NothingOutlivesTheLease
<1>1. IInv => NothingOutlivesTheLease
  <2> SUFFICES ASSUME IInv, owner = "closed" PROVE NothingOutlivesTheLease
    BY DEF NothingOutlivesTheLease
  <2>1. Loop = {} /\ Handled = {} /\ ~accepting
    BY DEF IInv, Shape
  <2>2. \A c \in Conns : conn[c] \in Conn /\ conn[c].pc \in {"off", "gone"}
    BY <2>1 DEF Loop, Handled, Threads, Holding, Pc, IInv, TypeOK, Conn
  <2>3. \A c \in Conns : conn[c].call = "none"
    BY <2>2 DEF IInv, Shape
  <2>4. {c \in Conns : conn[c].pc \in Holding} = {}
    BY <2>2 DEF Holding
  <2>5. slots = 0
    BY <2>4, FS_EmptySet DEF IInv, WithinBudget
  <2>6. sockets = {} /\ upstreams = {}
    BY <2>1, <2>2 DEF IInv, TypeOK
  <2> QED
    BY <2>1, <2>2, <2>3, <2>5, <2>6 DEF NothingOutlivesTheLease
<1> QED
  BY <1>1, BrokerInvariant, PTL

=============================================================================
