---------------------------- MODULE DispatchProofs ----------------------------
(***************************************************************************)
(* Proofs about Dispatch: for every registry and every edit of it, every   *)
(* binding that may be signed, every number of clients and of runners.     *)
(***************************************************************************)
EXTENDS Dispatch, TLAPS

\* A plan that was signed came out of the catalog at some time.
Genuine(p) ==
  /\ p.bindings \in Bindings
  /\ \E w \in DOMAIN Worlds : p.resolution \in ResolveOf[w][p.bindings]

\* What a client has of a job is what the job is, once it is closed.
Truthful(r) ==
  /\ r.job \in Jobs
  /\ r.state \in FINAL =>
       /\ task[r.job].state = r.state
       /\ r.artifact => task[r.job].artifact

Asking == {"send", "get", "follow", "cancel", "cancelget"}
Telling == {"bind", "stage", "fill", "meta", "metafill"}

\* A client that has begun has its order; one that is over has nothing.
Ordered(c) ==
  /\ client[c].pc \in Pc
  /\ client[c].pc \in {"idle", "ended"} => client[c] = [NoClient EXCEPT !.pc = client[c].pc]
  /\ client[c].pc \notin {"idle", "ended"} => client[c].order # {} /\ client[c].order \subseteq Orders

\* One plan is replayed at most, before any target is looked up.
Planned(c) ==
  /\ client[c].pc \in {"replay", "load", "preflight"} => client[c].signed = {}
  /\ client[c].pc \in {"replay", "verify", "load"} => client[c].desc = {}
  /\ \A p \in client[c].signed : Genuine(p)
  /\ \A p, q \in client[c].signed : p = q
  /\ client[c].signed # {} /\ client[c].desc # {} =>
       client[c].desc = UNION {Snapshot(d) : d \in SignedTarget(c)}

\* A request goes to a runner there is; a cancellation that was answered is over.
Asks(c) ==
  /\ client[c].pc \in Asking => Job(c) \in Jobs /\ client[c].desc # {}
  /\ client[c].pc \in {"preflight", "card"} => client[c].desc # {}
  /\ client[c].pc = "cancelget" =>
       /\ owner[Job(c)] # {} /\ client[c].reply # {}
       /\ \A r \in client[c].reply : r.state = "CANCELED" => task[Job(c)].state = "CANCELED"

\* A record is of the job, and past the binding of a job that is closed.
Tells(c) ==
  /\ \A r \in client[c].rec : Truthful(r)
  /\ client[c].pc \in Telling => client[c].rec # {}
  /\ client[c].pc \in Telling \ {"bind"} => Rec(c).state \in FINAL

\* The file a client is writing, or has written, is its own.
Stages(c) ==
  /\ client[c].pc = "fill" =>
       staged[FileOf(Envelope(c))] = [st |-> "torn", job |-> {Rec(c).job}]
  /\ client[c].pc \in {"meta", "metafill"} /\ Rec(c).artifact =>
       staged[FileOf(Envelope(c))] = [st |-> "whole", job |-> {Rec(c).job}]

ClientOK(c) == Ordered(c) /\ Planned(c) /\ Asks(c) /\ Tells(c) /\ Stages(c)

PlanOK == (\A p \in plan : Genuine(p)) /\ (\A p, q \in plan : p = q)

\* No two clients write one file.
Apart ==
  \A c, d \in Clients :
    client[c].pc = "fill" /\ client[d].pc = "fill" /\ c # d => FileOf(Envelope(c)) # FileOf(Envelope(d))

MetaOK ==
  \A t \in DOMAIN meta :
    meta[t].job \subseteq Jobs /\ \A e \in meta[t].envelope : FileOf(e) \in DOMAIN staged

Shape ==
  /\ DOMAIN client = Clients
  /\ DOMAIN task = Jobs /\ DOMAIN ran = Jobs /\ DOMAIN owner = Jobs
  /\ \A j \in Jobs : DOMAIN task[j] = {"state", "reason", "artifact"}
  /\ \A c \in Clients : DOMAIN client[c] = {"pc", "order", "signed", "desc", "reply", "rec"}
  /\ DOMAIN staged = {FileOf(e) : e \in Envelopes}
  /\ DOMAIN meta = {e.task : e \in Envelopes}
  /\ \A f \in DOMAIN staged : DOMAIN staged[f] = {"st", "job"}

IInv ==
  /\ TypeOK /\ Shape /\ PlanOK /\ Apart /\ MetaOK /\ MetaIsTrue
  /\ \A c \in Clients : ClientOK(c)


-----------------------------------------------------------------------------
\* The catalog

\* Candidates can be ordered.
LEMMA CandidateNumbers ==
  ASSUME NEW w \in DOMAIN Worlds, NEW c \in Candidates(Worlds[w])
  PROVE  c.prio \in Int /\ c.target[2] \in Int
<1>1. /\ \A i \in Worlds[w].integrations : i.id \in Int /\ i.prio \in Int
      /\ \A t \in Worlds[w].targets : t.id \in Int /\ t.prio \subseteq Int
      /\ \A a \in Worlds[w].agents : a.id \in Int /\ a.prio \in Int
  BY WorldAssumption
<1> DEFINE W == Worlds[w]
<1>2. ASSUME NEW i \in W.integrations, c \in LocalCandidates(W, i)
      PROVE  c.prio \in Int /\ c.target[2] \in Int
  <2>1. PICK l \in i.cli, r \in ROLES : c = LocalCandidate(W, i, l, r)
    BY <1>2 DEF LocalCandidates
  <2>2. c.target = <<"local-cli", i.id, r>> /\ c.prio = i.prio
    BY <2>1 DEF LocalCandidate, Candidate
  <2> QED
    BY <1>1, <2>2
<1>3. ASSUME NEW i \in W.integrations, c \in BridgeCandidates(W, i)
      PROVE  c.prio \in Int /\ c.target[2] \in Int
  <2> DEFINE P == {q \in Provider(W) : \E b \in i.bridge : Supports(q, i.tool, W.bridges[b].protocol)}
             G(p, b) == {BridgeCandidate(W, i, p, b, l, r) : l \in i.cli, r \in W.bridges[b].personas}
  <2>1. PICK p \in P, b \in i.bridge : c \in G(p, b)
    <3>1. c \in UNION {G(p, b) : p \in P, b \in i.bridge}
      BY <1>3 DEF BridgeCandidates
    <3> HIDE DEF G
    <3> QED
      BY <3>1
  <2>2. PICK l \in i.cli, r \in W.bridges[b].personas : c = BridgeCandidate(W, i, p, b, l, r)
    BY <2>1
  <2>3. c.target = <<"subagent", i.id, r>> /\ c.prio = i.prio
    BY <2>2 DEF BridgeCandidate, Candidate
  <2> QED
    BY <1>1, <2>3
<1>4. ASSUME NEW t \in W.targets, c \in RemoteCandidates(W, t)
      PROVE  c.prio \in Int /\ c.target[2] \in Int
  <2> DEFINE G(i) == {RemoteCandidate(W, t, i, l, r) : l \in i.cli, r \in NON_GENERATOR_ROLES}
  <2>1. PICK i \in W.integrations : c \in G(i)
    <3>1. c \in UNION {G(i) : i \in {j \in W.integrations : j.id = t.integration}}
      BY <1>4 DEF RemoteCandidates
    <3> HIDE DEF G
    <3> QED
      BY <3>1
  <2>2. PICK l \in i.cli, r \in NON_GENERATOR_ROLES : c = RemoteCandidate(W, t, i, l, r)
    BY <2>1
  <2>3. c.target = <<"a2a", t.id, r>> /\ c.prio = OrElse(t.prio, i.prio)
    BY <2>2 DEF RemoteCandidate, Candidate
  <2>4. OrElse(t.prio, i.prio) \in Int
    BY <1>1 DEF OrElse, The
  <2> QED
    BY <1>1, <2>3, <2>4
<1>5. ASSUME NEW a \in W.agents, c = LegacyCandidate(W, a)
      PROVE  c.prio \in Int /\ c.target[2] \in Int
  <2>1. c.target = <<"agent", a.id>> /\ c.prio = a.prio
    BY <1>5 DEF LegacyCandidate, Candidate
  <2> QED
    BY <1>1, <2>1
<1>6. \/ \E i \in W.integrations : c \in LocalCandidates(W, i) \cup BridgeCandidates(W, i)
      \/ \E t \in W.targets : c \in RemoteCandidates(W, t)
      \/ \E a \in W.agents : c = LegacyCandidate(W, a)
  <2>1. \/ c \in IntegrationCandidates(W)
        \/ c \in {LegacyCandidate(W, a) : a \in {b \in W.agents : KeptRoles(b) # {}}}
    BY DEF Candidates, CatalogOk
  <2>2. CASE c \in IntegrationCandidates(W)
    BY <2>2 DEF IntegrationCandidates
  <2>3. CASE c \in {LegacyCandidate(W, a) : a \in {b \in W.agents : KeptRoles(b) # {}}}
    BY <2>3
  <2> QED
    BY <2>1, <2>2, <2>3
<1> QED
  BY <1>2, <1>3, <1>4, <1>5, <1>6

\* Priority and id decide among any of them.
LEMMA FirstIsOne ==
  ASSUME NEW w \in DOMAIN Worlds, NEW P \in SUBSET Candidates(Worlds[w]),
         NEW c \in First(P), NEW d \in First(P)
  PROVE  c = d
<1>1. c.prio \in Int /\ c.target[2] \in Int /\ d.prio \in Int /\ d.target[2] \in Int
  BY CandidateNumbers DEF First
<1>2. c # d => Before(c, d) /\ Before(d, c)
  BY DEF First
<1> QED
  BY <1>1, <1>2 DEF Before

\* A resolution has one target for a role, and its evaluator is of another family
\* than its generator.
LEMMA ResolvesToOne ==
  ASSUME NEW w \in DOMAIN Worlds, NEW b \in Bindings, NEW r \in ResolveOf[w][b]
  PROVE  /\ \A role \in ROLES : \A d, e \in r[role] : d = e
         /\ \A e \in r["evaluator"], g \in r["generator"] : e.family # g.family
<1> DEFINE W == Worlds[w]
           planners == UNION {Pool(W, "planner", x) : x \in b.planner}
<1>1. r \in Resolve(W, b)
  BY DEF ResolveOf
<1>2. PICK g :
        r = [planner   |-> {Semantics(p) : p \in First(planners)},
             generator |-> {Semantics(g)},
             evaluator |-> {Semantics(e) : e \in First(Independent(W, g, b.evaluator))}]
  BY <1>1 DEF Resolve
<1>3. planners \subseteq Candidates(W) /\ Independent(W, g, b.evaluator) \subseteq Candidates(W)
  BY DEF Pool, Independent
<1>4. \A p, q \in First(planners) : p = q
  BY <1>3, FirstIsOne
<1>5. \A p, q \in First(Independent(W, g, b.evaluator)) : p = q
  BY <1>3, FirstIsOne
<1>6. \A e \in First(Independent(W, g, b.evaluator)) : Semantics(e).family # Semantics(g).family
  <2>1. ASSUME NEW e \in First(Independent(W, g, b.evaluator)) PROVE e.family # g.family
    BY DEF First, Independent
  <2> QED
    BY <2>1 DEF Semantics
<1>7. \A d, e \in r["planner"] : d = e
  BY <1>2, <1>4
<1>8. \A d, e \in r["evaluator"] : d = e
  BY <1>2, <1>5
<1>9. \A d, e \in r["generator"] : d = e
  BY <1>2
<1>10. \A e \in r["evaluator"], f \in r["generator"] : e.family # f.family
  BY <1>2, <1>6
<1>11. \A role \in ROLES : role \in {"planner", "generator", "evaluator"}
  BY DEF ROLES
<1> QED
  BY <1>7, <1>8, <1>9, <1>10, <1>11

-----------------------------------------------------------------------------
\* Steps

Fields == {"pc", "order", "signed", "desc", "reply", "rec"}

\* Only client c has moved.
Moves(c) ==
  /\ DOMAIN client' = Clients /\ DOMAIN client'[c] = Fields
  /\ \A d \in Clients \ {c} : client'[d] = client[d]

\* Client c has gone on and knows what it knew.
Passes(c, pc) ==
  /\ Moves(c) /\ client'[c].pc = pc
  /\ client'[c].order = client[c].order /\ client'[c].signed = client[c].signed
  /\ client'[c].desc = client[c].desc /\ client'[c].reply = client[c].reply
  /\ client'[c].rec = client[c].rec

\* What becomes of the jobs: one that is closed stays what it is.
RemoteKeeps ==
  /\ DOMAIN task' = Jobs /\ DOMAIN ran' = Jobs /\ DOMAIN owner' = Jobs
  /\ \A j \in Jobs :
       /\ DOMAIN task'[j] = {"state", "reason", "artifact"}
       /\ task'[j].state \in FINAL \cup Remote!ACTIVE \cup {"none"}
       /\ ran'[j] \in 0..1
       /\ task'[j].state = "none" <=> owner'[j] = {}
       /\ task[j].state \in FINAL => task'[j] = task[j]
       /\ owner[j] # {} => owner'[j] # {}

\* What becomes of the files of results: one that is whole stays what it is.
StagedKeeps ==
  /\ DOMAIN staged' = DOMAIN staged
  /\ \A f \in DOMAIN staged :
       /\ DOMAIN staged'[f] = {"st", "job"}
       /\ staged'[f].st \in {"none", "torn", "whole"}
       /\ staged[f].st = "whole" => staged'[f] = staged[f]

MetaKeeps ==
  /\ DOMAIN meta' = DOMAIN meta
  /\ \A t \in DOMAIN meta :
       /\ meta'[t].st \in {"none", "torn", "whole"}
       /\ meta'[t].outcome \in {"none", "RETURNED", "TIMEOUT", "CANCELED", "FAILED"}

\* The one element of a set that has one is in it.
LEMMA TheIn == ASSUME NEW S, S # {} PROVE The(S) \in S
BY DEF The

LEMMA TheOnly == ASSUME NEW x PROVE The({x}) = x
BY DEF The

LEMMA Unmoved ==
  ASSUME IInv, UNCHANGED remote PROVE RemoteKeeps
BY DEF IInv, Shape, TypeOK, remote, RemoteKeeps

\* The order of a client that has begun.
LEMMA HasOrder ==
  ASSUME IInv, NEW c \in Clients, client[c].pc \notin {"idle", "ended"}
  PROVE  /\ Order(c) \in Orders /\ Envelope(c) \in Envelopes
         /\ FileOf(Envelope(c)) \in DOMAIN staged
         /\ Envelope(c).task \in DOMAIN meta
         /\ Envelope(c).role \in ROLES
<1>1. client[c].order # {} /\ client[c].order \subseteq Orders
  BY DEF IInv, ClientOK, Ordered
<1>2. Order(c) \in Orders
  BY <1>1, TheIn DEF Order
<1>3. Envelope(c) \in Envelopes
  BY <1>2 DEF Envelope, Envelopes
<1> QED
  BY <1>2, <1>3, DispatchAssumption DEF IInv, Shape, Envelope, Envelopes

\* A client that stands still is right about what has moved.
LEMMA OthersKeep ==
  ASSUME IInv, NEW d \in Clients, client'[d] = client[d], RemoteKeeps, StagedKeeps,
         client[d].pc = "fill" =>
           staged'[FileOf(Envelope(d))] = staged[FileOf(Envelope(d))]
  PROVE  ClientOK(d)'
<1> USE DEF IInv, ClientOK
<1>1. Order(d)' = Order(d) /\ Desc(d)' = Desc(d) /\ Rec(d)' = Rec(d)
  BY DEF Order, Desc, Rec
<1>2. Envelope(d)' = Envelope(d)
  BY <1>1 DEF Envelope
<1>3. Job(d)' = Job(d)
  BY <1>1, <1>2 DEF Job
<1>4. Ordered(d)'
  BY DEF Ordered
<1>5. Planned(d)'
  <2>1. SignedTarget(d)' = SignedTarget(d)
    BY <1>2 DEF SignedTarget
  <2> QED
    BY <2>1 DEF Planned, Genuine, Snapshot
<1>6. Asks(d)'
  <2>1. /\ client'[d].pc \in Asking => Job(d) \in Jobs /\ client'[d].desc # {}
        /\ client'[d].pc \in {"preflight", "card"} => client'[d].desc # {}
    BY DEF Asks
  <2>2. ASSUME client'[d].pc = "cancelget"
        PROVE  /\ owner'[Job(d)] # {} /\ client'[d].reply # {}
               /\ \A r \in client'[d].reply : r.state = "CANCELED" => task'[Job(d)].state = "CANCELED"
    <3>1. Job(d) \in Jobs /\ owner[Job(d)] # {}
      BY <2>2 DEF Asks, Asking
    <3>2. task[Job(d)].state = "CANCELED" => task'[Job(d)].state = "CANCELED"
      BY <3>1 DEF RemoteKeeps, FINAL, Remote!FINAL
    <3> QED
      BY <2>2, <3>1, <3>2 DEF Asks, RemoteKeeps
  <2> QED
    BY <1>3, <2>1, <2>2 DEF Asks
<1>7. Tells(d)'
  <2>1. ASSUME NEW r \in client'[d].rec PROVE Truthful(r)'
    <3>1. Truthful(r)
      BY DEF Tells
    <3> QED
      BY <3>1 DEF Truthful, RemoteKeeps
  <2> QED
    BY <1>1, <2>1 DEF Tells
<1>8. Stages(d)'
  <2>1. ASSUME client[d].pc \in {"meta", "metafill"}, Rec(d).artifact
        PROVE  staged'[FileOf(Envelope(d))] = [st |-> "whole", job |-> {Rec(d).job}]
    <3>1. staged[FileOf(Envelope(d))] = [st |-> "whole", job |-> {Rec(d).job}]
      BY <2>1 DEF Stages
    <3>2. FileOf(Envelope(d)) \in DOMAIN staged
      BY <2>1, HasOrder
    <3> QED
      BY <3>1, <3>2 DEF StagedKeeps
  <2>2. client[d].pc = "fill" => staged'[FileOf(Envelope(d))] = [st |-> "torn", job |-> {Rec(d).job}]
    BY DEF Stages
  <2>3. FileOf(Envelope(d))' = FileOf(Envelope(d))
    BY <1>2
  <2> QED
    BY <1>1, <2>1, <2>2, <2>3 DEF Stages
<1> QED
  BY <1>4, <1>5, <1>6, <1>7, <1>8

\* The parts of the invariant that say what a client's place implies are all
\* there is to its type.
LEMMA ClientTypes ==
  ASSUME IInv, Shape',
         world' \in DOMAIN Worlds, edits' \in 0..MaxEdits, PlanOK',
         RemoteKeeps, StagedKeeps, MetaKeeps, \A d \in Clients : ClientOK(d)'
  PROVE  TypeOK'
<1>1. ASSUME NEW d \in Clients
      PROVE  /\ client'[d].pc \in Pc
             /\ client'[d].pc \in {"card", "send", "get", "follow", "cancel", "cancelget"} => client'[d].desc # {}
             /\ client'[d].pc \in {"bind", "stage", "fill", "meta", "metafill"} => client'[d].rec # {}
  BY DEF ClientOK, Ordered, Asks, Asking, Tells, Telling
<1>2. \A p \in plan' : p.bindings \in Bindings
  BY DEF PlanOK, Genuine
<1>3. \A j \in Jobs : task'[j].state \in FINAL \cup Remote!ACTIVE \cup {"none"} /\ ran'[j] \in 0..1
  BY DEF RemoteKeeps
<1>4. \A j \in Jobs : task'[j].state = "none" <=> owner'[j] = {}
  BY DEF RemoteKeeps
<1>5. \A f \in DOMAIN staged' : staged'[f].st \in {"none", "torn", "whole"}
  BY DEF StagedKeeps
<1>6. \A t \in DOMAIN meta' :
        /\ meta'[t].st \in {"none", "torn", "whole"}
        /\ meta'[t].outcome \in {"none", "RETURNED", "TIMEOUT", "CANCELED", "FAILED"}
  BY DEF MetaKeeps
<1> QED
  BY <1>1, <1>2, <1>3, <1>4, <1>5, <1>6 DEF TypeOK

\* The metadata stay true while nobody writes them.
LEMMA MetaStaysTrue ==
  ASSUME IInv, RemoteKeeps, StagedKeeps, UNCHANGED meta
  PROVE  MetaIsTrue' /\ MetaOK' /\ MetaKeeps
<1>1. MetaOK'
  BY DEF IInv, MetaOK, StagedKeeps
<1>2. MetaKeeps
  BY DEF IInv, TypeOK, MetaKeeps
<1>3. ASSUME NEW t \in DOMAIN meta, NEW j \in meta[t].job, NEW e \in meta[t].envelope
      PROVE  CASE meta[t].outcome = "RETURNED" ->
                    /\ task'[j].state = "COMPLETED" /\ task'[j].artifact
                    /\ staged'[FileOf(e)] = [st |-> "whole", job |-> {j}]
               [] meta[t].outcome \in {"TIMEOUT", "CANCELED"} -> task'[j].state = "CANCELED"
               [] OTHER -> task'[j].state \in FINAL
  <2>1. j \in Jobs /\ FileOf(e) \in DOMAIN staged
    BY DEF IInv, MetaOK
  <2>2. CASE meta[t].outcome = "RETURNED"
    <3>1. /\ task[j].state = "COMPLETED" /\ task[j].artifact
          /\ staged[FileOf(e)] = [st |-> "whole", job |-> {j}]
      BY <2>2 DEF IInv, MetaIsTrue
    <3>2. task'[j] = task[j]
      BY <2>1, <3>1 DEF RemoteKeeps, FINAL, Remote!FINAL
    <3>3. staged'[FileOf(e)] = staged[FileOf(e)]
      BY <2>1, <3>1 DEF StagedKeeps
    <3> QED
      BY <2>2, <3>1, <3>2, <3>3
  <2>3. CASE meta[t].outcome \in {"TIMEOUT", "CANCELED"}
    <3>1. task[j].state = "CANCELED"
      BY <2>3 DEF IInv, MetaIsTrue
    <3> QED
      BY <2>1, <2>3, <3>1 DEF RemoteKeeps, FINAL, Remote!FINAL
  <2>4. CASE meta[t].outcome \notin {"RETURNED", "TIMEOUT", "CANCELED"}
    <3>1. task[j].state \in FINAL
      BY <2>4 DEF IInv, MetaIsTrue
    <3> QED
      BY <2>1, <2>4, <3>1 DEF RemoteKeeps
  <2> QED
    BY <2>2, <2>3, <2>4
<1>4. MetaIsTrue'
  BY <1>3 DEF MetaIsTrue
<1> QED
  BY <1>1, <1>2, <1>4

\* It is enough to look at the client that moves.
LEMMA OneClient ==
  ASSUME IInv, NEW c \in Clients, UNCHANGED files, Moves(c), ClientOK(c)',
         RemoteKeeps, StagedKeeps, MetaKeeps, MetaOK', MetaIsTrue', Apart',
         \A d \in Clients \ {c} :
           client[d].pc = "fill" => staged'[FileOf(Envelope(d))] = staged[FileOf(Envelope(d))]
  PROVE  IInv'
<1>1. \A d \in Clients : ClientOK(d)'
  <2>1. ASSUME NEW d \in Clients \ {c} PROVE ClientOK(d)'
    BY <2>1, OthersKeep DEF Moves
  <2> QED
    BY <2>1
<1>2. Shape'
  <2>1. /\ DOMAIN client' = Clients
        /\ \A d \in Clients : DOMAIN client'[d] = {"pc", "order", "signed", "desc", "reply", "rec"}
    BY DEF IInv, Shape, Moves, Fields
  <2>2. /\ DOMAIN task' = Jobs /\ DOMAIN ran' = Jobs /\ DOMAIN owner' = Jobs
        /\ \A j \in Jobs : DOMAIN task'[j] = {"state", "reason", "artifact"}
    BY DEF RemoteKeeps
  <2>3. /\ DOMAIN staged' = {FileOf(e) : e \in Envelopes}
        /\ \A f \in DOMAIN staged' : DOMAIN staged'[f] = {"st", "job"}
        /\ DOMAIN meta' = {e.task : e \in Envelopes}
    BY DEF IInv, Shape, StagedKeeps, MetaKeeps
  <2> QED
    BY <2>1, <2>2, <2>3 DEF Shape
<1>3. PlanOK' /\ world' \in DOMAIN Worlds /\ edits' \in 0..MaxEdits
  BY DEF IInv, PlanOK, TypeOK, files, Genuine
<1>4. TypeOK'
  BY <1>1, <1>2, <1>3, ClientTypes
<1> QED
  BY <1>1, <1>2, <1>3, <1>4 DEF IInv

\* A client that touches no file.
LEMMA OneClientAsks ==
  ASSUME IInv, NEW c \in Clients, UNCHANGED files, UNCHANGED local, RemoteKeeps,
         Moves(c), ClientOK(c)', client'[c].pc # "fill"
  PROVE  IInv'
<1>1. StagedKeeps
  BY DEF IInv, Shape, TypeOK, local, StagedKeeps
<1>2. MetaIsTrue' /\ MetaOK' /\ MetaKeeps
  BY <1>1, MetaStaysTrue DEF local
<1>3. Apart'
  <2>1. ASSUME NEW a \in Clients, NEW b \in Clients,
               client'[a].pc = "fill", client'[b].pc = "fill", a # b
        PROVE  FileOf(Envelope(a))' # FileOf(Envelope(b))'
    <3>1. client'[a] = client[a] /\ client'[b] = client[b]
      BY <2>1 DEF Moves
    <3>2. Order(a)' = Order(a) /\ Order(b)' = Order(b)
      BY <3>1 DEF Order
    <3>3. FileOf(Envelope(a))' = FileOf(Envelope(a)) /\ FileOf(Envelope(b))' = FileOf(Envelope(b))
      BY <3>2 DEF Envelope
    <3>4. FileOf(Envelope(a)) # FileOf(Envelope(b))
      BY <2>1, <3>1 DEF IInv, Apart
    <3> QED
      BY <3>3, <3>4
  <2> QED
    BY <2>1 DEF Apart
<1> QED
  BY <1>1, <1>2, <1>3, OneClient DEF local

\* What Go does.
LEMMA GoMoves ==
  ASSUME IInv, NEW c \in Clients, NEW pc, Go(c, pc)
  PROVE  /\ Moves(c)
         /\ pc = "ended" => client'[c] = [NoClient EXCEPT !.pc = "ended"]
         /\ pc # "ended" => Passes(c, pc)
<1>1. DOMAIN client = Clients /\ DOMAIN client[c] = Fields
  BY DEF IInv, Shape, Fields
<1>2. CASE pc = "ended"
  BY <1>1, <1>2 DEF Go, Moves, NoClient, Fields
<1>3. CASE pc # "ended"
  <2>1. client' = [client EXCEPT ![c] = [client[c] EXCEPT !.pc = pc]]
    BY <1>3 DEF Go
  <2>2. Moves(c)
    BY <1>1, <2>1 DEF Moves, Fields
  <2> QED
    BY <1>1, <1>3, <2>1, <2>2 DEF Passes, Fields
<1> QED
  BY <1>2, <1>3

\* A client that is over is right about everything.
LEMMA EndedOK ==
  ASSUME NEW c \in Clients, client'[c] = [NoClient EXCEPT !.pc = "ended"]
  PROVE  ClientOK(c)' /\ client'[c].pc # "fill"
<1>1. /\ client'[c].pc = "ended" /\ client'[c].signed = {} /\ client'[c].desc = {}
      /\ client'[c].rec = {} /\ client'[c].order = {} /\ client'[c].reply = {}
  BY DEF NoClient
<1>2. Ordered(c)'
  BY <1>1 DEF Ordered, Pc
<1>3. Planned(c)'
  BY <1>1 DEF Planned
<1>4. Asks(c)' /\ Tells(c)' /\ Stages(c)'
  BY <1>1 DEF Asks, Tells, Stages, Asking, Telling
<1> QED
  BY <1>1, <1>2, <1>3, <1>4 DEF ClientOK

\* Giving up is always right, whatever the runner did with the request.
LEMMA GiveUp ==
  ASSUME IInv, NEW c \in Clients, UNCHANGED files, UNCHANGED local, RemoteKeeps, Go(c, "ended")
  PROVE  IInv'
BY GoMoves, EndedOK, OneClientAsks

\* What a client keeps that goes on.
LEMMA PassKeeps ==
  ASSUME NEW c \in Clients, NEW pc, Passes(c, pc)
  PROVE  /\ Order(c)' = Order(c) /\ Envelope(c)' = Envelope(c) /\ Desc(c)' = Desc(c)
         /\ Rec(c)' = Rec(c) /\ Job(c)' = Job(c) /\ SignedTarget(c)' = SignedTarget(c)
         /\ FileOf(Envelope(c))' = FileOf(Envelope(c))
<1>1. Order(c)' = Order(c) /\ Desc(c)' = Desc(c) /\ Rec(c)' = Rec(c)
  BY DEF Passes, Order, Desc, Rec
<1>2. Envelope(c)' = Envelope(c)
  BY <1>1 DEF Envelope
<1>3. Job(c)' = Job(c)
  BY <1>1, <1>2 DEF Job
<1>4. SignedTarget(c)' = SignedTarget(c)
  BY <1>2 DEF Passes, SignedTarget
<1> QED
  BY <1>1, <1>2, <1>3, <1>4

\* A client that has its order and looks its target up no more keeps both.
LEMMA PassPlanned ==
  ASSUME IInv, NEW c \in Clients, NEW pc \in Pc \ {"idle", "ended", "replay", "load", "verify", "preflight"},
         Passes(c, pc), client[c].pc \notin {"idle", "ended"}
  PROVE  Ordered(c)' /\ Planned(c)'
<1>1. Ordered(c)'
  BY DEF IInv, ClientOK, Ordered, Passes
<1>2. Planned(c)'
  BY PassKeeps DEF IInv, ClientOK, Planned, Passes, Genuine, Snapshot
<1> QED
  BY <1>1, <1>2

\* ...and so is one that goes on to a runner there is.
LEMMA PassAsks ==
  ASSUME IInv, NEW c \in Clients, NEW pc \in {"send", "get", "follow", "cancel"},
         Passes(c, pc), client[c].pc \in {"card", "send", "get", "follow"},
         Job(c) \in Jobs, client[c].desc # {}, RemoteKeeps
  PROVE  ClientOK(c)' /\ client'[c].pc # "fill"
<1>1. Ordered(c)' /\ Planned(c)'
  BY PassPlanned DEF Pc
<1>2. Asks(c)'
  BY PassKeeps DEF Asks, Passes, Asking
<1>3. Tells(c)'
  <2>1. ASSUME NEW r \in client'[c].rec PROVE Truthful(r)'
    BY DEF IInv, ClientOK, Tells, Truthful, RemoteKeeps, Passes
  <2> QED
    BY <2>1 DEF Tells, Telling, Passes
<1>4. Stages(c)'
  BY DEF Stages, Passes
<1> QED
  BY <1>1, <1>2, <1>3, <1>4 DEF ClientOK, Passes

\* The client: which target

LEMMA BeginStep ==
  ASSUME IInv, NEW c \in Clients, Begin(c) PROVE IInv'
<1>1. RemoteKeeps /\ UNCHANGED files /\ UNCHANGED local
  BY Unmoved DEF Begin, Still
<1>2. PICK o \in Orders :
        \/ Go(c, "ended")
        \/ client' = [client EXCEPT ![c].order = {o}, ![c].pc = IF plan # {} THEN "replay" ELSE "load"]
  BY DEF Begin
<1>3. CASE Go(c, "ended")
  BY <1>1, <1>3, GiveUp
<1>4. CASE client' = [client EXCEPT ![c].order = {o}, ![c].pc = IF plan # {} THEN "replay" ELSE "load"]
  <2>1. client[c] = [NoClient EXCEPT !.pc = "idle"] /\ DOMAIN client = Clients
    BY DEF IInv, ClientOK, Ordered, Begin, Shape
  <2>2. /\ Moves(c)
        /\ client'[c].pc \in {"replay", "load"} /\ client'[c].order = {o}
        /\ client'[c].signed = {} /\ client'[c].desc = {} /\ client'[c].rec = {}
    BY <1>4, <2>1 DEF Moves, Fields, NoClient
  <2>3. Ordered(c)'
    BY <2>2 DEF Ordered, Pc
  <2>4. Planned(c)'
    BY <2>2 DEF Planned
  <2>5. Asks(c)' /\ Tells(c)' /\ Stages(c)'
    BY <2>2 DEF Asks, Asking, Tells, Telling, Stages
  <2> QED
    BY <1>1, <2>2, <2>3, <2>4, <2>5, OneClientAsks DEF ClientOK
<1> QED
  BY <1>2, <1>3, <1>4

LEMMA ReplayStep ==
  ASSUME IInv, NEW c \in Clients, Replay(c) PROVE IInv'
<1>1. RemoteKeeps /\ UNCHANGED files /\ UNCHANGED local
  BY Unmoved DEF Replay, Still
<1>2. PICK good \in SUBSET plan :
        \/ Go(c, "ended")
        \/ client' = [client EXCEPT ![c].pc = "verify", ![c].signed = good]
  <2> DEFINE good == {p \in plan :
                       /\ p.resolution \in ResolveOf[world][p.bindings]
                       /\ \E d \in p.resolution[Envelope(c).role] : d.target = Order(c).target /\ d.invocation = "a2a"}
  <2>1. IF good = {} THEN Go(c, "ended")
        ELSE client' = [client EXCEPT ![c].pc = "verify", ![c].signed = good]
    BY DEF Replay
  <2>2. good \in SUBSET plan
    OBVIOUS
  <2> HIDE DEF good
  <2> QED
    BY <2>1, <2>2
<1>3. CASE Go(c, "ended")
  BY <1>1, <1>3, GiveUp
<1>4. CASE client' = [client EXCEPT ![c].pc = "verify", ![c].signed = good]
  <2>1. DOMAIN client = Clients /\ DOMAIN client[c] = Fields /\ client[c].pc = "replay"
    BY DEF IInv, Shape, Fields, Replay
  <2>2. /\ Moves(c)
        /\ client'[c].pc = "verify" /\ client'[c].order = client[c].order
        /\ client'[c].signed = good /\ client'[c].desc = client[c].desc /\ client'[c].rec = client[c].rec
    BY <1>4, <2>1 DEF Moves, Fields
  <2>3. Ordered(c)'
    BY <2>1, <2>2 DEF IInv, ClientOK, Ordered, Pc
  <2>4. Planned(c)'
    <3>1. client[c].desc = {}
      BY <2>1 DEF IInv, ClientOK, Planned
    <3>2. \A p \in good : Genuine(p)' /\ \A q \in good : p = q
      BY DEF IInv, PlanOK, Genuine
    <3> QED
      BY <2>2, <3>1, <3>2 DEF Planned
  <2>5. Tells(c)'
    BY <1>1, <2>1, <2>2 DEF Tells, Telling, IInv, ClientOK, Truthful, RemoteKeeps
  <2>6. Asks(c)' /\ Stages(c)'
    BY <2>2 DEF Asks, Asking, Stages
  <2> QED
    BY <1>1, <2>2, <2>3, <2>4, <2>5, <2>6, OneClientAsks DEF ClientOK
<1> QED
  BY <1>2, <1>3, <1>4

\* A client takes a target: the signed one, if there is a plan.
LEMMA TakeStep ==
  ASSUME IInv, NEW c \in Clients, NEW desc, NEW pc \in {"card", "preflight"},
         Take(c, desc, pc), Still, client[c].pc \in {"verify", "load"},
         pc = "preflight" => client[c].signed = {},
         client[c].signed # {} /\ desc # {} => desc = UNION {Snapshot(d) : d \in SignedTarget(c)}
  PROVE  IInv'
<1>1. RemoteKeeps /\ UNCHANGED files /\ UNCHANGED local
  BY Unmoved DEF Still
<1>2. CASE desc = {}
  <2>1. Go(c, "ended")
    BY <1>2 DEF Take
  <2> QED
    BY <1>1, <2>1, GiveUp
<1>3. CASE desc # {}
  <2>1. client' = [client EXCEPT ![c].desc = desc, ![c].pc = pc]
    BY <1>3 DEF Take
  <2>2. DOMAIN client = Clients /\ DOMAIN client[c] = Fields
    BY DEF IInv, Shape, Fields
  <2>3. /\ Moves(c)
        /\ client'[c].pc = pc /\ client'[c].desc = desc /\ client'[c].order = client[c].order
        /\ client'[c].signed = client[c].signed /\ client'[c].rec = client[c].rec
    BY <2>1, <2>2 DEF Moves, Fields
  <2>4. SignedTarget(c)' = SignedTarget(c)
    <3>1. Order(c)' = Order(c)
      BY <2>3 DEF Order
    <3>2. Envelope(c)' = Envelope(c)
      BY <3>1 DEF Envelope
    <3> QED
      BY <2>3, <3>2 DEF SignedTarget
  <2>5. Ordered(c)'
    BY <2>3 DEF IInv, ClientOK, Ordered, Pc
  <2>6. Planned(c)'
    <3>1. client'[c].signed # {} /\ client'[c].desc # {} =>
            client'[c].desc = UNION {Snapshot(d) : d \in SignedTarget(c)}
      BY <2>3
    <3>2. (UNION {Snapshot(d) : d \in SignedTarget(c)})' = UNION {Snapshot(d) : d \in SignedTarget(c)}
      BY <2>4 DEF Snapshot
    <3>3. /\ \A p \in client'[c].signed : Genuine(p)'
          /\ \A p, q \in client'[c].signed : p = q
      BY <2>3 DEF IInv, ClientOK, Planned, Genuine
    <3>4. client'[c].pc \in {"replay", "load", "preflight"} => client'[c].signed = {}
      BY <2>3
    <3>5. client'[c].pc \notin {"replay", "verify", "load"}
      BY <2>3
    <3> QED
      BY <3>1, <3>2, <3>3, <3>4, <3>5 DEF Planned
  <2>7. Asks(c)'
    BY <1>3, <2>3 DEF Asks, Asking
  <2>8. Tells(c)'
    BY <1>1, <2>3 DEF Tells, Telling, IInv, ClientOK, Truthful, RemoteKeeps
  <2>9. Stages(c)'
    BY <2>3 DEF Stages
  <2> QED
    BY <1>1, <2>3, <2>5, <2>6, <2>7, <2>8, <2>9, OneClientAsks DEF ClientOK
<1> QED
  BY <1>2, <1>3

\* The signed plan has one target for the role at most.
LEMMA SignedIsOne ==
  ASSUME IInv, NEW c \in Clients, client[c].pc \notin {"idle", "ended"},
         NEW d \in SignedTarget(c), NEW e \in SignedTarget(c)
  PROVE  d = e
<1>1. PICK p \in client[c].signed : d \in p.resolution[Envelope(c).role]
  BY DEF SignedTarget
<1>2. PICK q \in client[c].signed : e \in q.resolution[Envelope(c).role]
  BY DEF SignedTarget
<1>3. p = q /\ Genuine(p)
  BY DEF IInv, ClientOK, Planned
<1>4. PICK w \in DOMAIN Worlds : p.resolution \in ResolveOf[w][p.bindings]
  BY <1>3 DEF Genuine
<1>5. p.bindings \in Bindings /\ Envelope(c).role \in ROLES
  BY <1>3, HasOrder DEF Genuine
<1> QED
  BY <1>1, <1>2, <1>3, <1>4, <1>5, ResolvesToOne

LEMMA VerifyStep ==
  ASSUME IInv, NEW c \in Clients, Verify(c) PROVE IInv'
<1> DEFINE found == {d \in TargetOf[world][Order(c).target] :
                       Envelope(c).role \in d.roles /\ d \in SignedTarget(c)}
           desc == UNION {Snapshot(d) : d \in found}
<1>1. client[c].pc = "verify" /\ Take(c, desc, "card") /\ Still
  BY DEF Verify
<1>2. desc # {} => found = SignedTarget(c)
  <2>1. ASSUME desc # {} PROVE found # {}
    BY <2>1
  <2>2. \A d, e \in SignedTarget(c) : d = e
    BY <1>1, SignedIsOne
  <2>3. found \subseteq SignedTarget(c)
    OBVIOUS
  <2> HIDE DEF found
  <2> QED
    BY <2>1, <2>2, <2>3
<1>3. desc # {} => desc = UNION {Snapshot(d) : d \in SignedTarget(c)}
  <2> HIDE DEF found
  <2> QED
    BY <1>2
<1> HIDE DEF desc
<1> QED
  BY <1>1, <1>3, TakeStep

LEMMA LoadStep ==
  ASSUME IInv, NEW c \in Clients, Load(c) PROVE IInv'
<1>1. PICK desc : \E pc \in {"card", "preflight"} : Take(c, desc, pc)
  <2> DEFINE desc == RawDescriptor(Worlds[world], Order(c).target)
             pc == IF Worlds[world].version = "tool-integrations/1" THEN "preflight" ELSE "card"
  <2>1. Take(c, desc, pc)
    BY DEF Load
  <2>2. pc \in {"card", "preflight"}
    OBVIOUS
  <2> HIDE DEF desc, pc
  <2> QED
    BY <2>1, <2>2
<1>2. client[c].pc = "load" /\ Still
  BY DEF Load
<1>3. client[c].signed = {}
  BY <1>2 DEF IInv, ClientOK, Planned
<1> QED
  BY <1>1, <1>2, <1>3, TakeStep

LEMMA PreflightStep ==
  ASSUME IInv, NEW c \in Clients, Preflight(c) PROVE IInv'
<1>1. RemoteKeeps /\ UNCHANGED files /\ UNCHANGED local
  BY Unmoved DEF Preflight, Still
<1>2. client[c].pc = "preflight" /\ client[c].desc # {} /\ (Go(c, "ended") \/ Go(c, "card"))
  BY DEF Preflight, IInv, ClientOK, Asks
<1>3. CASE Go(c, "ended")
  BY <1>1, <1>3, GiveUp
<1>4. CASE Go(c, "card")
  <2>1. Moves(c) /\ Passes(c, "card")
    BY <1>4, GoMoves
  <2>2. Ordered(c)' /\ Planned(c)'
    BY <1>2, <2>1, PassPlanned DEF Pc
  <2>3. Asks(c)'
    BY <1>2, <2>1 DEF Asks, Asking, Passes
  <2>4. Tells(c)'
    BY <1>1, <2>1 DEF Tells, Telling, IInv, ClientOK, Truthful, RemoteKeeps, Passes
  <2>5. Stages(c)'
    BY <2>1 DEF Stages, Passes
  <2>6. client'[c].pc # "fill"
    BY <2>1 DEF Passes
  <2> QED
    BY <1>1, <2>1, <2>2, <2>3, <2>4, <2>5, <2>6, OneClientAsks DEF ClientOK
<1> QED
  BY <1>2, <1>3, <1>4

-----------------------------------------------------------------------------
\* The client: the remote runner

LEMMA CardStep ==
  ASSUME IInv, NEW c \in Clients, Card(c) PROVE IInv'
<1>1. RemoteKeeps /\ UNCHANGED files /\ UNCHANGED local
  BY Unmoved DEF Card, Still
<1>2. CASE Go(c, "ended")
  BY <1>1, <1>2, GiveUp
<1>3. CASE ~Go(c, "ended")
  <2>1. client[c].pc = "card" /\ client[c].desc # {}
    BY DEF Card, IInv, ClientOK, Asks
  <2>2. Go(c, NextAfterCard[Order(c).command]) /\ Desc(c).endpoint \in DOMAIN Hosts
    BY <1>3 DEF Card
  <2>3. Order(c) \in Orders /\ Envelope(c) \in Envelopes
    BY <2>1, HasOrder
  <2>4. NextAfterCard[Order(c).command] \in {"send", "get", "follow"}
    BY <2>3, DispatchAssumption DEF NextAfterCard
  <2>5. Job(c) \in Jobs
    BY <2>2, <2>3 DEF Job, Jobs
  <2>6. Moves(c) /\ Passes(c, NextAfterCard[Order(c).command])
    BY <2>2, <2>4, GoMoves
  <2>7. ClientOK(c)' /\ client'[c].pc # "fill"
    BY <1>1, <2>1, <2>4, <2>5, <2>6, PassAsks
  <2> QED
    BY <1>1, <2>6, <2>7, OneClientAsks
<1> QED
  BY <1>2, <1>3

\* A job of a client that asks for it.
LEMMA HasJob ==
  ASSUME IInv, NEW c \in Clients, client[c].pc \in Asking
  PROVE  Job(c) \in Jobs /\ client[c].desc # {}
BY DEF IInv, ClientOK, Asks

LEMMA Delivered ==
  ASSUME IInv, NEW c \in Clients, client[c].pc = "send", Deliver(c)
  PROVE  RemoteKeeps
<1>1. Job(c) \in Jobs
  BY HasJob DEF Asking
<1>2. CASE task[Job(c)].state = "none"
  <2>1. /\ task' = [task EXCEPT ![Job(c)] = [state |-> "SUBMITTED", reason |-> "none", artifact |-> FALSE]]
        /\ owner' = [owner EXCEPT ![Job(c)] = {Envelope(c)}]
        /\ ran' = ran
    BY <1>2 DEF Deliver, Remote!Accept
  <2> QED
    BY <1>1, <1>2, <2>1 DEF IInv, Shape, TypeOK, RemoteKeeps, FINAL, Remote!FINAL, Remote!ACTIVE
<1>3. CASE task[Job(c)].state # "none"
  BY <1>3, Unmoved DEF Deliver
<1> QED
  BY <1>2, <1>3

LEMMA SendStep ==
  ASSUME IInv, NEW c \in Clients, Send(c) PROVE IInv'
<1>1. client[c].pc = "send" /\ Deliver(c) /\ UNCHANGED files /\ UNCHANGED local
  BY DEF Send
<1>2. RemoteKeeps
  BY <1>1, Delivered
<1>3. CASE Go(c, "ended")
  BY <1>1, <1>2, <1>3, GiveUp
<1>4. CASE Go(c, "follow")
  <2>1. Moves(c) /\ Passes(c, "follow")
    BY <1>4, GoMoves
  <2>2. Job(c) \in Jobs /\ client[c].desc # {}
    BY <1>1, HasJob DEF Asking
  <2>3. ClientOK(c)' /\ client'[c].pc # "fill"
    BY <1>1, <1>2, <2>1, <2>2, PassAsks
  <2> QED
    BY <1>1, <1>2, <2>1, <2>3, OneClientAsks
<1> QED
  BY <1>3, <1>4 DEF Send

LEMMA RequestFailsStep ==
  ASSUME IInv, NEW c \in Clients, RequestFails(c) \/ ClientCrash(c) PROVE IInv'
BY Unmoved, GiveUp DEF RequestFails, ClientCrash, Still

LEMMA DeadlineStep ==
  ASSUME IInv, NEW c \in Clients, Deadline(c) PROVE IInv'
<1>1. RemoteKeeps /\ UNCHANGED files /\ UNCHANGED local /\ client[c].pc = "follow" /\ Go(c, "cancel")
  BY Unmoved DEF Deadline, Still
<1>2. Moves(c) /\ Passes(c, "cancel")
  BY <1>1, GoMoves
<1>3. Job(c) \in Jobs /\ client[c].desc # {}
  BY <1>1, HasJob DEF Asking
<1>4. ClientOK(c)' /\ client'[c].pc # "fill"
  BY <1>1, <1>2, <1>3, PassAsks
<1> QED
  BY <1>1, <1>2, <1>4, OneClientAsks

\* What a closed job, or a client's own record of one, says is so.
LEMMA AnswerTrue ==
  ASSUME IInv, NEW j \in Jobs, owner[j] # {}, NEW reason
  PROVE  /\ Answer(j, reason) # {}
         /\ \A r \in Answer(j, reason) : r.job = j /\ r.state = task[j].state /\ Truthful(r)
<1>1. \A r \in Answer(j, reason) :
        r.job = j /\ r.state = task[j].state /\ r.artifact = task[j].artifact
  BY DEF Answer
<1>2. Answer(j, reason) # {}
  BY DEF Answer
<1> QED
  BY <1>1, <1>2 DEF Truthful

\* A client binds what it was told.
LEMMA BindStep ==
  ASSUME IInv, NEW c \in Clients, NEW rec, Bind(c, rec), Still, client[c].pc \in Asking,
         rec # {}, \A r \in rec : Truthful(r)
  PROVE  IInv'
<1>1. RemoteKeeps /\ UNCHANGED files /\ UNCHANGED local
  BY Unmoved DEF Still
<1>2. DOMAIN client = Clients /\ DOMAIN client[c] = Fields
  BY DEF IInv, Shape, Fields
<1>3. /\ Moves(c)
      /\ client'[c].pc = "bind" /\ client'[c].rec = rec /\ client'[c].order = client[c].order
      /\ client'[c].signed = client[c].signed /\ client'[c].desc = client[c].desc
  BY <1>2 DEF Bind, Moves, Fields
<1>4. SignedTarget(c)' = SignedTarget(c)
  <2>1. Order(c)' = Order(c)
    BY <1>3 DEF Order
  <2>2. Envelope(c)' = Envelope(c)
    BY <2>1 DEF Envelope
  <2> QED
    BY <1>3, <2>2 DEF SignedTarget
<1>5. Ordered(c)'
  BY <1>3 DEF IInv, ClientOK, Ordered, Pc, Asking
<1>6. Planned(c)'
  BY <1>3, <1>4 DEF IInv, ClientOK, Planned, Genuine, Snapshot
<1>7. Tells(c)'
  BY <1>1, <1>3 DEF Tells, Telling, Truthful, RemoteKeeps
<1>8. Asks(c)' /\ Stages(c)'
  BY <1>3 DEF Asks, Asking, Stages
<1> QED
  BY <1>1, <1>3, <1>5, <1>6, <1>7, <1>8, OneClientAsks DEF ClientOK

LEMMA Tasked ==
  ASSUME IInv, NEW j \in Jobs PROVE task[j].state # "none" <=> owner[j] # {}
BY DEF IInv, TypeOK

LEMMA GetStep ==
  ASSUME IInv, NEW c \in Clients, Get(c) PROVE IInv'
<1>1. RemoteKeeps /\ UNCHANGED files /\ UNCHANGED local /\ client[c].pc = "get" /\ Still
  BY Unmoved DEF Get, Still
<1>2. Job(c) \in Jobs
  BY <1>1, HasJob DEF Asking
<1>3. Go(c, "ended") \/ (owner[Job(c)] # {} /\ Bind(c, Answer(Job(c), task[Job(c)].reason)))
  BY DEF Get
<1>4. CASE Go(c, "ended")
  BY <1>1, <1>4, GiveUp
<1>5. CASE owner[Job(c)] # {} /\ Bind(c, Answer(Job(c), task[Job(c)].reason))
  BY <1>1, <1>2, <1>5, AnswerTrue, BindStep DEF Asking
<1> QED
  BY <1>3, <1>4, <1>5

LEMMA FollowStep ==
  ASSUME IInv, NEW c \in Clients, Follow(c) PROVE IInv'
<1>1. RemoteKeeps /\ UNCHANGED files /\ UNCHANGED local /\ client[c].pc = "follow" /\ Still
  BY Unmoved DEF Follow, Still
<1>2. Job(c) \in Jobs
  BY <1>1, HasJob DEF Asking
<1>3. CASE Go(c, "ended")
  BY <1>1, <1>3, GiveUp
<1>4. CASE task[Job(c)].state \in FINAL /\ Bind(c, Answer(Job(c), task[Job(c)].reason))
  <2>1. owner[Job(c)] # {}
    BY <1>2, <1>4, Tasked DEF FINAL, Remote!FINAL
  <2> QED
    BY <1>1, <1>2, <1>4, <2>1, AnswerTrue, BindStep DEF Asking
<1>5. CASE Bind(c, {LocalRecord(c, task[Job(c)].state, "none", task[Job(c)].artifact)})
  <2>1. Truthful(LocalRecord(c, task[Job(c)].state, "none", task[Job(c)].artifact))
    BY <1>2 DEF Truthful, LocalRecord
  <2> QED
    BY <1>1, <1>5, <2>1, BindStep DEF Asking
<1> QED
  BY <1>3, <1>4, <1>5 DEF Follow

\* Closing a job that is not closed.
LEMMA Closed ==
  ASSUME IInv, NEW j \in Jobs, NEW s \in FINAL, NEW reason, NEW artifact,
         Remote!Close(j, s, reason, artifact), UNCHANGED owner
  PROVE  RemoteKeeps
<1>1. /\ task[j].state \in Remote!ACTIVE
      /\ task' = [task EXCEPT ![j] = [state |-> s, reason |-> reason, artifact |-> artifact]]
      /\ ran' = ran
  BY DEF Remote!Close
<1>2. owner[j] # {}
  BY <1>1, Tasked DEF Remote!ACTIVE
<1> QED
  BY <1>1, <1>2 DEF IInv, Shape, TypeOK, RemoteKeeps, FINAL, Remote!FINAL, Remote!ACTIVE

LEMMA CancelStep ==
  ASSUME IInv, NEW c \in Clients, Cancel(c) PROVE IInv'
<1>1. client[c].pc = "cancel" /\ owner[Job(c)] # {} /\ UNCHANGED files /\ UNCHANGED owner /\ UNCHANGED local
  BY DEF Cancel
<1>2. Job(c) \in Jobs /\ client[c].desc # {}
  BY <1>1, HasJob DEF Asking
<1>3. UNCHANGED <<task, ran>> \/ Remote!Close(Job(c), "CANCELED", "cancel_task", FALSE)
  BY DEF Cancel
<1>4. RemoteKeeps
  <2>1. CASE UNCHANGED <<task, ran>>
    BY <1>1, <2>1, Unmoved DEF remote
  <2>2. CASE Remote!Close(Job(c), "CANCELED", "cancel_task", FALSE)
    BY <1>1, <1>2, <2>2, Closed DEF FINAL, Remote!FINAL
  <2> QED
    BY <1>3, <2>1, <2>2
<1>5. PICK repeated :
        \/ Go(c, "ended")
        \/ client' = [client EXCEPT ![c].pc = "cancelget",
             ![c].reply = {[state |-> task'[Job(c)].state,
                            reason |-> IF repeated THEN task[Job(c)].reason ELSE "client_deadline"]}]
  BY DEF Cancel
<1>6. CASE Go(c, "ended")
  BY <1>1, <1>4, <1>6, GiveUp
<1>7. CASE ~Go(c, "ended")
  <2> DEFINE reply == [state |-> task'[Job(c)].state,
                       reason |-> IF repeated THEN task[Job(c)].reason ELSE "client_deadline"]
  <2>1. client' = [client EXCEPT ![c].pc = "cancelget", ![c].reply = {reply}]
    BY <1>5, <1>7
  <2>2. reply.state = task'[Job(c)].state
    OBVIOUS
  <2> HIDE DEF reply
  <2>3. DOMAIN client = Clients /\ DOMAIN client[c] = Fields
    BY DEF IInv, Shape, Fields
  <2>4. /\ Moves(c)
        /\ client'[c].pc = "cancelget" /\ client'[c].reply = {reply} /\ client'[c].order = client[c].order
        /\ client'[c].signed = client[c].signed /\ client'[c].desc = client[c].desc
        /\ client'[c].rec = client[c].rec
    BY <2>1, <2>3 DEF Moves, Fields
  <2>5. Envelope(c)' = Envelope(c) /\ Job(c)' = Job(c) /\ SignedTarget(c)' = SignedTarget(c)
    <3>1. Order(c)' = Order(c) /\ Desc(c)' = Desc(c)
      BY <2>4 DEF Order, Desc
    <3>2. Envelope(c)' = Envelope(c)
      BY <3>1 DEF Envelope
    <3> QED
      BY <2>4, <3>1, <3>2 DEF SignedTarget, Job
  <2>6. Ordered(c)'
    BY <1>1, <2>4 DEF IInv, ClientOK, Ordered, Pc
  <2>7. Planned(c)'
    BY <2>4, <2>5 DEF IInv, ClientOK, Planned, Genuine, Snapshot
  <2>8. Asks(c)'
    BY <1>1, <1>2, <1>4, <2>2, <2>4, <2>5 DEF Asks, Asking, RemoteKeeps
  <2>9. Tells(c)'
    BY <1>4, <2>4 DEF Tells, Telling, IInv, ClientOK, Truthful, RemoteKeeps
  <2>10. Stages(c)'
    BY <2>4 DEF Stages
  <2> QED
    BY <1>1, <1>4, <2>4, <2>6, <2>7, <2>8, <2>9, <2>10, OneClientAsks DEF ClientOK
<1> QED
  BY <1>6, <1>7

LEMMA CancelGetStep ==
  ASSUME IInv, NEW c \in Clients, CancelGet(c) PROVE IInv'
<1>1. RemoteKeeps /\ UNCHANGED files /\ UNCHANGED local /\ client[c].pc = "cancelget" /\ Still
  BY Unmoved DEF CancelGet, Still
<1>2. Job(c) \in Jobs /\ owner[Job(c)] # {} /\ client[c].reply # {}
  BY <1>1, HasJob DEF IInv, ClientOK, Asks, Asking
<1> DEFINE reply == The(client[c].reply)
<1>3. reply \in client[c].reply
  BY <1>2, TheIn
<1>4. reply.state = "CANCELED" => task[Job(c)].state = "CANCELED"
  BY <1>1, <1>3 DEF IInv, ClientOK, Asks
<1>5. \/ Go(c, "ended")
      \/ Bind(c, Answer(Job(c), reply.reason))
      \/ Bind(c, Answer(Job(c), task[Job(c)].reason))
      \/ reply.state = "CANCELED" /\ Bind(c, {LocalRecord(c, "CANCELED", reply.reason, FALSE)})
  BY DEF CancelGet
<1> HIDE DEF reply
<1>6. CASE Go(c, "ended")
  BY <1>1, <1>6, GiveUp
<1>7. ASSUME NEW reason, Bind(c, Answer(Job(c), reason)) PROVE IInv'
  BY <1>1, <1>2, <1>7, AnswerTrue, BindStep DEF Asking
<1>8. CASE reply.state = "CANCELED" /\ Bind(c, {LocalRecord(c, "CANCELED", reply.reason, FALSE)})
  <2>1. Truthful(LocalRecord(c, "CANCELED", reply.reason, FALSE))
    BY <1>2, <1>4, <1>8 DEF Truthful, LocalRecord
  <2> QED
    BY <1>1, <1>8, <2>1, BindStep DEF Asking
<1> QED
  BY <1>5, <1>6, <1>7, <1>8

-----------------------------------------------------------------------------
\* The client: the local evidence

\* A client that goes on with its record keeps it.
LEMMA PassTells ==
  ASSUME IInv, NEW c \in Clients, NEW pc \in Telling \ {"bind"}, Passes(c, pc),
         client[c].pc \in Telling, Rec(c).state \in FINAL, RemoteKeeps, Stages(c)'
  PROVE  ClientOK(c)'
<1>1. Ordered(c)' /\ Planned(c)'
  BY PassPlanned DEF Pc, Telling
<1>2. Asks(c)'
  BY DEF Asks, Asking, Passes, Telling
<1>3. Tells(c)'
  <2>1. ASSUME NEW r \in client'[c].rec PROVE Truthful(r)'
    BY DEF IInv, ClientOK, Tells, Truthful, RemoteKeeps, Passes
  <2>2. Rec(c)' = Rec(c)
    BY PassKeeps
  <2>3. client'[c].rec # {}
    BY DEF IInv, ClientOK, Tells, Passes
  <2> QED
    BY <2>1, <2>2, <2>3 DEF Tells
<1> QED
  BY <1>1, <1>2, <1>3 DEF ClientOK

\* The record of a client that has one, and the file it goes to.
LEMMA HasRecord ==
  ASSUME IInv, NEW c \in Clients, client[c].pc \in Telling
  PROVE  /\ Rec(c) \in client[c].rec /\ Truthful(Rec(c)) /\ Rec(c).job \in Jobs
         /\ client[c].pc # "bind" => Rec(c).state \in FINAL
         /\ FileOf(Envelope(c)) \in DOMAIN staged /\ Envelope(c).task \in DOMAIN meta
<1>1. client[c].rec # {} /\ (client[c].pc # "bind" => Rec(c).state \in FINAL)
  BY DEF IInv, ClientOK, Tells, Telling
<1>2. Rec(c) \in client[c].rec
  BY <1>1, TheIn DEF Rec
<1>3. Truthful(Rec(c))
  BY <1>2 DEF IInv, ClientOK, Tells
<1>4. client[c].pc \notin {"idle", "ended"}
  BY DEF Telling
<1> QED
  BY <1>1, <1>2, <1>3, <1>4, HasOrder DEF Truthful

LEMMA BindRecordStep ==
  ASSUME IInv, NEW c \in Clients, BindRecord(c) PROVE IInv'
<1>1. RemoteKeeps /\ UNCHANGED files /\ UNCHANGED local /\ client[c].pc = "bind"
  BY Unmoved DEF BindRecord, Still
<1>2. CASE Go(c, "ended")
  BY <1>1, <1>2, GiveUp
<1>3. ASSUME NEW pc \in {"stage", "meta"}, Go(c, pc), Rec(c).state \in FINAL, pc = "meta" => ~Rec(c).artifact
      PROVE  IInv'
  <2>1. Moves(c) /\ Passes(c, pc)
    BY <1>3, GoMoves
  <2>2. Stages(c)'
    <3>1. Rec(c)' = Rec(c) /\ client'[c].pc = pc
      BY <2>1, PassKeeps DEF Passes
    <3> QED
      BY <1>3, <3>1 DEF Stages
  <2>3. ClientOK(c)'
    BY <1>1, <1>3, <2>1, <2>2, PassTells DEF Telling
  <2>4. client'[c].pc # "fill"
    BY <2>1 DEF Passes
  <2> QED
    BY <1>1, <2>1, <2>3, <2>4, OneClientAsks
<1>4. \/ Go(c, "ended")
      \/ Rec(c).state \in FINAL /\ Go(c, "stage")
      \/ Rec(c).state \in FINAL /\ Go(c, "meta") /\ ~Rec(c).artifact
  BY DEF BindRecord
<1> QED
  BY <1>2, <1>3, <1>4

LEMMA StageStep ==
  ASSUME IInv, NEW c \in Clients, Stage(c) PROVE IInv'
<1> DEFINE f == FileOf(Envelope(c))
<1>1. RemoteKeeps /\ UNCHANGED files /\ UNCHANGED meta /\ client[c].pc = "stage"
  BY Unmoved DEF Stage
<1>2. f \in DOMAIN staged /\ Rec(c).state \in FINAL
  BY <1>1, HasRecord DEF Telling
<1>3. CASE staged[f].st # "none"
  <2>1. Go(c, "ended") /\ UNCHANGED local
    BY <1>1, <1>3 DEF Stage, local
  <2> QED
    BY <1>1, <2>1, GiveUp
<1>4. CASE staged[f].st = "none"
  <2>1. staged' = [staged EXCEPT ![f] = [st |-> "torn", job |-> {Rec(c).job}]] /\ Go(c, "fill")
    BY <1>4 DEF Stage
  <2>2. Moves(c) /\ Passes(c, "fill")
    BY <2>1, GoMoves
  <2>3. Rec(c)' = Rec(c) /\ FileOf(Envelope(c))' = f /\ client'[c].pc = "fill"
    BY <2>2, PassKeeps DEF Passes
  <2> HIDE DEF f
  <2>4. StagedKeeps
    <3>1. DOMAIN staged[f] = {"st", "job"}
      BY <1>2 DEF IInv, Shape
    <3> QED
      BY <1>2, <1>4, <2>1, <3>1 DEF IInv, Shape, TypeOK, StagedKeeps
  <2>5. staged'[f] = [st |-> "torn", job |-> {Rec(c).job}]
    BY <1>2, <2>1
  <2>6. Stages(c)'
    BY <2>3, <2>5 DEF Stages
  <2>7. ClientOK(c)'
    BY <1>1, <1>2, <2>2, <2>6, PassTells DEF Telling
  <2>8. ASSUME NEW d \in Clients \ {c}, client[d].pc = "fill"
        PROVE  FileOf(Envelope(d)) # f /\ staged'[FileOf(Envelope(d))] = staged[FileOf(Envelope(d))]
    <3>1. staged[FileOf(Envelope(d))].st = "torn"
      <4>1. Stages(d)
        BY <2>8 DEF IInv, ClientOK
      <4> QED
        BY <2>8, <4>1 DEF Stages
    <3>2. FileOf(Envelope(d)) \in DOMAIN staged
      BY <2>8, HasOrder
    <3>3. FileOf(Envelope(d)) # f
      BY <1>4, <3>1
    <3> QED
      BY <2>1, <3>2, <3>3
  <2>9. Apart'
    <3>1. ASSUME NEW a \in Clients \ {c}, client'[a].pc = "fill"
          PROVE  client[a].pc = "fill" /\ FileOf(Envelope(a))' = FileOf(Envelope(a))
      <4>1. client'[a] = client[a]
        BY <2>2 DEF Moves
      <4>2. Order(a)' = Order(a)
        BY <4>1 DEF Order
      <4> QED
        BY <3>1, <4>1, <4>2 DEF Envelope
    <3>2. ASSUME NEW a \in Clients, NEW b \in Clients,
                 client'[a].pc = "fill", client'[b].pc = "fill", a # b
          PROVE  FileOf(Envelope(a))' # FileOf(Envelope(b))'
      <4>1. CASE a = c
        BY <2>3, <2>8, <3>1, <3>2, <4>1
      <4>2. CASE b = c
        BY <2>3, <2>8, <3>1, <3>2, <4>2
      <4>3. CASE a # c /\ b # c
        BY <3>1, <3>2, <4>3 DEF IInv, Apart
      <4> QED
        BY <4>1, <4>2, <4>3
    <3> QED
      BY <3>2 DEF Apart
  <2>10. MetaIsTrue' /\ MetaOK' /\ MetaKeeps
    BY <1>1, <2>4, MetaStaysTrue
  <2> QED
    BY <1>1, <2>2, <2>4, <2>7, <2>8, <2>9, <2>10, OneClient
<1> QED
  BY <1>3, <1>4

\* When the only writer of a file is done with it, the writers are still apart.
LEMMA ApartAfter ==
  ASSUME IInv, NEW c \in Clients, Moves(c), client'[c].pc # "fill"
  PROVE  Apart'
<1>1. ASSUME NEW a \in Clients, client'[a].pc = "fill"
      PROVE  client[a].pc = "fill" /\ FileOf(Envelope(a))' = FileOf(Envelope(a))
  <2>1. client'[a] = client[a]
    BY <1>1 DEF Moves
  <2>2. Order(a)' = Order(a)
    BY <2>1 DEF Order
  <2> QED
    BY <1>1, <2>1, <2>2 DEF Envelope
<1>2. ASSUME NEW a \in Clients, NEW b \in Clients,
             client'[a].pc = "fill", client'[b].pc = "fill", a # b
      PROVE  FileOf(Envelope(a))' # FileOf(Envelope(b))'
  BY <1>1, <1>2 DEF IInv, Apart
<1> QED
  BY <1>2 DEF Apart

LEMMA FillStep ==
  ASSUME IInv, NEW c \in Clients, Fill(c) PROVE IInv'
<1> DEFINE f == FileOf(Envelope(c))
<1>1. RemoteKeeps /\ UNCHANGED files /\ UNCHANGED meta /\ client[c].pc = "fill"
  BY Unmoved DEF Fill
<1>2. f \in DOMAIN staged /\ Rec(c).state \in FINAL
  BY <1>1, HasRecord DEF Telling
<1>3. staged[f] = [st |-> "torn", job |-> {Rec(c).job}]
  BY <1>1 DEF IInv, ClientOK, Stages
<1>4. \/ staged' = [staged EXCEPT ![f].st = "whole"] /\ Go(c, "meta")
      \/ staged' = [staged EXCEPT ![f] = NoFile] /\ Go(c, "ended")
  BY DEF Fill
<1>5. StagedKeeps
  <2> HIDE DEF f
  <2>1. DOMAIN staged[f] = {"st", "job"} /\ staged[f].st = "torn"
    BY <1>3
  <2> QED
    BY <1>2, <1>4, <2>1 DEF IInv, Shape, TypeOK, StagedKeeps, NoFile
<1>6. ASSUME NEW d \in Clients \ {c}, client[d].pc = "fill"
      PROVE  staged'[FileOf(Envelope(d))] = staged[FileOf(Envelope(d))]
  <2>1. FileOf(Envelope(d)) # f
    BY <1>1, <1>6 DEF IInv, Apart
  <2>2. FileOf(Envelope(d)) \in DOMAIN staged
    BY <1>6, HasOrder
  <2> HIDE DEF f
  <2> QED
    BY <1>4, <2>1, <2>2
<1>7. MetaIsTrue' /\ MetaOK' /\ MetaKeeps
  BY <1>1, <1>5, MetaStaysTrue
<1>8. Moves(c) /\ ClientOK(c)' /\ client'[c].pc # "fill"
  <2>1. CASE staged' = [staged EXCEPT ![f].st = "whole"] /\ Go(c, "meta")
    <3>1. Moves(c) /\ Passes(c, "meta")
      BY <2>1, GoMoves
    <3>2. Rec(c)' = Rec(c) /\ FileOf(Envelope(c))' = f /\ client'[c].pc = "meta"
      BY <3>1, PassKeeps DEF Passes
    <3> HIDE DEF f
    <3>3. staged'[f] = [st |-> "whole", job |-> {Rec(c).job}]
      BY <1>2, <1>3, <2>1
    <3>4. Stages(c)'
      BY <3>2, <3>3 DEF Stages
    <3> QED
      BY <1>1, <1>2, <3>1, <3>2, <3>4, PassTells DEF Telling
  <2>2. CASE Go(c, "ended")
    BY <2>2, GoMoves, EndedOK
  <2> QED
    BY <1>4, <2>1, <2>2
<1>9. Apart'
  BY <1>8, ApartAfter
<1> QED
  BY <1>1, <1>5, <1>6, <1>7, <1>8, <1>9, OneClient

\* The metadata of other tasks stay true while one client writes its own.
LEMMA OneMeta ==
  ASSUME IInv, NEW c \in Clients, NEW t \in DOMAIN meta, NEW m,
         meta' = [meta EXCEPT ![t] = m], UNCHANGED <<files, remote, staged>>,
         Moves(c), ClientOK(c)', client'[c].pc # "fill",
         m.st \in {"torn", "whole"},
         m.outcome \in {"none", "RETURNED", "TIMEOUT", "CANCELED", "FAILED"},
         m.job \subseteq Jobs, \A e \in m.envelope : FileOf(e) \in DOMAIN staged,
         \A j \in m.job : \A e \in m.envelope :
           CASE m.outcome = "RETURNED" ->
                  /\ task[j].state = "COMPLETED" /\ task[j].artifact
                  /\ staged[FileOf(e)] = [st |-> "whole", job |-> {j}]
             [] m.outcome \in {"TIMEOUT", "CANCELED"} -> task[j].state = "CANCELED"
             [] OTHER -> task[j].state \in FINAL
  PROVE  IInv'
<1>1. RemoteKeeps /\ StagedKeeps /\ UNCHANGED files
  BY Unmoved DEF IInv, Shape, TypeOK, StagedKeeps, remote
<1>2. MetaKeeps
  BY DEF IInv, TypeOK, MetaKeeps
<1>3. MetaOK'
  BY DEF IInv, MetaOK
<1>4. MetaIsTrue'
  <2>1. ASSUME NEW u \in DOMAIN meta, NEW j \in meta'[u].job, NEW e \in meta'[u].envelope
        PROVE  CASE meta'[u].outcome = "RETURNED" ->
                      /\ task[j].state = "COMPLETED" /\ task[j].artifact
                      /\ staged[FileOf(e)] = [st |-> "whole", job |-> {j}]
                 [] meta'[u].outcome \in {"TIMEOUT", "CANCELED"} -> task[j].state = "CANCELED"
                 [] OTHER -> task[j].state \in FINAL
    <3>1. CASE u = t
      <4>1. meta'[u] = m
        BY <3>1
      <4> QED
        BY <4>1
    <3>2. CASE u # t
      <4>1. meta'[u] = meta[u]
        BY <3>2
      <4> QED
        BY <4>1 DEF IInv, MetaIsTrue
    <3> QED
      BY <3>1, <3>2
  <2>2. DOMAIN meta' = DOMAIN meta /\ task' = task /\ staged' = staged
    BY DEF remote
  <2>3. ASSUME NEW u \in DOMAIN meta', NEW j \in meta'[u].job, NEW e \in meta'[u].envelope
        PROVE  CASE meta'[u].outcome = "RETURNED" ->
                      /\ task'[j].state = "COMPLETED" /\ task'[j].artifact
                      /\ staged'[FileOf(e)] = [st |-> "whole", job |-> {j}]
                 [] meta'[u].outcome \in {"TIMEOUT", "CANCELED"} -> task'[j].state = "CANCELED"
                 [] OTHER -> task'[j].state \in FINAL
    BY <2>1, <2>2
  <2> QED
    BY <2>3 DEF MetaIsTrue
<1>5. Apart'
  BY ApartAfter
<1>6. \A d \in Clients \ {c} :
        client[d].pc = "fill" => staged'[FileOf(Envelope(d))] = staged[FileOf(Envelope(d))]
  OBVIOUS
<1> QED
  BY <1>1, <1>2, <1>3, <1>4, <1>5, <1>6, OneClient

LEMMA OpenMetaStep ==
  ASSUME IInv, NEW c \in Clients, OpenMeta(c) PROVE IInv'
<1>1. /\ client[c].pc = "meta" /\ UNCHANGED <<files, remote, staged>> /\ Go(c, "metafill")
      /\ meta' = [meta EXCEPT ![Envelope(c).task] = [NoMeta EXCEPT !.st = "torn"]]
  BY DEF OpenMeta
<1>2. Envelope(c).task \in DOMAIN meta /\ Rec(c).state \in FINAL
  BY <1>1, HasRecord DEF Telling
<1>3. Moves(c) /\ Passes(c, "metafill")
  BY <1>1, GoMoves
<1>4. Stages(c)'
  <2>1. Rec(c)' = Rec(c) /\ FileOf(Envelope(c))' = FileOf(Envelope(c)) /\ client'[c].pc = "metafill"
    BY <1>3, PassKeeps DEF Passes
  <2> QED
    BY <1>1, <2>1 DEF IInv, ClientOK, Stages
<1>5. ClientOK(c)' /\ client'[c].pc # "fill"
  BY <1>1, <1>2, <1>3, <1>4, Unmoved, PassTells DEF Telling, Passes
<1> DEFINE m == [NoMeta EXCEPT !.st = "torn"]
<1>6. m.st = "torn" /\ m.outcome = "none" /\ m.job = {} /\ m.envelope = {}
  BY DEF NoMeta
<1>7. meta' = [meta EXCEPT ![Envelope(c).task] = m]
  BY <1>1
<1> HIDE DEF m
<1> QED
  BY <1>1, <1>2, <1>3, <1>5, <1>6, <1>7, OneMeta

LEMMA WriteMetaStep ==
  ASSUME IInv, NEW c \in Clients, WriteMeta(c) PROVE IInv'
<1> DEFINE m == [st |-> "whole", outcome |-> Outcome(Rec(c)), job |-> {Rec(c).job}, envelope |-> {Envelope(c)}]
<1>1. /\ client[c].pc = "metafill" /\ UNCHANGED <<files, remote, staged>> /\ Go(c, "ended")
      /\ meta' = [meta EXCEPT ![Envelope(c).task] = m]
  BY DEF WriteMeta
<1>2. /\ Rec(c).job \in Jobs /\ Rec(c).state \in FINAL /\ Truthful(Rec(c))
      /\ FileOf(Envelope(c)) \in DOMAIN staged /\ Envelope(c).task \in DOMAIN meta
  BY <1>1, HasRecord DEF Telling
<1>3. Rec(c).artifact => staged[FileOf(Envelope(c))] = [st |-> "whole", job |-> {Rec(c).job}]
  BY <1>1 DEF IInv, ClientOK, Stages
<1>4. Moves(c) /\ ClientOK(c)' /\ client'[c].pc # "fill"
  BY <1>1, GoMoves, EndedOK
<1>5. Outcome(Rec(c)) \in {"RETURNED", "TIMEOUT", "CANCELED", "FAILED"}
  BY DEF Outcome
<1>6. /\ Outcome(Rec(c)) = "RETURNED" => Rec(c).state = "COMPLETED" /\ Rec(c).artifact
      /\ Outcome(Rec(c)) \in {"TIMEOUT", "CANCELED"} => Rec(c).state = "CANCELED"
  BY DEF Outcome
<1>7. /\ Outcome(Rec(c)) = "RETURNED" => task[Rec(c).job].state = "COMPLETED" /\ task[Rec(c).job].artifact
      /\ Outcome(Rec(c)) \in {"TIMEOUT", "CANCELED"} => task[Rec(c).job].state = "CANCELED"
      /\ task[Rec(c).job].state \in FINAL
  BY <1>2, <1>6 DEF Truthful
<1>8. /\ m.st = "whole" /\ m.outcome = Outcome(Rec(c)) /\ m.job = {Rec(c).job}
      /\ m.envelope = {Envelope(c)}
  OBVIOUS
<1> HIDE DEF m
<1>9. \A j \in m.job : \A e \in m.envelope :
        CASE m.outcome = "RETURNED" ->
               /\ task[j].state = "COMPLETED" /\ task[j].artifact
               /\ staged[FileOf(e)] = [st |-> "whole", job |-> {j}]
          [] m.outcome \in {"TIMEOUT", "CANCELED"} -> task[j].state = "CANCELED"
          [] OTHER -> task[j].state \in FINAL
  <2>1. CASE m.outcome = "RETURNED"
    BY <1>3, <1>6, <1>7, <1>8, <2>1
  <2>2. CASE m.outcome \in {"TIMEOUT", "CANCELED"}
    BY <1>7, <1>8, <2>2
  <2>3. CASE m.outcome = "FAILED"
    BY <1>7, <1>8, <2>3
  <2> QED
    BY <1>5, <1>8, <2>1, <2>2, <2>3
<1> QED
  BY <1>1, <1>2, <1>4, <1>5, <1>8, <1>9, OneMeta

-----------------------------------------------------------------------------
\* The operator, the coordinator and the runners

\* A step in which no client moves and no file of results is written.
LEMMA NoClientMoves ==
  ASSUME IInv, UNCHANGED <<client, local>>, RemoteKeeps,
         world' \in DOMAIN Worlds, edits' \in 0..MaxEdits, PlanOK'
  PROVE  IInv'
<1>1. StagedKeeps
  BY DEF IInv, Shape, TypeOK, local, StagedKeeps
<1>2. MetaIsTrue' /\ MetaOK' /\ MetaKeeps
  BY <1>1, MetaStaysTrue DEF local
<1>3. \A d \in Clients : ClientOK(d)'
  <2>1. ASSUME NEW d \in Clients PROVE ClientOK(d)'
    BY <1>1, OthersKeep DEF local
  <2> QED
    BY <2>1
<1>4. Apart'
  <2>1. \A d \in Clients : FileOf(Envelope(d))' = FileOf(Envelope(d))
    BY DEF Envelope, Order
  <2> QED
    BY <2>1 DEF IInv, Apart
<1>5. Shape'
  <2>1. /\ DOMAIN task' = Jobs /\ DOMAIN ran' = Jobs /\ DOMAIN owner' = Jobs
        /\ \A j \in Jobs : DOMAIN task'[j] = {"state", "reason", "artifact"}
    BY DEF RemoteKeeps
  <2> QED
    BY <2>1 DEF IInv, Shape, local
<1>6. TypeOK'
  BY <1>1, <1>2, <1>3, <1>5, ClientTypes
<1> QED
  BY <1>2, <1>3, <1>4, <1>5, <1>6 DEF IInv

LEMMA EditFilesStep == ASSUME IInv, EditFiles PROVE IInv'
<1>1. UNCHANGED <<client, local>> /\ RemoteKeeps
  BY Unmoved DEF EditFiles
<1>2. world' \in DOMAIN Worlds /\ edits' \in 0..MaxEdits
  BY DispatchAssumption DEF IInv, TypeOK, EditFiles
<1>3. PlanOK'
  BY DEF IInv, PlanOK, Genuine, EditFiles
<1> QED
  BY <1>1, <1>2, <1>3, NoClientMoves

LEMMA SignStep == ASSUME IInv, Sign \/ Unsign PROVE IInv'
<1>1. UNCHANGED <<client, local>> /\ RemoteKeeps
  BY Unmoved DEF Sign, Unsign
<1>2. world' \in DOMAIN Worlds /\ edits' \in 0..MaxEdits
  BY DispatchAssumption DEF IInv, TypeOK, Sign, Unsign
<1>3. PlanOK'
  <2>1. CASE plan' = {}
    BY <2>1 DEF PlanOK
  <2>2. CASE plan' # {}
    <3>1. PICK b \in Bindings : \E r \in ResolveOf[world][b] : plan' = {[bindings |-> b, resolution |-> r]}
      BY <2>2 DEF Sign, Unsign
    <3>2. world \in DOMAIN Worlds
      BY DEF IInv, TypeOK
    <3> QED
      BY <3>1, <3>2 DEF PlanOK, Genuine
  <2> QED
    BY <2>1, <2>2
<1> QED
  BY <1>1, <1>2, <1>3, NoClientMoves

LEMMA RunnerStepKeeps == ASSUME IInv, NEW j \in Jobs, RunnerStep(j) PROVE IInv'
<1>1. UNCHANGED files /\ UNCHANGED owner /\ UNCHANGED <<client, local>>
  BY DEF RunnerStep
<1>2. RemoteKeeps
  <2>1. CASE Remote!Work(j)
    BY <1>1, <2>1 DEF Remote!Work, IInv, Shape, TypeOK, RemoteKeeps, FINAL, Remote!FINAL, Remote!ACTIVE
  <2>2. CASE Remote!StartProcess(j)
    BY <1>1, <2>2 DEF Remote!StartProcess, IInv, Shape, TypeOK, RemoteKeeps
  <2>3. ASSUME NEW s \in Closings, Remote!Close(j, s.state, s.reason, s.artifact)
        PROVE  RemoteKeeps
    <3>1. s.state \in FINAL
      BY DispatchAssumption DEF FINAL, Remote!FINAL
    <3> QED
      BY <1>1, <2>3, <3>1, Closed
  <2> QED
    BY <2>1, <2>2, <2>3 DEF RunnerStep
<1>3. world' \in DOMAIN Worlds /\ edits' \in 0..MaxEdits /\ PlanOK'
  BY <1>1 DEF IInv, TypeOK, PlanOK, Genuine, files
<1> QED
  BY <1>1, <1>2, <1>3, NoClientMoves

-----------------------------------------------------------------------------
\* The invariant

LEMMA InitIInv == Init => IInv
<1> SUFFICES ASSUME Init PROVE IInv
  OBVIOUS
<1>1. \A c \in Clients : client[c] = NoClient
  BY DEF Init
<1>2. \A c \in Clients : ClientOK(c)
  <2>1. ASSUME NEW c \in Clients PROVE ClientOK(c)
    <3>1. /\ client[c].pc = "idle" /\ client[c].signed = {} /\ client[c].desc = {}
          /\ client[c].rec = {} /\ client[c].order = {} /\ client[c].reply = {}
      BY <1>1 DEF NoClient
    <3>2. Ordered(c)
      BY <1>1, <3>1 DEF Ordered, Pc, NoClient
    <3> QED
      BY <3>1, <3>2 DEF ClientOK, Planned, Asks, Tells, Stages, Asking, Telling
  <2> QED
    BY <2>1
<1>3. PlanOK /\ world \in DOMAIN Worlds /\ edits \in 0..MaxEdits
  <2>1. world \in DOMAIN Worlds /\ edits \in 0..MaxEdits
    BY DispatchAssumption DEF Init
  <2> DEFINE G(b) == {{[bindings |-> b, resolution |-> r]} : r \in ResolveOf[world][b]}
  <2>2. plan \in {{}} \cup UNION {G(b) : b \in Bindings}
    BY DEF Init
  <2>3. CASE plan = {}
    BY <2>1, <2>3 DEF PlanOK
  <2>4. CASE plan # {}
    <3>1. PICK b \in Bindings : plan \in G(b)
      <4> HIDE DEF G
      <4> QED
        BY <2>2, <2>4
    <3>2. PICK r \in ResolveOf[world][b] : plan = {[bindings |-> b, resolution |-> r]}
      BY <3>1
    <3> QED
      BY <2>1, <3>2 DEF PlanOK, Genuine
  <2> QED
    BY <2>3, <2>4, <2>1
<1>4. Shape
  BY <1>1 DEF Init, Shape, Remote!Init, Remote!NoTask, NoClient, NoFile
<1>5. Apart
  BY <1>1 DEF Apart, NoClient
<1>6. MetaOK /\ MetaIsTrue
  BY DEF Init, MetaOK, MetaIsTrue, NoMeta
<1>7. TypeOK
  <2>1. /\ \A j \in Jobs : task[j].state \in FINAL \cup Remote!ACTIVE \cup {"none"} /\ ran[j] \in 0..1
        /\ \A j \in Jobs : task[j].state = "none" <=> owner[j] = {}
    BY DEF Init, Remote!Init, Remote!NoTask
  <2>2. /\ \A f \in DOMAIN staged : staged[f].st \in {"none", "torn", "whole"}
        /\ \A t \in DOMAIN meta :
             /\ meta[t].st \in {"none", "torn", "whole"}
             /\ meta[t].outcome \in {"none", "RETURNED", "TIMEOUT", "CANCELED", "FAILED"}
    BY DEF Init, NoFile, NoMeta
  <2>3. \A c \in Clients : client[c].pc = "idle"
    BY <1>1 DEF NoClient
  <2>4. \A p \in plan : p.bindings \in Bindings
    BY <1>3 DEF PlanOK, Genuine
  <2> QED
    BY <1>3, <2>1, <2>2, <2>3, <2>4 DEF TypeOK, Pc
<1> QED
  BY <1>2, <1>3, <1>4, <1>5, <1>6, <1>7 DEF IInv

LEMMA NextIInv == IInv /\ [Next]_vars => IInv'
<1> SUFFICES ASSUME IInv, [Next]_vars PROVE IInv'
  OBVIOUS
<1>1. CASE UNCHANGED vars
  <2>1. UNCHANGED <<client, local>> /\ RemoteKeeps /\ UNCHANGED files
    BY <1>1, Unmoved DEF vars, local, files, remote
  <2>2. world' \in DOMAIN Worlds /\ edits' \in 0..MaxEdits /\ PlanOK'
    BY <2>1 DEF IInv, TypeOK, PlanOK, Genuine, files
  <2> QED
    BY <2>1, <2>2, NoClientMoves
<1>2. CASE EditFiles \/ Sign \/ Unsign
  BY <1>2, EditFilesStep, SignStep
<1>3. ASSUME NEW c \in Clients, Begin(c) \/ Step(c) \/ ClientCrash(c) PROVE IInv'
  <2>1. CASE Begin(c) \/ Replay(c) \/ Verify(c) \/ Load(c) \/ Preflight(c) \/ Card(c)
    BY <2>1, BeginStep, ReplayStep, VerifyStep, LoadStep, PreflightStep, CardStep
  <2>2. CASE Send(c) \/ Get(c) \/ Follow(c) \/ Deadline(c) \/ Cancel(c) \/ CancelGet(c)
    BY <2>2, SendStep, GetStep, FollowStep, DeadlineStep, CancelStep, CancelGetStep
  <2>3. CASE RequestFails(c) \/ ClientCrash(c)
    BY <2>3, RequestFailsStep
  <2>4. CASE BindRecord(c) \/ Stage(c) \/ Fill(c) \/ OpenMeta(c) \/ WriteMeta(c)
    BY <2>4, BindRecordStep, StageStep, FillStep, OpenMetaStep, WriteMetaStep
  <2> QED
    BY <1>3, <2>1, <2>2, <2>3, <2>4 DEF Step
<1>4. ASSUME NEW j \in Jobs, RunnerStep(j) PROVE IInv'
  BY <1>4, RunnerStepKeeps
<1> QED
  BY <1>1, <1>2, <1>3, <1>4 DEF Next

\* The inductive invariant holds in every reachable state.
THEOREM Invariant == Spec => []IInv
<1>1. Init => IInv
  BY InitIInv
<1>2. IInv /\ [Next]_vars => IInv'
  BY NextIInv
<1> QED
  BY <1>1, <1>2, PTL DEF Spec

\* The state of the coordinator, the runners and the clients is well typed.
THEOREM TypeCorrect == Spec => []TypeOK
<1>1. IInv => TypeOK
  BY DEF IInv
<1> QED
  BY <1>1, Invariant, PTL

\* Whatever is edited in between, a planned run is sent to the target that was
\* signed, as it was signed.
THEOREM SignedIsSent == Spec => []SentAsSigned
<1>1. IInv => SentAsSigned
  BY DEF IInv, ClientOK, Planned, SentAsSigned
<1> QED
  BY <1>1, Invariant, PTL

\* The target a planned verdict is asked of is of another model family than the
\* generator the plan was signed with.
THEOREM VerdictIsIndependent == Spec => []IndependentVerdict
<1>1. ASSUME IInv PROVE IndependentVerdict
  <2> SUFFICES ASSUME NEW c \in Clients, NEW p \in client[c].signed, NEW d \in client[c].desc,
                      Envelope(c).role = "evaluator", NEW g \in p.resolution.generator
               PROVE  d.family # g.family
    BY DEF IndependentVerdict
  <2>1. /\ Genuine(p) /\ \A q \in client[c].signed : p = q
        /\ client[c].desc = UNION {Snapshot(x) : x \in SignedTarget(c)}
    BY <1>1 DEF IInv, ClientOK, Planned
  <2>2. PICK x \in SignedTarget(c) : d \in Snapshot(x)
    BY <2>1
  <2>3. d.family = x.family
    BY <2>2 DEF Snapshot
  <2>4. x \in p.resolution["evaluator"]
    BY <2>1 DEF SignedTarget
  <2>5. PICK w \in DOMAIN Worlds : p.resolution \in ResolveOf[w][p.bindings]
    BY <2>1 DEF Genuine
  <2>6. p.bindings \in Bindings
    BY <2>1 DEF Genuine
  <2> QED
    BY <2>3, <2>4, <2>5, <2>6, ResolvesToOne
<1> QED
  BY <1>1, Invariant, PTL

\* What the metadata of a task say of the job they name is so, and stays so.
THEOREM MetadataIsTrue == Spec => []MetaIsTrue
<1>1. IInv => MetaIsTrue
  BY DEF IInv
<1> QED
  BY <1>1, Invariant, PTL

\* A job that is closed is not touched again, and a result that lies whole in the
\* dispatch state is neither overwritten nor removed, by whomever.
ClosedForGood ==
  /\ \A j \in Jobs : task[j].state \in FINAL => task'[j] = task[j]
  /\ \A f \in DOMAIN staged : staged[f].st = "whole" => staged'[f] = staged[f]

LEMMA StepCloses == IInv /\ [Next]_vars => ClosedForGood
<1> SUFFICES ASSUME IInv, [Next]_vars PROVE ClosedForGood
  OBVIOUS
<1>1. ASSUME RemoteKeeps, UNCHANGED staged PROVE ClosedForGood
  BY <1>1 DEF RemoteKeeps, ClosedForGood
<1>2. ASSUME UNCHANGED remote, UNCHANGED staged PROVE ClosedForGood
  BY <1>1, <1>2, Unmoved
<1>3. CASE UNCHANGED vars \/ EditFiles \/ Sign \/ Unsign
  BY <1>2, <1>3 DEF vars, remote, local, EditFiles, Sign, Unsign
<1>4. ASSUME NEW c \in Clients, Begin(c) \/ Step(c) \/ ClientCrash(c) PROVE ClosedForGood
  <2>1. CASE Begin(c) \/ Replay(c) \/ Verify(c) \/ Load(c) \/ Preflight(c) \/ Card(c)
    BY <1>2, <2>1 DEF Begin, Replay, Verify, Load, Preflight, Card, Still, local
  <2>2. CASE Get(c) \/ Follow(c) \/ Deadline(c) \/ CancelGet(c) \/ RequestFails(c) \/ ClientCrash(c)
              \/ BindRecord(c) \/ OpenMeta(c) \/ WriteMeta(c)
    BY <1>2, <2>2 DEF Get, Follow, Deadline, CancelGet, RequestFails, ClientCrash, BindRecord,
                      OpenMeta, WriteMeta, Still, local
  <2>3. CASE Send(c)
    BY <1>1, <2>3, Delivered DEF Send, local
  <2>4. CASE Cancel(c)
    <3>1. Job(c) \in Jobs /\ UNCHANGED owner /\ UNCHANGED staged
      BY <2>4, HasJob DEF Cancel, Asking, local
    <3>2. UNCHANGED <<task, ran>> \/ Remote!Close(Job(c), "CANCELED", "cancel_task", FALSE)
      BY <2>4 DEF Cancel
    <3>3. CASE UNCHANGED <<task, ran>>
      BY <1>2, <3>1, <3>3 DEF remote
    <3>4. CASE Remote!Close(Job(c), "CANCELED", "cancel_task", FALSE)
      BY <1>1, <3>1, <3>4, Closed DEF FINAL, Remote!FINAL
    <3> QED
      BY <3>2, <3>3, <3>4
  <2>5. CASE Stage(c) \/ Fill(c)
    <3> DEFINE f == FileOf(Envelope(c))
    <3>1. UNCHANGED remote
      BY <2>5 DEF Stage, Fill
    <3>2. \/ UNCHANGED staged
          \/ \E r : staged' = [staged EXCEPT ![f] = r]
      <4>1. CASE Stage(c)
        BY <4>1 DEF Stage
      <4>2. CASE Fill(c)
        <5>1. f \in DOMAIN staged
          BY <4>2, HasRecord DEF Fill, Telling
        <5>2. CASE staged' = [staged EXCEPT ![f].st = "whole"]
          <6>1. staged' = [staged EXCEPT ![f] = [staged[f] EXCEPT !.st = "whole"]]
            BY <5>2
          <6> HIDE DEF f
          <6> QED
            BY <6>1
        <5> QED
          BY <4>2, <5>2 DEF Fill
      <4> QED
        BY <2>5, <4>1, <4>2
    <3>3. staged[f].st = "whole" => UNCHANGED staged
      <4>1. CASE Stage(c)
        BY <4>1 DEF Stage
      <4>2. CASE Fill(c)
        <5>1. Stages(c) /\ client[c].pc = "fill"
          BY <4>2 DEF IInv, ClientOK, Fill
        <5>2. staged[f].st = "torn"
          BY <5>1 DEF Stages
        <5> QED
          BY <5>2
      <4> QED
        BY <2>5, <4>1, <4>2
    <3> HIDE DEF f
    <3>4. \A g \in DOMAIN staged : staged[g].st = "whole" => staged'[g] = staged[g]
      BY <3>2, <3>3
    <3> QED
      BY <3>1, <3>4 DEF ClosedForGood, remote
  <2> QED
    BY <1>4, <2>1, <2>2, <2>3, <2>4, <2>5 DEF Step
<1>5. ASSUME NEW j \in Jobs, RunnerStep(j) PROVE ClosedForGood
  <2>1. UNCHANGED owner /\ UNCHANGED staged
    BY <1>5 DEF RunnerStep, local
  <2>2. CASE Remote!Work(j)
    BY <2>1, <2>2 DEF Remote!Work, IInv, Shape, ClosedForGood, FINAL, Remote!FINAL
  <2>3. CASE Remote!StartProcess(j)
    BY <2>1, <2>3 DEF Remote!StartProcess, ClosedForGood
  <2>4. ASSUME NEW s \in Closings, Remote!Close(j, s.state, s.reason, s.artifact)
        PROVE  ClosedForGood
    <3>1. s.state \in FINAL
      BY DispatchAssumption DEF FINAL, Remote!FINAL
    <3> QED
      BY <1>1, <2>1, <2>4, <3>1, Closed
  <2> QED
    BY <1>5, <2>2, <2>3, <2>4 DEF RunnerStep
<1> QED
  BY <1>3, <1>4, <1>5 DEF Next

\* What is over stays as it was told, in every behaviour.
THEOREM OverIsOver == Spec => [][ClosedForGood]_vars
<1>1. IInv /\ [Next]_vars => ClosedForGood
  BY StepCloses
<1> QED
  BY <1>1, Invariant, PTL DEF Spec

=============================================================================
