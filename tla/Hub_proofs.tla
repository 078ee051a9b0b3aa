------------------------------- MODULE Hub_proofs -------------------------------
(*****************************************************************************)
(* Proofs about HubNodes and McpServer.  EffectsOnce needs to know, while a  *)
(* call is on its way, how many sockets it has used up and whether the hub   *)
(* has taken the event from the last one; PagesComplete needs to know which  *)
(* stretch of the collection the pages read so far are.                      *)
(*****************************************************************************)
EXTENDS HubNodes, McpServer, FiniteSetTheorems, SequenceTheorems, TLAPS

--------------------------------------------------------------------------------
(* The access nodes.                                                       *)

Phases == {"next", "rest", "socket", "done", "threw"}
Verdicts == {Open, [kind |-> "event"]} \cup [kind : {"error"}, err : Errors]
Stages == {"connecting", "decoding", "subscribing", "publishing", "listening", "closing", "gone"}
Socks == [stage : Stages, up : BOOLEAN, met : BOOLEAN, taken : BOOLEAN, waits : BOOLEAN, beat : BOOLEAN]
Results == [kind : {"error", "did", "event", "detail"}]
           \cup [kind : {"list"}, got : Seq(Int), whole : Seq(Int), sure : BOOLEAN]

AllPlans == Seq(Operations)
Items == Seq(Int)
Sockets == Seq(Socks)
Outputs == Seq(Results)
Nodes == [plan : AllPlans, goOn : BOOLEAN, item : Nat \ {0}, phase : Phases, cur : Nat, verdict : Verdicts]
Tries == [retries : Nat, renewed : BOOLEAN]
Readings == [page : Nat \ {0}, size : Nat, got : Items, total : Nat, whole : Items, shifted : BOOLEAN]
Hubs == [items : Items, bare : BOOLEAN, tells : SUBSET Fields, keys : SUBSET Nat, changes : Nat,
         effects : [DOMAIN node.plan -> Nat]]

TypeOK ==
    /\ node \in Nodes /\ try \in Tries /\ list \in Readings
    /\ socks \in Sockets /\ hub \in Hubs /\ out \in Outputs

\* A socket carries events only.
PlanOK ==
    \A i \in DOMAIN node.plan :
        node.plan[i].socket => node.plan[i].does \in {"publishSocketEvent", "waitForSocketEvent"}

\* Where the loop is: every item before the current one has an output.
LoopOK ==
    /\ node.item <= Len(node.plan) + 1
    /\ node.phase \in {"rest", "socket", "threw"} => node.item <= Len(node.plan)
    /\ Len(out) = node.item - 1
    /\ node.cur <= Len(socks)
    /\ node.cur # 0 <=> node.phase = "socket"
    /\ node.phase = "socket" => Op.socket
    /\ node.phase = "rest" => ~Op.socket
    /\ node.phase \in {"rest", "socket"} /\ Op.does = "publishSocketEvent" => Publishable(Op.event)

\* The sockets that the call of the current item has used up, and the one it uses.
UsedUp == (IF try.renewed THEN 1 ELSE 0) + (IF socks[node.cur].taken THEN 1 ELSE 0)

\* What the items after the current one, and a call that is on its way, have done.
EffectsSoFar ==
    /\ \A j \in DOMAIN node.plan : j \in hub.keys <=> hub.effects[j] > 0
    /\ \A j \in DOMAIN node.plan :
          j > node.item \/ (j = node.item /\ node.phase \in {"next", "rest"}) => hub.effects[j] = 0
    /\ node.phase = "socket" =>
          /\ hub.effects[node.item] <= UsedUp
          /\ Op.keyed => hub.effects[node.item] <= 1
          /\ socks[node.cur].taken => hub.effects[node.item] > 0

CallInv == TypeOK /\ PlanOK /\ LoopOK /\ EffectsSoFar /\ EffectsOnce

--------------------------------------------------------------------------------
\* The collection holds nothing twice, and nothing that is yet to be added.
Distinct(s) == \A a, b \in DOMAIN s : s[a] = s[b] => a = b
CollectionOK == Distinct(hub.items) /\ \A a \in DOMAIN hub.items : hub.items[a] > 0 - hub.changes

\* Where the pages up to page p end.
EndOf(p) == p * PageSize

\* The sequence s consists of the first items of t after a, and then of those after b.
Stretches(s, t, a, first, b) ==
    \A i \in 1..Len(s) : s[i] = t[IF i <= first THEN a + i ELSE b + i - first]

\* The sequence s is what t has after a, or its beginning.
Agrees(s, t, a) == \A i \in 1..Len(s) : s[i] = t[a + i]

\* How many items the first page of the call had.
FirstHad == Least(EndOf(Op.page), list.total) - EndOf(Op.page - 1)

\* The list will be what it says: the answers tell enough, and the pages follow each other.
Sure == Enough /\ ~list.shifted

\* The call has read its first page, which may have been short, and others up to the one
\* it reads now, which were full.
ReadSoFar ==
    node.phase = "rest" /\ Lists =>
        /\ list.got = <<>> => list.page = Op.page /\ list.size = PageSize /\ list.total = 0 /\ ~list.shifted
        /\ list.got # <<>> => Op.all /\ ~Bare
        /\ list.got # <<>> /\ Sure =>
            /\ list.page > Op.page /\ list.size = PageSize
            /\ list.total <= Len(hub.items) /\ FirstHad > 0
            /\ Len(list.got) = FirstHad + EndOf(list.page - 1) - EndOf(Op.page)
            /\ Stretches(list.got, hub.items, EndOf(Op.page - 1), FirstHad, EndOf(Op.page))
            /\ Len(list.whole) = list.total - EndOf(Op.page - 1)
            /\ Agrees(list.whole, hub.items, EndOf(Op.page - 1))
            /\ list.page > Op.page + 1 => EndOf(list.page - 1) <= Len(hub.items)

PagesInv == CollectionOK /\ ReadSoFar /\ PagesComplete
--------------------------------------------------------------------------------
(* A call of the current item.                                              *)

\* While items are left, the current one is an operation.
LEMMA OpIsOperation ==
    ASSUME TypeOK, node.item <= Len(node.plan)
    PROVE  node.item \in DOMAIN node.plan /\ Op \in Operations
<1>1. node.plan \in AllPlans /\ node.item \in Nat \ {0}
  BY DEF TypeOK, Nodes
<1> QED
  BY <1>1 DEF Op, AllPlans

\* What the steps make of the record of the loop.
LEMMA NodeGoes ==
    ASSUME node \in Nodes, NEW ph \in Phases, NEW c \in Nat,
           node' = [node EXCEPT !.phase = ph, !.cur = c]
    PROVE  /\ node' \in Nodes /\ node'.plan = node.plan /\ node'.item = node.item
           /\ node'.phase = ph /\ node'.cur = c /\ node'.goOn = node.goOn
BY DEF Nodes

\* ... when it goes on to the next item.
LEMMA NodeAdvances ==
    ASSUME node \in Nodes, node' = [node EXCEPT !.item = @ + 1, !.phase = "next", !.cur = 0]
    PROVE  /\ node' \in Nodes /\ node'.plan = node.plan /\ node'.item = node.item + 1
           /\ node'.phase = "next" /\ node'.cur = 0
<1>1. node.item \in Nat /\ node.item + 1 \in Nat \ {0}
  BY DEF Nodes
<1>2. node' = [node EXCEPT !.item = node.item + 1, !.phase = "next", !.cur = 0]
  BY DEF Nodes
<1>3. PICK i \in Nat \ {0} : i = node.item + 1
  BY <1>1
<1>4. node' = [node EXCEPT !.item = i, !.phase = "next", !.cur = 0]
  BY <1>2, <1>3
<1>5. /\ node' \in Nodes /\ node'.plan = node.plan /\ node'.item = i
      /\ node'.phase = "next" /\ node'.cur = 0
  <2>1. "next" \in Phases /\ 0 \in Nat
    BY DEF Phases
  <2> QED
    BY <1>4, <2>1 DEF Nodes
<1> QED
  BY <1>3, <1>5

\* A failure ends the item, or the call is made once more: after a renewal of the session,
\* the first for this call, or, for what only reads, after a transient failure.
LEMMA FailsShape ==
    ASSUME NEW err, NEW sockets, TypeOK, Fails(err, sockets)
    PROVE  \/ ItemEnds([kind |-> "error"], sockets)
           \/ /\ ~try.renewed /\ err = "expired"
              /\ \E tries \in Tries : tries.renewed /\ CallsHub(tries, sockets)
           \/ /\ Op.does \in ClientReads \cup UserReads
              /\ \E tries \in Tries : CallsHub(tries, sockets)
<1>1. /\ [try EXCEPT !.renewed = TRUE] \in Tries /\ [try EXCEPT !.renewed = TRUE].renewed
      /\ [retries |-> try.retries + 1, renewed |-> FALSE] \in Tries
  <2>1. try \in Tries
    BY DEF TypeOK
  <2>2. try.retries \in Nat /\ [try EXCEPT !.renewed = TRUE] \in Tries /\ [try EXCEPT !.renewed = TRUE].renewed
    BY <2>1 DEF Tries
  <2>3. try.retries + 1 \in Nat
    BY <2>2
  <2>4. [retries |-> try.retries + 1, renewed |-> FALSE] \in Tries
    BY <2>3 DEF Tries
  <2> QED
    BY <2>2, <2>4
<1>2. \A e : Repeats(e) => Op.does \in ClientReads \cup UserReads
  BY DEF Repeats
<1> QED
  BY <1>1, <1>2, Zenon DEF Fails

\* A call on its way leaves what was done before it: the hub has not changed, and what it
\* has of this item comes from the socket before a renewal.
LEMMA CallsHubKeeps ==
    ASSUME CallInv, node.item <= Len(node.plan), node.phase \in {"next", "rest", "socket"},
           NEW tries \in Tries,
           NEW sockets \in Sockets, Len(sockets) = Len(socks),
           Op.does = "publishSocketEvent" => Publishable(Op.event),
           hub.effects[node.item] <= IF tries.renewed THEN 1 ELSE 0,
           CallsHub(tries, sockets), UNCHANGED hub
    PROVE  CallInv'
<1> USE DEF CallInv
<1>1. Op \in Operations /\ node.item \in DOMAIN node.plan
  BY OpIsOperation
<1>2. /\ node'.plan = node.plan /\ node'.item = node.item /\ Op' = Op /\ node' \in Nodes
      /\ IF Op.socket THEN node'.phase = "socket" /\ node'.cur = Len(sockets) + 1
                      ELSE node'.phase = "rest" /\ node'.cur = 0
  <2>1. node \in Nodes /\ Len(sockets) \in Nat
    BY DEF TypeOK, Sockets
  <2>2. node' = IF Op.socket THEN [node EXCEPT !.phase = "socket", !.cur = Len(sockets) + 1]
                             ELSE [node EXCEPT !.phase = "rest", !.cur = 0]
    BY DEF CallsHub
  <2>3. /\ node'.plan = node.plan /\ node'.item = node.item /\ node' \in Nodes
        /\ IF Op.socket THEN node'.phase = "socket" /\ node'.cur = Len(sockets) + 1
                        ELSE node'.phase = "rest" /\ node'.cur = 0
    <3>1. CASE Op.socket
      <4>1. Len(sockets) + 1 \in Nat /\ "socket" \in Phases
        BY <2>1 DEF Phases
      <4> QED
        BY <2>1, <2>2, <3>1, <4>1, NodeGoes
    <3>2. CASE ~Op.socket
      <4>1. 0 \in Nat /\ "rest" \in Phases
        BY DEF Phases
      <4> QED
        BY <2>1, <2>2, <3>2, <4>1, NodeGoes
    <3> QED
      BY <3>1, <3>2
  <2> QED
    BY <2>3 DEF Op
<1>3. Fresh \in Readings
  BY <1>1, HubNodesAssumption DEF Fresh, Operations, Readings, Items
<1>4. Socket(Op.does = "waitForSocketEvent") \in Socks /\ ~Socket(Op.does = "waitForSocketEvent").taken
  BY DEF Socket, Socks, Stages
<1>5. /\ socks' \in Sockets /\ Len(sockets) \in Nat /\ Len(socks) \in Nat
      /\ Op.socket => Len(socks') = Len(sockets) + 1 /\ ~socks'[Len(sockets) + 1].taken
      /\ ~Op.socket => socks' = sockets
  <2>1. Op.socket => socks' = Append(sockets, Socket(Op.does = "waitForSocketEvent"))
    BY DEF CallsHub
  <2>2. ~Op.socket => socks' = sockets
    BY DEF CallsHub
  <2>3. Op.socket \in BOOLEAN /\ socks \in Sockets
    BY <1>1 DEF Operations, TypeOK
  <2> QED
    BY <1>4, <2>1, <2>2, <2>3, SMTT(30) DEF Sockets
<1>6. try' = tries /\ list' = Fresh /\ out' = out
  BY DEF CallsHub
<1>7. TypeOK'
  <2>1. hub' \in Hubs'
    BY <1>2 DEF TypeOK, Hubs
  <2> QED
    BY <2>1, <1>2, <1>3, <1>5, <1>6 DEF TypeOK
<1>8. PlanOK'
  BY <1>2 DEF PlanOK
<1>9. LoopOK'
  <2>1. Op.socket \in BOOLEAN
    BY <1>1 DEF Operations
  <2>2. node'.cur <= Len(socks')
    BY <2>1, <1>2, <1>5
  <2>3. node'.cur # 0 <=> Op.socket
    BY <2>1, <1>2, <1>5
  <2>4. node'.phase = IF Op.socket THEN "socket" ELSE "rest"
    BY <2>1, <1>2
  <2> QED
    BY <1>2, <1>6, <2>2, <2>3, <2>4 DEF LoopOK
<1>10. hub' = hub /\ hub.effects[node.item] \in Nat
  BY <1>1 DEF TypeOK, Hubs
<1>11. EffectsSoFar'
  <2>1. hub.effects[node.item] <= 1
    BY <1>10
  <2>2. node'.phase = "socket" => UsedUp' = IF tries.renewed THEN 1 ELSE 0
    <3> SUFFICES ASSUME node'.phase = "socket" PROVE UsedUp' = IF tries.renewed THEN 1 ELSE 0
      OBVIOUS
    <3>1. Op.socket /\ node'.cur = Len(sockets) + 1
      BY <1>2
    <3>2. ~socks'[node'.cur].taken
      BY <3>1, <1>5
    <3> QED
      BY <3>2, <1>6 DEF UsedUp
  <2>3. \A j \in DOMAIN node.plan :
            j > node.item \/ (j = node.item /\ ~tries.renewed) => hub.effects[j] = 0
    BY <1>10 DEF EffectsSoFar
  <2>4. node'.phase = "socket" => ~socks'[node'.cur].taken
    BY <1>2, <1>5
  <2>5. node'.phase = "rest" => hub.effects[node.item] = 0
    <3>1. node'.phase = "rest" => ~Op.socket
      BY <1>2
    <3>2. ~Op.socket => node.phase \in {"next", "rest"}
      BY DEF LoopOK
    <3> QED
      BY <3>1, <3>2, <1>1 DEF EffectsSoFar
  <2>6. node'.phase \in {"rest", "socket"}
    BY <1>2
  <2> QED
    BY <1>2, <1>10, <2>1, <2>2, <2>3, <2>4, <2>5, <2>6 DEF EffectsSoFar
<1>12. EffectsOnce'
  BY <1>2, <1>6, <1>10 DEF EffectsOnce
<1> QED
  BY <1>7, <1>8, <1>9, <1>11, <1>12

\* What a step does to the hub concerns the current item only, and leaves it within bounds.
HubStep ==
    /\ hub' \in Hubs
    /\ \A j \in DOMAIN node.plan : j \in hub'.keys <=> hub'.effects[j] > 0
    /\ \A j \in DOMAIN node.plan : j # node.item => hub'.effects[j] = hub.effects[j]
    /\ hub'.effects[node.item] <= IF Op.socket /\ ~Op.keyed THEN 2 ELSE 1

\* An item that ends with an output that is true leaves everything in order.
LEMMA ItemEndsKeeps ==
    ASSUME CallInv, node.item <= Len(node.plan), HubStep,
           NEW result \in Results, NEW sockets \in Sockets,
           result.kind = "did" => /\ hub'.effects[node.item] > 0
                                  /\ Op.does = "publishSocketEvent" => Readable(Op.event),
           ItemEnds(result, sockets)
    PROVE  CallInv'
<1> USE DEF CallInv
<1>1. Op \in Operations /\ node.item \in DOMAIN node.plan
  BY OpIsOperation
<1>2. /\ node'.plan = node.plan /\ node'.cur = 0 /\ node' \in Nodes
      /\ \/ node'.phase = "next" /\ node'.item = node.item + 1 /\ out' = Append(out, result)
         \/ node'.phase = "threw" /\ node'.item = node.item /\ out' = out
  <2>1. node \in Nodes
    BY DEF TypeOK
  <2>2. \/ out' = Append(out, result) /\ node' = [node EXCEPT !.item = @ + 1, !.phase = "next", !.cur = 0]
        \/ out' = out /\ node' = [node EXCEPT !.phase = "threw", !.cur = 0]
    BY DEF ItemEnds
  <2>3. 0 \in Nat /\ "threw" \in Phases
    BY DEF Phases
  <2> QED
    BY <2>1, <2>2, <2>3, NodeGoes, NodeAdvances
<1>3. /\ out' \in Outputs /\ Len(out) \in Nat /\ socks' = sockets /\ Len(socks') \in Nat
      /\ try' = try /\ list' = list /\ node.item \in Nat /\ Len(node.plan) \in Nat
      /\ DOMAIN node.plan = 1..Len(node.plan)
      /\ out' = Append(out, result) => Len(out') = Len(out) + 1
  <2>1. out \in Outputs /\ node \in Nodes
    BY DEF TypeOK
  <2>2. node.item \in Nat /\ node.plan \in AllPlans
    BY <2>1 DEF Nodes
  <2>3. socks' = sockets /\ try' = try /\ list' = list
    BY DEF ItemEnds
  <2> QED
    <3>1. Len(node.plan) \in Nat /\ DOMAIN node.plan = 1..Len(node.plan)
      BY <2>2 DEF AllPlans
    <3>2. Len(sockets) \in Nat
      BY DEF Sockets
    <3>3. Len(out) \in Nat /\ Append(out, result) \in Outputs /\ Len(Append(out, result)) = Len(out) + 1
      BY <2>1 DEF Outputs
    <3> QED
      BY <1>2, <2>1, <2>2, <2>3, <3>1, <3>2, <3>3
<1>4. TypeOK'
  <2>1. hub' \in Hubs'
    BY <1>2 DEF HubStep, Hubs
  <2> QED
    BY <2>1, <1>2, <1>3 DEF TypeOK
<1>5. PlanOK'
  BY <1>2 DEF PlanOK
<1>6. LoopOK'
  BY <1>2, <1>3, SMTT(30) DEF LoopOK
<1>7. EffectsSoFar'
  BY <1>2, <1>3, SMTT(30) DEF EffectsSoFar, HubStep
<1>8. EffectsOnce'
  <2>1. \A i \in DOMAIN hub'.effects :
            hub'.effects[i] <= IF node.plan[i].socket /\ ~node.plan[i].keyed THEN 2 ELSE 1
    <3> TAKE i \in DOMAIN hub'.effects
    <3>1. i \in DOMAIN node.plan /\ i \in DOMAIN hub.effects
      BY DEF HubStep, TypeOK, Hubs
    <3> QED
      BY <3>1 DEF HubStep, EffectsOnce, Op
  <2>2. ASSUME NEW i \in DOMAIN out', out'[i].kind = "did"
        PROVE  /\ hub'.effects[i] > 0
               /\ node.plan[i].does = "publishSocketEvent" => Readable(node.plan[i].event)
    <3>1. CASE i \in DOMAIN out
      <4>1. out'[i] = out[i] /\ i \in 1..Len(out)
        <5>1. out \in Outputs
          BY DEF TypeOK
        <5> QED
          BY <1>2, <3>1, <5>1 DEF Outputs
      <4>2. i < node.item /\ i \in DOMAIN node.plan
        BY <1>3, <4>1 DEF LoopOK
      <4>3. hub'.effects[i] = hub.effects[i]
        BY <1>3, <4>2 DEF HubStep
      <4> QED
        BY <2>2, <3>1, <4>1, <4>3 DEF EffectsOnce
    <3>2. CASE i \notin DOMAIN out
      <4>1. i = node.item /\ out'[i] = result
        <5>1. out \in Outputs
          BY DEF TypeOK
        <5>2. i = Len(out) + 1 /\ out'[i] = result
          BY <1>2, <3>2, <2>2, <5>1 DEF Outputs
        <5> QED
          BY <5>2, <1>3 DEF LoopOK
      <4> QED
        BY <2>2, <4>1 DEF Op
    <3> QED
      BY <3>1, <3>2
  <2> QED
    BY <1>2, <2>1, <2>2 DEF EffectsOnce
<1> QED
  BY <1>4, <1>5, <1>6, <1>7, <1>8

\* A step that leaves the hub alone.
LEMMA UnchangedHubStep ==
    ASSUME CallInv, node.item <= Len(node.plan), hub' = hub
    PROVE  HubStep
<1>1. Op \in Operations /\ node.item \in DOMAIN node.plan
  BY OpIsOperation DEF CallInv
<1>2. hub \in Hubs /\ node.item \in DOMAIN hub.effects
  BY <1>1 DEF CallInv, TypeOK, Hubs
<1> QED
  BY <1>1, <1>2 DEF CallInv, HubStep, EffectsSoFar, EffectsOnce, Op

\* A failure keeps everything in order: a call that is made again has done nothing yet, or
\* what the socket before it did.
LEMMA FailsKeeps ==
    ASSUME CallInv, node.phase \in {"rest", "socket"}, HubStep,
           NEW err, NEW sockets \in Sockets, Len(sockets) = Len(socks),
           \/ hub' = hub
           \/ err # "expired" /\ Op.does \notin ClientReads \cup UserReads,
           Fails(err, sockets)
    PROVE  CallInv'
<1> USE DEF CallInv
<1>1. node.item <= Len(node.plan) /\ (Op.does = "publishSocketEvent" => Publishable(Op.event))
  BY DEF LoopOK
<1>2. Op \in Operations /\ node.item \in DOMAIN node.plan
  BY <1>1, OpIsOperation
<1>3. CASE ItemEnds([kind |-> "error"], sockets)
  <2>1. [kind |-> "error"] \in Results /\ [kind |-> "error"].kind # "did"
    BY DEF Results
  <2> QED
    BY <1>1, <1>3, <2>1, ItemEndsKeeps
<1>4. CASE ~try.renewed /\ err = "expired" /\ \E tries \in Tries : tries.renewed /\ CallsHub(tries, sockets)
  <2>1. PICK tries \in Tries : tries.renewed /\ CallsHub(tries, sockets)
    BY <1>4
  <2>2. hub.effects[node.item] <= 1
    <3>1. node.phase = "rest" => hub.effects[node.item] = 0
      BY <1>2 DEF EffectsSoFar
    <3>2. node.phase = "socket" => hub.effects[node.item] <= UsedUp /\ UsedUp \in {0, 1}
      BY <1>4 DEF EffectsSoFar, UsedUp
    <3>3. hub.effects[node.item] \in Nat
      BY <1>2 DEF TypeOK, Hubs
    <3> QED
      BY <3>1, <3>2, <3>3
  <2>3. hub' = hub /\ node.phase \in {"next", "rest", "socket"}
    BY <1>4
  <2> QED
    BY <1>1, <2>1, <2>2, <2>3, CallsHubKeeps
<1>5. CASE Op.does \in ClientReads \cup UserReads /\ \E tries \in Tries : CallsHub(tries, sockets)
  <2>1. PICK tries \in Tries : CallsHub(tries, sockets)
    BY <1>5
  <2>2. ~Op.socket
    BY <1>2, <1>5 DEF PlanOK, Op, ClientReads, UserReads
  <2>3. node.phase = "rest"
    BY <2>2 DEF LoopOK
  <2>4. hub.effects[node.item] = 0
    BY <1>2, <2>3 DEF EffectsSoFar
  <2>5. hub.effects[node.item] <= IF tries.renewed THEN 1 ELSE 0
    BY <2>4
  <2>6. hub' = hub /\ node.phase \in {"next", "rest", "socket"}
    BY <1>5
  <2> QED
    BY <1>1, <2>1, <2>5, <2>6, CallsHubKeeps
<1>6. TypeOK
  OBVIOUS
<1> QED
  BY <1>3, <1>4, <1>5, <1>6, FailsShape

\* A step that moves sockets along, notes the end of a wait or changes the collection
\* leaves what the calls have done as it is.
LEMMA SocketsMove ==
    ASSUME CallInv, socks' \in Sockets, Len(socks') = Len(socks),
           node.phase = "socket" => socks'[node.cur].taken = socks[node.cur].taken,
           node' \in Nodes, node'.plan = node.plan, node'.item = node.item,
           node'.phase = node.phase, node'.cur = node.cur,
           try' = try, list' \in Readings, out' = out,
           hub' \in Hubs, hub'.effects = hub.effects, hub'.keys = hub.keys
    PROVE  CallInv'
<1> USE DEF CallInv
<1>1. Op' = Op
  BY DEF Op
<1>2. TypeOK'
  <2>1. hub' \in Hubs'
    BY DEF Hubs
  <2> QED
    BY <2>1 DEF TypeOK
<1>3. PlanOK'
  BY DEF PlanOK
<1>4. LoopOK'
  BY <1>1 DEF LoopOK
<1>5. EffectsSoFar'
  <2>1. node.phase = "socket" => UsedUp' = UsedUp
    BY DEF UsedUp
  <2> QED
    BY <1>1, <2>1 DEF EffectsSoFar
<1>6. EffectsOnce'
  BY DEF EffectsOnce
<1> QED
  BY <1>2, <1>3, <1>4, <1>5, <1>6

--------------------------------------------------------------------------------
(* What the steps make of the sockets.                                      *)

\* The sockets s with x in place of one of them.
With(s, k, x) == [s EXCEPT ![k] = x]

\* The sockets t are those of now, one of them moved on: none was opened or served.
Alike(t) == t \in Sockets /\ Len(t) = Len(socks) /\ \A j \in DOMAIN socks : t[j].taken = socks[j].taken

\* One socket changes.
LEMMA WithTyped ==
    ASSUME NEW s \in Sockets, NEW k \in DOMAIN s, NEW x \in Socks
    PROVE  /\ With(s, k, x) \in Sockets /\ Len(With(s, k, x)) = Len(s)
           /\ With(s, k, x)[k] = x /\ DOMAIN With(s, k, x) = DOMAIN s
           /\ \A j \in DOMAIN s : j # k => With(s, k, x)[j] = s[j]
BY DEF Sockets, With

\* ... and changes again.
LEMMA WithTwice ==
    ASSUME NEW s, NEW k \in DOMAIN s, NEW x, NEW y
    PROVE  With(With(s, k, x), k, y) = With(s, k, y) /\ With(s, k, x)[k] = x
BY DEF With

\* One that changes without being served leaves the sockets alike.
LEMMA WithAlike ==
    ASSUME socks \in Sockets, NEW k \in DOMAIN socks, NEW x \in Socks, x.taken = socks[k].taken
    PROVE  Alike(With(socks, k, x))
BY WithTyped DEF Alike

\* A socket that moves on, is lost or given up, or ends its wait.
LEMMA SocketMoves ==
    ASSUME NEW x \in Socks, NEW stage \in Stages
    PROVE  [x EXCEPT !.stage = stage] \in Socks /\ [x EXCEPT !.stage = stage].taken = x.taken
BY DEF Socks

\* ... and what else may change about it.
LEMMA SocketChanges ==
    ASSUME NEW x \in Socks, NEW b \in BOOLEAN
    PROVE  /\ [x EXCEPT !.up = b] \in Socks
           /\ [x EXCEPT !.up = b].taken = x.taken
           /\ [x EXCEPT !.beat = b] \in Socks
           /\ [x EXCEPT !.beat = b].taken = x.taken
           /\ [x EXCEPT !.met = b] \in Socks
           /\ [x EXCEPT !.met = b].taken = x.taken
           /\ [x EXCEPT !.taken = b] \in Socks
           /\ [x EXCEPT !.taken = b].taken = b
BY DEF Socks

\* One field of one socket.
LEMMA FieldAlike ==
    ASSUME NEW t, Alike(t), socks \in Sockets, NEW k \in DOMAIN socks, NEW stage \in Stages, NEW b \in BOOLEAN
    PROVE  /\ Alike([t EXCEPT ![k].stage = stage])
           /\ Alike([t EXCEPT ![k].up = b])
           /\ Alike([t EXCEPT ![k].beat = b])
           /\ Alike([t EXCEPT ![k].met = b])
<1>1. /\ t \in Sockets /\ k \in DOMAIN t /\ DOMAIN t = DOMAIN socks /\ t[k] \in Socks
      /\ t[k].taken = socks[k].taken /\ Len(t) = Len(socks)
  BY DEF Alike, Sockets
<1>2. \A x \in Socks : x.taken = socks[k].taken => Alike(With(t, k, x))
  <2> TAKE x \in Socks
  <2> HAVE x.taken = socks[k].taken
  <2>1. /\ With(t, k, x) \in Sockets /\ Len(With(t, k, x)) = Len(t)
        /\ With(t, k, x)[k] = x
        /\ \A j \in DOMAIN t : j # k => With(t, k, x)[j] = t[j]
    BY <1>1, WithTyped
  <2>2. \A j \in DOMAIN socks : With(t, k, x)[j].taken = socks[j].taken
    BY <1>1, <2>1 DEF Alike
  <2> QED
    BY <1>1, <2>1, <2>2 DEF Alike
<1>3. [t[k] EXCEPT !.stage = stage] \in Socks /\ [t[k] EXCEPT !.stage = stage].taken = t[k].taken
  BY <1>1, SocketMoves
<1>4. Alike(With(t, k, [t[k] EXCEPT !.stage = stage]))
  BY <1>1, <1>2, <1>3, Zenon
<1>5. [t[k] EXCEPT !.up = b] \in Socks /\ [t[k] EXCEPT !.up = b].taken = t[k].taken
  BY <1>1, SocketChanges, ZenonT(60)
<1>6. Alike(With(t, k, [t[k] EXCEPT !.up = b]))
  BY <1>1, <1>2, <1>5, Zenon
<1>7. [t[k] EXCEPT !.beat = b] \in Socks /\ [t[k] EXCEPT !.beat = b].taken = t[k].taken
  BY <1>1, SocketChanges
<1>8. Alike(With(t, k, [t[k] EXCEPT !.beat = b]))
  BY <1>1, <1>2, <1>7, Zenon
<1>9. [t[k] EXCEPT !.met = b] \in Socks /\ [t[k] EXCEPT !.met = b].taken = t[k].taken
  BY <1>1, SocketChanges
<1>10. Alike(With(t, k, [t[k] EXCEPT !.met = b]))
  BY <1>1, <1>2, <1>9, Zenon
<1> QED
  BY <1>4, <1>6, <1>8, <1>10, Zenon DEF With

\* All of these leave the sockets alike.
LEMMA SocketsAlike ==
    ASSUME socks \in Sockets, NEW k \in DOMAIN socks, NEW stage \in Stages, NEW beat \in BOOLEAN
    PROVE  /\ Alike(socks) /\ Alike(Moved(k, stage)) /\ Alike(Dropped(k, beat))
           /\ Alike([Moved(k, stage) EXCEPT ![k].beat = FALSE])
           /\ Alike([Moved(k, stage) EXCEPT ![k].up = TRUE])
           /\ Alike([Moved(k, stage) EXCEPT ![k].met = TRUE])
           /\ Alike([socks EXCEPT ![k].up = FALSE])
<1>1. Alike(socks)
  BY DEF Alike
<1>2. Alike(Moved(k, stage)) /\ Alike([socks EXCEPT ![k].up = FALSE])
  BY <1>1, FieldAlike DEF Moved
<1>3. /\ Alike([Moved(k, stage) EXCEPT ![k].beat = FALSE])
      /\ Alike([Moved(k, stage) EXCEPT ![k].up = TRUE])
      /\ Alike([Moved(k, stage) EXCEPT ![k].met = TRUE])
  BY <1>2, FieldAlike
<1>4. Alike(Dropped(k, beat))
  <2>1. "gone" \in Stages
    BY DEF Stages
  <2>2. Alike([socks EXCEPT ![k].stage = "gone"])
    BY <1>1, <2>1, FieldAlike
  <2>3. Alike([[socks EXCEPT ![k].stage = "gone"] EXCEPT ![k].up = FALSE])
    BY <2>2, FieldAlike
  <2>4. Alike([[[socks EXCEPT ![k].stage = "gone"] EXCEPT ![k].up = FALSE] EXCEPT ![k].beat = beat])
    BY <2>3, FieldAlike
  <2> QED
    BY <2>4 DEF Dropped
<1> QED
  BY <1>1, <1>2, <1>3, <1>4

\* A step that leaves everything but the sockets.
LEMMA SocketsOnly ==
    ASSUME CallInv, Alike(socks'), UNCHANGED <<node, try, list, hub, out>>
    PROVE  CallInv'
<1>1. node.cur # 0 <=> node.phase = "socket"
  BY DEF CallInv, LoopOK
<1>2. node \in Nodes /\ list \in Readings /\ hub \in Hubs /\ socks \in Sockets /\ node.cur \in Nat
  BY DEF CallInv, TypeOK, Nodes
<1>3. node.phase = "socket" => socks'[node.cur].taken = socks[node.cur].taken
  <2>1. node.phase = "socket" => node.cur \in 1..Len(socks)
    <3>1. Len(socks) \in Nat /\ node.cur <= Len(socks)
      BY <1>2 DEF CallInv, LoopOK, Sockets
    <3> QED
      BY <1>1, <1>2, <3>1
  <2>2. DOMAIN socks = 1..Len(socks)
    BY <1>2 DEF Sockets
  <2> QED
    BY <2>1, <2>2 DEF Alike
<1>4. socks' \in Sockets /\ Len(socks') = Len(socks)
  BY DEF Alike
<1>5. /\ node' \in Nodes /\ list' \in Readings /\ hub' \in Hubs /\ try' = try /\ out' = out
      /\ node'.plan = node.plan /\ node'.item = node.item /\ node'.phase = node.phase /\ node'.cur = node.cur
      /\ hub'.effects = hub.effects /\ hub'.keys = hub.keys
  BY <1>2
<1> QED
  BY <1>3, <1>4, <1>5, SocketsMove

--------------------------------------------------------------------------------
(* The steps keep what EffectsOnce needs.                                   *)

\* What every step of a call may take for granted.
LEMMA InACall ==
    ASSUME CallInv
    PROVE  /\ node \in Nodes /\ socks \in Sockets /\ hub \in Hubs /\ list \in Readings /\ out \in Outputs /\ try \in Tries
           /\ Len(socks) \in Nat /\ DOMAIN socks = 1..Len(socks) /\ node.cur \in Nat
           /\ node.phase \in {"rest", "socket", "threw"} => node.item <= Len(node.plan)
           /\ \A k \in DOMAIN socks : k = node.cur => node.phase = "socket" /\ Op.socket
           /\ \A k \in DOMAIN socks : socks[k] \in Socks
BY DEF CallInv, TypeOK, LoopOK, Nodes, Sockets

\* A socket that is given up fails its call, or nobody's.
LEMMA GivesUpKeeps ==
    ASSUME CallInv, NEW k \in DOMAIN socks, NEW err, NEW beat \in BOOLEAN, GivesUp(k, err, beat), UNCHANGED hub
    PROVE  CallInv'
<1>1. Alike(Dropped(k, beat))
  <2>1. "gone" \in Stages /\ socks \in Sockets
    BY InACall DEF Stages
  <2> QED
    BY <2>1, SocketsAlike
<1>2. CASE k = node.cur
  <2>1. Fails(err, Dropped(k, beat)) /\ node.phase = "socket" /\ node.item <= Len(node.plan)
    BY <1>2, InACall DEF GivesUp
  <2>2. HubStep
    BY <2>1, UnchangedHubStep
  <2>3. Dropped(k, beat) \in Sockets /\ Len(Dropped(k, beat)) = Len(socks)
    BY <1>1, InACall DEF Alike
  <2> QED
    BY <2>1, <2>2, <2>3, FailsKeeps
<1>3. CASE k # node.cur
  <2>1. socks' = Dropped(k, beat) /\ UNCHANGED <<node, try, list, hub, out>>
    BY <1>3 DEF GivesUp
  <2> QED
    BY <1>1, <2>1, SocketsOnly
<1> QED
  BY <1>2, <1>3

\* A wait whose session is being closed.
LEMMA ClosesKeeps ==
    ASSUME CallInv, NEW k \in DOMAIN socks, NEW verdict \in Verdicts, Closes(k, verdict)
    PROVE  CallInv'
<1>1. socks \in Sockets /\ node \in Nodes /\ hub \in Hubs /\ list \in Readings
  BY InACall
<1>2. Alike(socks')
  <2>1. "closing" \in Stages /\ FALSE \in BOOLEAN
    BY DEF Stages
  <2> QED
    BY <1>1, <2>1, SocketsAlike DEF Closes
<1>3. /\ node' \in Nodes /\ node'.plan = node.plan /\ node'.item = node.item
      /\ node'.phase = node.phase /\ node'.cur = node.cur
  <2>1. node' = [node EXCEPT !.verdict = verdict] \/ node' = node
    BY DEF Closes
  <2> QED
    BY <1>1, <2>1 DEF Nodes
<1>4. node.phase = "socket" => socks'[node.cur].taken = socks[node.cur].taken
  <2>1. node.phase = "socket" => node.cur \in DOMAIN socks
    BY InACall DEF CallInv, LoopOK
  <2> QED
    BY <1>2, <2>1 DEF Alike
<1>5. list' \in Readings /\ hub' \in Hubs /\ try' = try /\ out' = out /\ hub'.effects = hub.effects /\ hub'.keys = hub.keys
  BY <1>1 DEF Closes
<1> QED
  BY <1>2, <1>3, <1>4, <1>5, SocketsMove DEF Alike

\* An item that ends with the hub left alone.
LEMMA ItemEndsAlone ==
    ASSUME CallInv, node.item <= Len(node.plan), UNCHANGED hub, NEW result \in Results, NEW sockets \in Sockets,
           result.kind # "did", ItemEnds(result, sockets)
    PROVE  CallInv'
BY UnchangedHubStep, ItemEndsKeeps

\* StartItem.
LEMMA StartItemKeeps == CallInv /\ StartItem => CallInv'
<1> SUFFICES ASSUME CallInv, StartItem PROVE CallInv'
  OBVIOUS
<1>1. node.phase = "next" /\ node.item <= Len(node.plan) /\ UNCHANGED hub /\ socks \in Sockets /\ Len(socks) \in Nat
  BY InACall DEF StartItem
<1>2. CASE Op.valid /\ (Op.does = "publishSocketEvent" => Publishable(Op.event))
  <2>1. CallsHub([retries |-> 0, renewed |-> FALSE], socks)
    BY <1>2 DEF StartItem
  <2>2. [retries |-> 0, renewed |-> FALSE] \in Tries
    BY DEF Tries
  <2>3. hub.effects[node.item] = 0
    BY <1>1, OpIsOperation DEF CallInv, EffectsSoFar
  <2>4. hub.effects[node.item] <= IF [retries |-> 0, renewed |-> FALSE].renewed THEN 1 ELSE 0
    BY <2>3
  <2> QED
    BY <1>1, <1>2, <2>1, <2>2, <2>4, CallsHubKeeps
<1>3. CASE ~(Op.valid /\ (Op.does = "publishSocketEvent" => Publishable(Op.event)))
  <2>1. ItemEnds([kind |-> "error"], socks)
    BY <1>3 DEF StartItem
  <2>2. [kind |-> "error"] \in Results /\ [kind |-> "error"].kind # "did"
    BY DEF Results
  <2> QED
    BY <1>1, <2>1, <2>2, ItemEndsAlone
<1> QED
  BY <1>2, <1>3

\* NodeEnds.
LEMMA NodeEndsKeeps == CallInv /\ NodeEnds => CallInv'
<1> SUFFICES ASSUME CallInv, NodeEnds PROVE CallInv'
  OBVIOUS
<1> USE DEF CallInv
<1>1. node \in Nodes /\ node.phase = "next" /\ node' = [node EXCEPT !.phase = "done"]
  BY InACall DEF NodeEnds
<1>2. node' \in Nodes /\ node'.plan = node.plan /\ node'.item = node.item /\ node'.phase = "done" /\ node'.cur = node.cur
  <2>1. "done" \in Phases
    BY DEF Phases
  <2> QED
    BY <1>1, <2>1 DEF Nodes
<1>3. UNCHANGED <<try, list, socks, hub, out>> /\ Op' = Op
  BY <1>2 DEF NodeEnds, Op
<1>4. TypeOK'
  BY <1>2, <1>3 DEF TypeOK, Hubs
<1>5. PlanOK' /\ LoopOK' /\ EffectsSoFar' /\ EffectsOnce'
  BY <1>1, <1>2, <1>3 DEF PlanOK, LoopOK, EffectsSoFar, EffectsOnce
<1> QED
  BY <1>4, <1>5

--------------------------------------------------------------------------------
(* The collection and its pages.                                            *)

\* Where pages end.
LEMMA EndOfFacts ==
    ASSUME NEW p \in Nat
    PROVE  /\ EndOf(p) \in Nat /\ EndOf(p + 1) = EndOf(p) + PageSize
           /\ p > 0 => EndOf(p) >= PageSize
<1>1. PageSize \in Nat \ {0}
  BY HubNodesAssumption
<1>2. p * PageSize \in Nat /\ (p + 1) * PageSize = p * PageSize + PageSize
  BY <1>1
<1>3. p > 0 => p * PageSize >= PageSize
  BY <1>1
<1> QED
  BY <1>2, <1>3 DEF EndOf

\* Later pages end later.
LEMMA EndOfGrows ==
    ASSUME NEW p \in Nat, NEW q \in Nat, p <= q
    PROVE  EndOf(p) <= EndOf(q)
<1>1. PageSize \in Nat \ {0}
  BY HubNodesAssumption
<1>2. p * PageSize <= q * PageSize
  BY <1>1
<1> QED
  BY <1>2 DEF EndOf

\* A page is a stretch of the collection.
LEMMA PageShape ==
    ASSUME hub \in Hubs, NEW p \in Nat \ {0}, ~Bare
    PROVE  /\ Page(p, PageSize) \in Items
           /\ Len(Page(p, PageSize)) <= PageSize
           /\ Len(Page(p, PageSize)) = IF EndOf(p - 1) <= Len(hub.items) THEN Least(EndOf(p), Len(hub.items)) - EndOf(p - 1) ELSE 0
           /\ Agrees(Page(p, PageSize), hub.items, EndOf(p - 1))
<1>1. hub.items \in Seq(Int)
  BY DEF Hubs, Items
<1>2. /\ p - 1 \in Nat /\ EndOf(p - 1) \in Nat /\ EndOf(p) = EndOf(p - 1) + PageSize
      /\ PageSize \in Nat \ {0} /\ Len(hub.items) \in Nat
  <2>1. PICK q \in Nat : q = p - 1 /\ p = q + 1
    OBVIOUS
  <2>2. EndOf(q) \in Nat /\ EndOf(q + 1) = EndOf(q) + PageSize
    BY <2>1, EndOfFacts
  <2>3. PageSize \in Nat \ {0}
    BY HubNodesAssumption
  <2> QED
    BY <1>1, <2>1, <2>2, <2>3
<1>3. Page(p, PageSize) = SubSeq(hub.items, EndOf(p - 1) + 1, Least(EndOf(p), Len(hub.items)))
  BY DEF Page, From, EndOf
<1>4. PICK m \in Nat : m = EndOf(p - 1)
  BY <1>2
<1>5. PICK n \in Nat : n = Least(EndOf(p), Len(hub.items))
  BY <1>2 DEF Least
<1>6. n <= Len(hub.items) /\ n <= m + PageSize
  BY <1>2, <1>4, <1>5 DEF Least
<1>7. \A i \in (m + 1)..n : hub.items[i] \in Int
  BY <1>1, <1>2, <1>6
<1>8. /\ SubSeq(hub.items, m + 1, n) \in Seq(Int)
      /\ Len(SubSeq(hub.items, m + 1, n)) = IF m + 1 <= n THEN n - (m + 1) + 1 ELSE 0
      /\ \A i \in 1 .. n - (m + 1) + 1 : SubSeq(hub.items, m + 1, n)[i] = hub.items[(m + 1) + i - 1]
  BY <1>7, SubSeqProperties
<1>9. Page(p, PageSize) = SubSeq(hub.items, m + 1, n)
  BY <1>3, <1>4, <1>5
<1>10. PICK s : s = SubSeq(hub.items, m + 1, n)
  OBVIOUS
<1>11. Agrees(s, hub.items, m)
  BY <1>2, <1>6, <1>8, <1>10 DEF Agrees
<1>12. Len(s) = (IF m <= Len(hub.items) THEN n - m ELSE 0) /\ Len(s) <= PageSize
  <2>1. n = IF m + PageSize < Len(hub.items) THEN m + PageSize ELSE Len(hub.items)
    BY <1>2, <1>4, <1>5 DEF Least
  <2>2. Len(s) = IF m + 1 <= n THEN n - (m + 1) + 1 ELSE 0
    BY <1>8, <1>10
  <2> QED
    BY <1>2, <2>1, <2>2, SMTT(30)
<1>13. Page(p, PageSize) = s /\ s \in Items
  BY <1>8, <1>9, <1>10 DEF Items
<1> QED
  BY <1>4, <1>5, <1>11, <1>12, <1>13

\* Whatever is read is a sequence.
LEMMA PageTyped ==
    ASSUME hub \in Hubs, NEW p \in Nat \ {0}, NEW n \in Nat
    PROVE  Page(p, n) \in Items /\ From(p, n) \in Nat \ {0}
<1>1. hub.items \in Seq(Int) /\ Len(hub.items) \in Nat
  BY DEF Hubs, Items
<1>2. PICK m \in Nat : m = (p - 1) * n
  <2>1. PICK q \in Nat : q = p - 1
    OBVIOUS
  <2>2. q * n \in Nat
    BY <2>1
  <2> QED
    BY <2>1, <2>2
<1>3. PICK end \in Nat : end = Least(p * n, Len(hub.items))
  <2>1. p * n \in Nat
    OBVIOUS
  <2> QED
    BY <1>1, <2>1 DEF Least
<1>4. end <= Len(hub.items)
  <2>1. p * n \in Nat
    OBVIOUS
  <2> QED
    BY <1>1, <1>3, <2>1 DEF Least
<1>5. \A i \in (m + 1)..end : hub.items[i] \in Int
  BY <1>1, <1>4
<1>6. SubSeq(hub.items, m + 1, end) \in Seq(Int)
  BY <1>5, SubSeqProperties
<1>7. CASE Bare
  BY <1>1, <1>7 DEF Page, From, Items
<1>8. CASE ~Bare
  <2>1. From(p, n) = m + 1 /\ Page(p, n) = SubSeq(hub.items, m + 1, end)
    BY <1>2, <1>3, <1>8 DEF Page, From
  <2> QED
    BY <1>6, <2>1 DEF Items
<1> QED
  BY <1>7, <1>8

\* What is there from a place on.
LEMMA TailShape ==
    ASSUME hub \in Hubs, NEW m \in Nat
    PROVE  /\ SubSeq(hub.items, m + 1, Len(hub.items)) \in Items
           /\ Len(SubSeq(hub.items, m + 1, Len(hub.items))) = IF m <= Len(hub.items) THEN Len(hub.items) - m ELSE 0
           /\ Agrees(SubSeq(hub.items, m + 1, Len(hub.items)), hub.items, m)
<1>1. hub.items \in Seq(Int) /\ Len(hub.items) \in Nat
  BY DEF Hubs, Items
<1>2. \A i \in (m + 1)..Len(hub.items) : hub.items[i] \in Int
  BY <1>1
<1>3. /\ SubSeq(hub.items, m + 1, Len(hub.items)) \in Seq(Int)
      /\ Len(SubSeq(hub.items, m + 1, Len(hub.items))) = IF m + 1 <= Len(hub.items) THEN Len(hub.items) - (m + 1) + 1 ELSE 0
      /\ \A i \in 1 .. Len(hub.items) - (m + 1) + 1 :
            SubSeq(hub.items, m + 1, Len(hub.items))[i] = hub.items[(m + 1) + i - 1]
  BY <1>1, <1>2, SubSeqProperties
<1> QED
  BY <1>1, <1>3 DEF Items, Agrees

\* Another page goes on where the ones before it ended.
LEMMA StretchesOn ==
    ASSUME NEW s \in Items, NEW t \in Items, NEW items \in Items, NEW a \in Nat, NEW first \in Nat, NEW b \in Nat,
           Stretches(s, items, a, first, b), first <= Len(s),
           Agrees(t, items, b + Len(s) - first)
    PROVE  s \o t \in Items /\ Len(s \o t) = Len(s) + Len(t) /\ Stretches(s \o t, items, a, first, b)
<1>1. /\ s \o t \in Items /\ Len(s \o t) = Len(s) + Len(t) /\ Len(s) \in Nat /\ Len(t) \in Nat
      /\ \A i \in 1..(Len(s) + Len(t)) : (s \o t)[i] = IF i <= Len(s) THEN s[i] ELSE t[i - Len(s)]
  BY ConcatProperties DEF Items
<1>2. PICK u : u = s \o t
  OBVIOUS
<1>3. ASSUME NEW i \in 1..Len(u) PROVE u[i] = items[IF i <= first THEN a + i ELSE b + i - first]
  <2>1. CASE i <= Len(s)
    BY <1>1, <1>2, <1>3, <2>1 DEF Stretches
  <2>2. CASE i > Len(s)
    <3>1. u[i] = t[i - Len(s)] /\ i - Len(s) \in 1..Len(t) /\ i > first
      BY <1>1, <1>2, <1>3, <2>2
    <3>2. PICK j \in 1..Len(t) : j = i - Len(s)
      BY <3>1
    <3>3. t[j] = items[b + Len(s) - first + j] /\ b + Len(s) - first + j = b + i - first
      BY <1>1, <3>2 DEF Agrees
    <3> QED
      BY <3>1, <3>2, <3>3
  <2> QED
    BY <1>1, <1>3, <2>1, <2>2
<1> QED
  BY <1>1, <1>2, <1>3 DEF Stretches

\* Stretches of a collection without doubles, the second after the first, have none.
LEMMA StretchesDistinct ==
    ASSUME NEW s \in Items, NEW items \in Items, NEW a \in Nat, NEW first \in Nat, NEW b \in Nat,
           Stretches(s, items, a, first, b), a + first <= b, Distinct(items),
           first <= Len(s), a + first <= Len(items), Len(s) > first => b + Len(s) - first <= Len(items)
    PROVE  Distinct(s)
<1>1. Len(s) \in Nat /\ Len(items) \in Nat /\ DOMAIN s = 1..Len(s) /\ DOMAIN items = 1..Len(items)
  BY DEF Items
<1> SUFFICES ASSUME NEW i \in 1..Len(s), NEW j \in 1..Len(s), s[i] = s[j]
             PROVE  i = j
  BY <1>1 DEF Distinct
<1>2. PICK x \in 1..Len(items) : x = IF i <= first THEN a + i ELSE b + i - first
  <2>1. (IF i <= first THEN a + i ELSE b + i - first) \in 1..Len(items)
    BY <1>1
  <2> QED
    BY <2>1
<1>3. PICK y \in 1..Len(items) : y = IF j <= first THEN a + j ELSE b + j - first
  <2>1. (IF j <= first THEN a + j ELSE b + j - first) \in 1..Len(items)
    BY <1>1
  <2> QED
    BY <2>1
<1>4. items[x] = items[y]
  BY <1>2, <1>3 DEF Stretches
<1>5. x = y
  BY <1>1, <1>4 DEF Distinct
<1> QED
  BY <1>1, <1>2, <1>3, <1>5

\* A sequence without doubles has as many elements as places.
LEMMA DistinctCounts ==
    ASSUME NEW s \in Items, Distinct(s)
    PROVE  Cardinality({s[j] : j \in DOMAIN s}) = Len(s)
<1>1. Len(s) \in Nat /\ DOMAIN s = 1..Len(s)
  BY DEF Items
<1>2. IsFiniteSet(1..Len(s)) /\ Cardinality(1..Len(s)) = Len(s)
  <2>1. 1 \in Int /\ Len(s) \in Int
    BY <1>1
  <2>2. IsFiniteSet(1..Len(s)) /\ Cardinality(1..Len(s)) = (IF 1 > Len(s) THEN 0 ELSE Len(s) - 1 + 1)
    BY <2>1, FS_Interval
  <2> QED
    BY <1>1, <2>2
<1>3. s \in Bijection(DOMAIN s, {s[j] : j \in DOMAIN s})
  <2>1. s \in [DOMAIN s -> {s[j] : j \in DOMAIN s}]
    BY DEF Items
  <2> QED
    BY <2>1 DEF Distinct, Bijection, Injection, Surjection, IsInjective
<1>4. IsFiniteSet(DOMAIN s) /\ ExistsBijection(DOMAIN s, {s[j] : j \in DOMAIN s})
  BY <1>1, <1>2, <1>3 DEF ExistsBijection
<1>5. Cardinality({s[j] : j \in DOMAIN s}) = Cardinality(DOMAIN s)
  BY <1>4, FS_Bijection
<1> QED
  BY <1>1, <1>2, <1>5

\* A sequence that agrees with a longer one is its prefix.
LEMMA AgreeIsPrefix ==
    ASSUME NEW s \in Items, NEW t \in Items, Len(s) <= Len(t), \A i \in 1..Len(s) : s[i] = t[i]
    PROVE  IsPrefix(s, t)
<1>1. Len(s) \in Nat /\ Len(t) \in Nat
  BY DEF Items
<1>2. /\ \A i \in 1..Len(s) : s[i] \in Int /\ t[i] \in Int
  BY <1>1 DEF Items
<1>3. /\ SubSeq(s, 1, Len(s)) \in Seq(Int) /\ SubSeq(t, 1, Len(s)) \in Seq(Int)
      /\ Len(SubSeq(s, 1, Len(s))) = Len(s) /\ Len(SubSeq(t, 1, Len(s))) = Len(s)
      /\ \A i \in 1..Len(s) : SubSeq(s, 1, Len(s))[i] = s[i] /\ SubSeq(t, 1, Len(s))[i] = t[i]
  <2>1. /\ SubSeq(s, 1, Len(s)) \in Seq(Int)
        /\ Len(SubSeq(s, 1, Len(s))) = (IF 1 <= Len(s) THEN Len(s) - 1 + 1 ELSE 0)
        /\ \A i \in 1..(Len(s) - 1 + 1) : SubSeq(s, 1, Len(s))[i] = s[1 + i - 1]
    BY <1>1, <1>2, SubSeqProperties
  <2>2. /\ SubSeq(t, 1, Len(s)) \in Seq(Int)
        /\ Len(SubSeq(t, 1, Len(s))) = (IF 1 <= Len(s) THEN Len(s) - 1 + 1 ELSE 0)
        /\ \A i \in 1..(Len(s) - 1 + 1) : SubSeq(t, 1, Len(s))[i] = t[1 + i - 1]
    BY <1>1, <1>2, SubSeqProperties
  <2> QED
    BY <1>1, <2>1, <2>2
<1>4. SubSeq(s, 1, Len(s)) = SubSeq(t, 1, Len(s))
  BY <1>3, SeqEqual
<1> QED
  BY <1>4 DEF IsPrefix

--------------------------------------------------------------------------------
(* Reading a page.                                                          *)

\* What PageRead makes of the page it asks for.
IsFirst == list.total = 0 /\ list.got = <<>>
PageNow == Page(list.page, list.size)
GotNow == list.got \o PageNow
TotalNow == IF IsFirst THEN TotalOf(PageNow) ELSE list.total
CurrentNow == IF IsFirst THEN PageOf(list.page) ELSE list.page
SizeNow == IF IsFirst THEN SizeOf(PageNow) ELSE list.size
WholeNow ==
    IF ~IsFirst THEN list.whole
    ELSE IF Op.all THEN SubSeq(hub.items, From(list.page, list.size), Len(hub.items)) ELSE PageNow
More == GoesOn(PageNow, GotNow, TotalNow, IsFirst)
ListNow == [kind |-> "list", got |-> GotNow, whole |-> WholeNow, sure |-> Enough /\ ~list.shifted]
ReadsOn ==
    list' = [list EXCEPT !.page = CurrentNow + 1, !.size = SizeNow, !.got = GotNow, !.total = TotalNow, !.whole = WholeNow]

\* The cases of PageRead.
LEMMA PageReadCases ==
    ASSUME PageRead
    PROVE  /\ node.phase = "rest" /\ Lists /\ UNCHANGED hub
           /\ \/ More /\ CurrentNow < MaxPages /\ ReadsOn /\ UNCHANGED <<node, try, socks, out>>
              \/ Fails("plain", socks)
              \/ ~More /\ ItemEnds(ListNow, socks)
BY Zenon DEF PageRead, IsFirst, PageNow, GotNow, TotalNow, CurrentNow, SizeNow, WholeNow, More, ListNow, ReadsOn

\* The types of what is read.
LEMMA ReadTyped ==
    ASSUME hub \in Hubs, list \in Readings, Op \in Operations
    PROVE  /\ PageNow \in Items /\ GotNow \in Items /\ TotalNow \in Nat /\ WholeNow \in Items
           /\ CurrentNow \in Nat \ {0} /\ SizeNow \in Nat
<1>1. /\ list.page \in Nat \ {0} /\ list.size \in Nat /\ list.got \in Items /\ list.whole \in Items /\ list.total \in Nat
      /\ hub.items \in Items /\ Len(hub.items) \in Nat
  BY DEF Readings, Hubs, Items
<1>2. PageNow \in Items /\ From(list.page, list.size) \in Nat \ {0}
  BY <1>1, PageTyped DEF PageNow
<1>3. GotNow \in Items /\ Len(PageNow) \in Nat
  BY <1>1, <1>2 DEF GotNow, Items
<1>4. PICK m \in Nat : From(list.page, list.size) = m + 1
  <2>1. From(list.page, list.size) - 1 \in Nat
    BY <1>2
  <2> QED
    BY <1>2, <2>1
<1>5. SubSeq(hub.items, m + 1, Len(hub.items)) \in Items
  BY TailShape
<1>6. TotalNow \in Nat /\ CurrentNow \in Nat \ {0} /\ SizeNow \in Nat
  BY <1>1, <1>3 DEF TotalNow, CurrentNow, SizeNow, TotalOf, PageOf, SizeOf
<1> QED
  BY <1>1, <1>2, <1>3, <1>4, <1>5, <1>6 DEF WholeNow

\* The reading after another page.
LEMMA ReadingGoesOn ==
    ASSUME hub \in Hubs, list \in Readings, Op \in Operations, ReadsOn
    PROVE  /\ list' \in Readings /\ list'.page = CurrentNow + 1 /\ list'.size = SizeNow /\ list'.got = GotNow
           /\ list'.total = TotalNow /\ list'.whole = WholeNow /\ list'.shifted = list.shifted
<1>1. /\ GotNow \in Items /\ TotalNow \in Nat /\ WholeNow \in Items
      /\ CurrentNow \in Nat \ {0} /\ SizeNow \in Nat
  BY ReadTyped
<1>2. PICK p \in Nat \ {0} : p = CurrentNow + 1
  BY <1>1
<1>3. list' = [list EXCEPT !.page = p, !.size = SizeNow, !.got = GotNow, !.total = TotalNow, !.whole = WholeNow]
  BY <1>2 DEF ReadsOn
<1>4. /\ list' \in Readings /\ list'.page = p /\ list'.size = SizeNow /\ list'.got = GotNow
      /\ list'.total = TotalNow /\ list'.whole = WholeNow /\ list'.shifted = list.shifted
  BY <1>1, <1>3 DEF Readings
<1> QED
  BY <1>2, <1>4

\* An output of a list.
LEMMA ListTyped ==
    ASSUME NEW got \in Items, NEW whole \in Items, list \in Readings
    PROVE  [kind |-> "list", got |-> got, whole |-> whole, sure |-> Enough /\ ~list.shifted] \in Results
<1>1. got \in Seq(Int) /\ whole \in Seq(Int) /\ (Enough /\ ~list.shifted) \in BOOLEAN
  BY DEF Items, Readings
<1> QED
  BY <1>1 DEF Results

\* PageRead.
LEMMA PageReadKeeps == CallInv /\ PageRead => CallInv'
<1> SUFFICES ASSUME CallInv, PageRead PROVE CallInv'
  OBVIOUS
<1>1. node.phase = "rest" /\ Lists /\ UNCHANGED hub
  BY PageReadCases
<1>2. node.item <= Len(node.plan) /\ Op \in Operations /\ hub \in Hubs /\ list \in Readings /\ socks \in Sockets
  BY <1>1, InACall, OpIsOperation DEF CallInv
<1>3. GotNow \in Items /\ TotalNow \in Nat /\ WholeNow \in Items
  BY <1>2, ReadTyped
<1>4. CASE ReadsOn /\ UNCHANGED <<node, try, socks, out>>
  <2>1. list' \in Readings
    BY <1>2, <1>4, ReadingGoesOn
  <2>2. /\ socks' \in Sockets /\ Len(socks') = Len(socks) /\ node' \in Nodes /\ hub' \in Hubs
        /\ socks'[node.cur].taken = socks[node.cur].taken
        /\ node'.plan = node.plan /\ node'.item = node.item /\ node'.phase = node.phase /\ node'.cur = node.cur
        /\ try' = try /\ out' = out /\ hub'.effects = hub.effects /\ hub'.keys = hub.keys
    BY <1>1, <1>2, <1>4, InACall
  <2> QED
    BY <2>1, <2>2, SocketsMove
<1>5. CASE Fails("plain", socks)
  <2>1. HubStep
    BY <1>1, <1>2, UnchangedHubStep
  <2>2. Len(socks) = Len(socks)
    BY InACall
  <2> QED
    BY <1>1, <1>2, <1>5, <2>1, <2>2, FailsKeeps
<1>6. CASE ItemEnds(ListNow, socks)
  <2>1. ListNow \in Results /\ ListNow.kind # "did"
    BY <1>2, <1>3, ListTyped DEF ListNow
  <2> QED
    BY <1>1, <1>2, <1>6, <2>1, ItemEndsAlone
<1> QED
  BY <1>4, <1>5, <1>6, PageReadCases

--------------------------------------------------------------------------------
(* Effects.                                                                 *)

\* What the hub does for the current item, if a key does not tell it that it has done so.
LEMMA EffectShape ==
    ASSUME CallInv, node.item \in DOMAIN node.plan, Effect
    PROVE  /\ hub' \in Hubs /\ hub'.items = hub.items /\ hub'.bare = hub.bare /\ hub'.tells = hub.tells /\ hub'.changes = hub.changes
           /\ \A j \in DOMAIN node.plan :
            j # node.item => hub'.effects[j] = hub.effects[j] /\ (j \in hub'.keys <=> j \in hub.keys)
           /\ node.item \in hub'.keys /\ hub'.effects[node.item] > 0
           /\ hub'.effects[node.item] = IF Op.keyed /\ node.item \in hub.keys THEN hub.effects[node.item]
                                        ELSE hub.effects[node.item] + 1
<1>1. hub \in Hubs /\ hub.effects \in [DOMAIN node.plan -> Nat] /\ hub.keys \in SUBSET Nat /\ node.item \in Nat
  BY InACall DEF Hubs, Nodes
<1>2. CASE Op.keyed /\ node.item \in hub.keys
  <2>1. hub' = hub
    BY <1>2 DEF Effect
  <2> QED
    BY <1>1, <1>2, <2>1 DEF CallInv, EffectsSoFar
<1>3. CASE ~(Op.keyed /\ node.item \in hub.keys)
  <2>1. PICK n \in Nat : n = hub.effects[node.item] + 1
    BY <1>1
  <2>2. PICK effects \in [DOMAIN node.plan -> Nat] : effects = [hub.effects EXCEPT ![node.item] = n]
    BY <1>1
  <2>3. PICK keys \in SUBSET Nat : keys = hub.keys \union {node.item}
    BY <1>1
  <2>4. hub' = [hub EXCEPT !.effects = effects, !.keys = keys]
    BY <1>1, <1>3, <2>1, <2>2, <2>3 DEF Effect, Hubs
  <2>5. /\ hub' \in Hubs /\ hub'.items = hub.items /\ hub'.bare = hub.bare /\ hub'.tells = hub.tells /\ hub'.changes = hub.changes
        /\ hub'.effects = effects /\ hub'.keys = keys
    BY <1>1, <2>4 DEF Hubs
  <2>6. effects[node.item] = n /\ \A j \in DOMAIN node.plan : j # node.item => effects[j] = hub.effects[j]
    BY <1>1, <2>2
  <2> QED
    BY <1>1, <1>3, <2>1, <2>3, <2>5, <2>6
<1> QED
  BY <1>2, <1>3

\* An effect of an item that has had none, or of a keyed one, is within bounds.
LEMMA EffectIsHubStep ==
    ASSUME CallInv, node.item \in DOMAIN node.plan, Effect,
           \/ hub.effects[node.item] = 0
           \/ Op.socket /\ hub.effects[node.item] <= 1
    PROVE  HubStep
<1>1. hub \in Hubs /\ hub.effects[node.item] \in Nat /\ Op \in Operations
  BY InACall, OpIsOperation DEF Hubs, Nodes, AllPlans, Op
<1>2. \A j \in DOMAIN node.plan : j \in hub.keys <=> hub.effects[j] > 0
  BY DEF CallInv, EffectsSoFar
<1>3. /\ hub' \in Hubs /\ hub'.effects[node.item] > 0 /\ node.item \in hub'.keys
      /\ \A j \in DOMAIN node.plan :
            j # node.item => hub'.effects[j] = hub.effects[j] /\ (j \in hub'.keys <=> j \in hub.keys)
      /\ hub'.effects[node.item] = IF Op.keyed /\ node.item \in hub.keys THEN hub.effects[node.item]
                                   ELSE hub.effects[node.item] + 1
  BY EffectShape
<1>4. ASSUME NEW j \in DOMAIN node.plan PROVE j \in hub'.keys <=> hub'.effects[j] > 0
  <2>1. CASE j = node.item
    BY <1>3, <2>1
  <2>2. CASE j # node.item
    BY <1>2, <1>3, <2>2
  <2> QED
    BY <2>1, <2>2
<1>5. hub'.effects[node.item] <= IF Op.socket /\ ~Op.keyed THEN 2 ELSE 1
  <2>1. CASE hub.effects[node.item] = 0
    BY <1>3, <2>1
  <2>2. CASE Op.socket /\ hub.effects[node.item] = 1
    BY <1>2, <1>3, <2>2
  <2> QED
    BY <1>1, <2>1, <2>2
<1>6. hub' \in Hubs /\ \A j \in DOMAIN node.plan : j # node.item => hub'.effects[j] = hub.effects[j]
  BY <1>3
<1> QED
  BY <1>4, <1>5, <1>6 DEF HubStep

\* ResourceRead, and requests that are turned down.
LEMMA RestKeeps == CallInv /\ (ResourceRead \/ Refused) => CallInv'
<1> SUFFICES ASSUME CallInv, ResourceRead \/ Refused PROVE CallInv'
  OBVIOUS
<1>1. node.phase = "rest" /\ UNCHANGED hub /\ node.item <= Len(node.plan) /\ socks \in Sockets
  BY InACall DEF ResourceRead, Refused
<1>2. CASE ItemEnds([kind |-> "detail"], socks)
  <2>1. [kind |-> "detail"] \in Results /\ [kind |-> "detail"].kind # "did"
    BY DEF Results
  <2> QED
    BY <1>1, <1>2, <2>1, ItemEndsAlone
<1>3. CASE Refused
  <2>1. PICK e \in Errors : Fails(e, socks)
    BY <1>3 DEF Refused
  <2>2. HubStep /\ Len(socks) = Len(socks)
    BY <1>1, UnchangedHubStep, InACall
  <2> QED
    BY <1>1, <2>1, <2>2, FailsKeeps
<1> QED
  BY <1>2, <1>3 DEF ResourceRead

\* Carried.
LEMMA CarriedKeeps == CallInv /\ Carried => CallInv'
<1> SUFFICES ASSUME CallInv, Carried PROVE CallInv'
  OBVIOUS
<1>1. node.phase = "rest" /\ Changes /\ Effect /\ node.item <= Len(node.plan) /\ socks \in Sockets
  BY InACall DEF Carried
<1>2. node.item \in DOMAIN node.plan /\ hub.effects[node.item] = 0
  BY <1>1, OpIsOperation DEF CallInv, EffectsSoFar
<1>3. HubStep
  BY <1>1, <1>2, EffectIsHubStep
<1>4. CASE ItemEnds([kind |-> "did"], socks)
  <2>1. [kind |-> "did"] \in Results
    BY DEF Results
  <2>2. hub'.effects[node.item] > 0
    BY <1>1, <1>2, EffectShape
  <2>3. Op.does = "publishSocketEvent" => Readable(Op.event)
    BY <1>1 DEF CallInv, LoopOK, Publishable, Readable, WithinLimits
  <2> QED
    BY <1>1, <1>3, <1>4, <2>1, <2>2, <2>3, ItemEndsKeeps
<1>5. ASSUME NEW e \in {"transient", "plain"}, Fails(e, socks) PROVE CallInv'
  <2>1. e # "expired" /\ Op.does \notin ClientReads \cup UserReads
    BY <1>1 DEF Changes, ClientReads, UserReads, ClientChanges, UserChanges
  <2>2. Len(socks) = Len(socks)
    BY InACall
  <2> QED
    BY <1>1, <1>3, <1>5, <2>1, <2>2, FailsKeeps
<1> QED
  BY <1>4, <1>5 DEF Carried

\* PublishTaken.
LEMMA PublishTakenKeeps ==
    ASSUME CallInv, NEW k \in DOMAIN socks, PublishTaken(k)
    PROVE  CallInv'
<1>1. /\ k = node.cur /\ ~socks[k].taken /\ Effect /\ UNCHANGED <<node, try, list, out>>
      /\ socks' = [socks EXCEPT ![k].taken = TRUE]
  BY DEF PublishTaken
<1>2. /\ node.phase = "socket" /\ Op.socket /\ node.item <= Len(node.plan) /\ node.item \in DOMAIN node.plan
      /\ socks \in Sockets /\ node \in Nodes /\ list \in Readings /\ hub \in Hubs /\ out \in Outputs
      /\ hub.effects[node.item] \in Nat /\ Op \in Operations
  <2>1. /\ node.phase = "socket" /\ Op.socket /\ node.item <= Len(node.plan)
        /\ socks \in Sockets /\ node \in Nodes /\ list \in Readings /\ hub \in Hubs /\ out \in Outputs
    BY <1>1, InACall
  <2>2. node.item \in DOMAIN node.plan /\ Op \in Operations
    BY <2>1, OpIsOperation DEF CallInv
  <2> QED
    BY <2>1, <2>2 DEF Hubs
<1>3. hub.effects[node.item] <= (IF try.renewed THEN 1 ELSE 0) /\ (Op.keyed => hub.effects[node.item] <= 1)
  BY <1>1, <1>2 DEF CallInv, EffectsSoFar, UsedUp
<1>4. HubStep
  BY <1>1, <1>2, <1>3, EffectIsHubStep
<1>5. socks' \in Sockets /\ Len(socks') = Len(socks) /\ socks'[k].taken
  <2>1. socks[k] \in Socks /\ TRUE \in BOOLEAN
    BY InACall
  <2>2. [socks[k] EXCEPT !.taken = TRUE] \in Socks /\ [socks[k] EXCEPT !.taken = TRUE].taken
    BY <2>1, SocketChanges
  <2>3. socks' = With(socks, k, [socks[k] EXCEPT !.taken = TRUE])
    BY <1>1 DEF With
  <2>4. PICK x \in Socks : x = [socks[k] EXCEPT !.taken = TRUE] /\ x.taken
    BY <2>2
  <2>5. With(socks, k, x) \in Sockets /\ Len(With(socks, k, x)) = Len(socks) /\ With(socks, k, x)[k] = x
    BY <1>2, WithTyped
  <2> QED
    BY <2>3, <2>4, <2>5
<1>6. /\ hub' \in Hubs /\ hub'.effects[node.item] > 0
      /\ \A j \in DOMAIN node.plan : j # node.item => hub'.effects[j] = hub.effects[j]
      /\ hub'.effects[node.item] = IF Op.keyed /\ node.item \in hub.keys THEN hub.effects[node.item]
                                   ELSE hub.effects[node.item] + 1
  BY <1>1, <1>2, EffectShape
<1>7. TypeOK'
  <2>1. hub' \in Hubs'
    BY <1>1, <1>6 DEF Hubs
  <2> QED
    BY <2>1, <1>1, <1>2, <1>5 DEF CallInv, TypeOK
<1>8. Op' = Op /\ node' = node
  BY <1>1 DEF Op
<1>9. PlanOK' /\ LoopOK'
  BY <1>1, <1>5, <1>8 DEF CallInv, PlanOK, LoopOK
<1>10. hub'.effects[node.item] <= UsedUp'
  <2>1. UsedUp' = (IF try.renewed THEN 1 ELSE 0) + 1
    BY <1>1, <1>5 DEF UsedUp
  <2> QED
    BY <1>2, <1>3, <1>6, <2>1
<1>11. EffectsSoFar'
  <2>1. Op.keyed => hub'.effects[node.item] <= 1
    BY <1>4, <1>2 DEF HubStep
  <2>2. \A j \in DOMAIN node.plan : j > node.item => hub'.effects[j] = 0
    <3>1. node.item \in Nat
      BY <1>2 DEF Nodes
    <3> QED
      BY <1>6, <3>1 DEF CallInv, EffectsSoFar
  <2> QED
    BY <1>1, <1>2, <1>4, <1>5, <1>6, <1>8, <1>10, <2>1, <2>2 DEF CallInv, EffectsSoFar, HubStep
<1>12. EffectsOnce'
  <2>1. \A i \in DOMAIN hub'.effects :
            hub'.effects[i] <= IF node.plan[i].socket /\ ~node.plan[i].keyed THEN 2 ELSE 1
    <3> TAKE i \in DOMAIN hub'.effects
    <3>1. i \in DOMAIN node.plan /\ i \in DOMAIN hub.effects
      BY <1>2, <1>6 DEF Hubs
    <3> QED
      BY <1>4, <3>1 DEF CallInv, HubStep, EffectsOnce, Op
  <2>2. ASSUME NEW i \in DOMAIN out, out[i].kind = "did"
        PROVE  hub'.effects[i] > 0 /\ (node.plan[i].does = "publishSocketEvent" => Readable(node.plan[i].event))
    <3>1. i < node.item /\ i \in DOMAIN node.plan
      <4>1. i \in 1..Len(out) /\ Len(out) = node.item - 1 /\ node.item \in Nat /\ Len(node.plan) \in Nat
            /\ DOMAIN node.plan = 1..Len(node.plan)
        BY <1>2 DEF CallInv, LoopOK, Outputs, Nodes, AllPlans
      <4> QED
        BY <1>2, <4>1
    <3> QED
      BY <1>2, <1>6, <2>2, <3>1 DEF CallInv, EffectsOnce, Nodes
  <2> QED
    BY <1>8, <1>1, <2>1, <2>2 DEF EffectsOnce
<1> QED
  BY <1>7, <1>9, <1>11, <1>12 DEF CallInv

\* Published.
LEMMA PublishedKeeps ==
    ASSUME CallInv, NEW k \in DOMAIN socks, Published(k)
    PROVE  CallInv'
<1>1. k = node.cur /\ At(k, "publishing") /\ socks[k].taken /\ UNCHANGED hub /\ ItemEnds([kind |-> "did"], Dropped(k, FALSE))
  BY DEF Published
<1>2. node.phase = "socket" /\ Op.socket /\ node.item <= Len(node.plan) /\ socks \in Sockets
  BY <1>1, InACall
<1>3. Alike(Dropped(k, FALSE))
  <2>1. "gone" \in Stages
    BY DEF Stages
  <2> QED
    BY <1>2, <2>1, SocketsAlike
<1>4. hub'.effects[node.item] > 0
  BY <1>1, <1>2 DEF CallInv, EffectsSoFar
<1>5. Op.does = "publishSocketEvent" => Readable(Op.event)
  BY <1>2 DEF CallInv, LoopOK, Publishable, Readable, WithinLimits
<1>6. HubStep /\ [kind |-> "did"] \in Results
  BY <1>1, <1>2, UnchangedHubStep DEF Results
<1> QED
  BY <1>1, <1>2, <1>3, <1>4, <1>5, <1>6, ItemEndsKeeps DEF Alike

\* EventArrives.
LEMMA EventArrivesKeeps ==
    ASSUME CallInv, NEW k \in DOMAIN socks, EventArrives(k)
    PROVE  CallInv'
<1>1. k = node.cur
  BY DEF EventArrives
<1>2. node.phase = "socket" /\ node.item <= Len(node.plan) /\ socks \in Sockets
  BY <1>1, InACall
<1>3. PICK e \in Events :
        \/ Closes(k, IF Readable(e) THEN [kind |-> "event"] ELSE [kind |-> "error", err |-> "plain"])
        \/ /\ UNCHANGED hub
           /\ IF Readable(e) THEN ItemEnds([kind |-> "event"], socks) ELSE Fails("plain", socks)
  BY DEF EventArrives
<1>4. CASE Closes(k, IF Readable(e) THEN [kind |-> "event"] ELSE [kind |-> "error", err |-> "plain"])
  <2>1. (IF Readable(e) THEN [kind |-> "event"] ELSE [kind |-> "error", err |-> "plain"]) \in Verdicts
    BY DEF Verdicts, Errors
  <2> QED
    BY <1>4, <2>1, ClosesKeeps
<1>5. CASE UNCHANGED hub /\ ItemEnds([kind |-> "event"], socks)
  <2>1. [kind |-> "event"] \in Results /\ [kind |-> "event"].kind # "did"
    BY DEF Results
  <2> QED
    BY <1>2, <1>5, <2>1, ItemEndsAlone
<1>6. CASE UNCHANGED hub /\ Fails("plain", socks)
  <2>1. HubStep /\ Len(socks) = Len(socks)
    BY <1>2, <1>6, UnchangedHubStep, InACall
  <2> QED
    BY <1>2, <1>6, <2>1, FailsKeeps
<1> QED
  BY <1>3, <1>4, <1>5, <1>6

\* Subscribed.
LEMMA SubscribedKeeps ==
    ASSUME CallInv, NEW k \in DOMAIN socks, Subscribed(k)
    PROVE  CallInv'
<1>1. CASE Stays(k, "listening")
  <2>1. "listening" \in Stages /\ socks \in Sockets
    BY InACall DEF Stages
  <2>2. Alike(socks') /\ UNCHANGED <<node, try, list, hub, out>>
    BY <1>1, <2>1, SocketsAlike DEF Stays
  <2> QED
    BY <2>2, SocketsOnly
<1>2. CASE Closes(k, Open)
  <2>1. Open \in Verdicts
    BY DEF Verdicts
  <2> QED
    BY <1>2, <2>1, ClosesKeeps
<1> QED
  BY <1>1, <1>2 DEF Subscribed

\* The steps that a socket is lost, given up or moved on with.
LEMMA SocketStepsKeep ==
    ASSUME CallInv, NEW k \in DOMAIN socks,
           ReadyDecoded(k) \/ ConnectFails(k) \/ AckFails(k) \/ ListenFails(k) \/ ConnectionReady(k) \/ DropsUnheard(k)
    PROVE  CallInv'
<1>1. socks \in Sockets /\ socks[k] \in Socks /\ socks[k].beat \in BOOLEAN
  BY InACall DEF Socks
<1>2. CASE ReadyDecoded(k)
  <2>1. CASE GivesUp(k, "plain", socks[k].beat) /\ UNCHANGED hub
    BY <1>1, <2>1, GivesUpKeeps
  <2>2. CASE /\ socks' = [Moved(k, IF socks[k].waits THEN "subscribing" ELSE "publishing") EXCEPT ![k].met = TRUE]
             /\ UNCHANGED <<node, try, list, hub, out>>
    <3>1. PICK stage \in Stages : stage = IF socks[k].waits THEN "subscribing" ELSE "publishing"
      BY DEF Stages
    <3>2. Alike([Moved(k, stage) EXCEPT ![k].met = TRUE])
      BY <1>1, SocketsAlike
    <3> QED
      BY <2>2, <3>1, <3>2, SocketsOnly
  <2> QED
    BY <1>2, <2>1, <2>2 DEF ReadyDecoded
<1>3. CASE ConnectFails(k)
  BY <1>1, <1>3, GivesUpKeeps DEF ConnectFails
<1>4. CASE AckFails(k)
  BY <1>1, <1>4, GivesUpKeeps DEF AckFails
<1>5. CASE ListenFails(k)
  <2>1. PICK e \in Errors : Closes(k, [kind |-> "error", err |-> e])
    BY <1>5 DEF ListenFails
  <2>2. [kind |-> "error", err |-> e] \in Verdicts
    BY DEF Verdicts
  <2> QED
    BY <2>1, <2>2, ClosesKeeps
<1>6. CASE ConnectionReady(k)
  <2>1. "decoding" \in Stages
    BY DEF Stages
  <2>2. Alike([Moved(k, "decoding") EXCEPT ![k].up = TRUE])
    BY <1>1, <2>1, SocketsAlike
  <2> QED
    BY <1>6, <2>2, SocketsOnly DEF ConnectionReady
<1>7. CASE DropsUnheard(k)
  <2>1. Alike([socks EXCEPT ![k].up = FALSE])
    <3>1. "gone" \in Stages
      BY DEF Stages
    <3> QED
      BY <1>1, <3>1, SocketsAlike
  <2> QED
    BY <1>7, <2>1, SocketsOnly DEF DropsUnheard
<1> QED
  BY <1>2, <1>3, <1>4, <1>5, <1>6, <1>7

\* Closed.
LEMMA ClosedKeeps ==
    ASSUME CallInv, NEW k \in DOMAIN socks, Closed(k)
    PROVE  CallInv'
<1>1. Alike(Dropped(k, FALSE)) /\ UNCHANGED hub /\ socks \in Sockets
  <2>1. "gone" \in Stages /\ socks \in Sockets
    BY InACall DEF Stages
  <2> QED
    BY <2>1, SocketsAlike DEF Closed
<1>2. CASE k # node.cur
  BY <1>1, <1>2, SocketsOnly DEF Closed
<1>3. CASE k = node.cur
  <2>1. node.phase = "socket" /\ node.item <= Len(node.plan) /\ HubStep
    <3>1. node.phase = "socket" /\ node.item <= Len(node.plan)
      BY <1>3, InACall
    <3> QED
      BY <1>1, <3>1, UnchangedHubStep
  <2>2. Dropped(k, FALSE) \in Sockets /\ Len(Dropped(k, FALSE)) = Len(socks)
    BY <1>1 DEF Alike
  <2>3. CASE node.verdict.kind = "event" /\ ItemEnds(node.verdict, Dropped(k, FALSE))
    <3>1. node.verdict \in Results
      <4>1. node.verdict \in Verdicts
        BY InACall DEF Nodes
      <4>2. node.verdict = [kind |-> "event"]
        BY <2>3, <4>1 DEF Verdicts, Open
      <4> QED
        BY <4>2 DEF Results
    <3> QED
      BY <1>1, <2>1, <2>2, <2>3, <3>1, ItemEndsAlone
  <2>4. CASE Fails(node.verdict.err, Dropped(k, FALSE))
    BY <1>1, <2>1, <2>2, <2>4, FailsKeeps
  <2> QED
    BY <1>3, <2>3, <2>4 DEF Closed
<1> QED
  BY <1>2, <1>3

\* What is left when an item is taken away: nothing twice, nothing new.
LEMMA RemoveAtShape ==
    ASSUME NEW s \in Items, NEW i \in 1..Len(s)
    PROVE  /\ RemoveAt(s, i) \in Items /\ Len(RemoveAt(s, i)) = Len(s) - 1
           /\ \A j \in 1..Len(RemoveAt(s, i)) : RemoveAt(s, i)[j] = s[IF j < i THEN j ELSE j + 1]
<1>1. s \in Seq(Int) /\ Len(s) \in Nat
  BY DEF Items
<1>2. /\ SubSeq(s, 1, i - 1) \in Seq(Int) /\ Len(SubSeq(s, 1, i - 1)) = i - 1
      /\ \A j \in 1..(i - 1) : SubSeq(s, 1, i - 1)[j] = s[j]
  <2>1. \A j \in 1..(i - 1) : s[j] \in Int
    BY <1>1
  <2>2. /\ SubSeq(s, 1, i - 1) \in Seq(Int)
        /\ Len(SubSeq(s, 1, i - 1)) = (IF 1 <= i - 1 THEN (i - 1) - 1 + 1 ELSE 0)
        /\ \A j \in 1..((i - 1) - 1 + 1) : SubSeq(s, 1, i - 1)[j] = s[1 + j - 1]
    BY <1>1, <2>1, SubSeqProperties
  <2> QED
    BY <1>1, <2>2
<1>3. /\ SubSeq(s, i + 1, Len(s)) \in Seq(Int) /\ Len(SubSeq(s, i + 1, Len(s))) = Len(s) - i
      /\ \A j \in 1..(Len(s) - i) : SubSeq(s, i + 1, Len(s))[j] = s[i + j]
  <2>1. \A j \in (i + 1)..Len(s) : s[j] \in Int
    BY <1>1
  <2>2. /\ SubSeq(s, i + 1, Len(s)) \in Seq(Int)
        /\ Len(SubSeq(s, i + 1, Len(s))) = (IF i + 1 <= Len(s) THEN Len(s) - (i + 1) + 1 ELSE 0)
        /\ \A j \in 1..(Len(s) - (i + 1) + 1) : SubSeq(s, i + 1, Len(s))[j] = s[(i + 1) + j - 1]
    BY <1>1, <2>1, SubSeqProperties
  <2> QED
    BY <1>1, <2>2
<1>4. PICK x \in Seq(Int) : x = SubSeq(s, 1, i - 1)
  BY <1>2
<1>5. PICK y \in Seq(Int) : y = SubSeq(s, i + 1, Len(s))
  BY <1>3
<1>6. RemoveAt(s, i) = x \o y
  BY <1>4, <1>5 DEF RemoveAt
<1>7. /\ x \o y \in Seq(Int) /\ Len(x \o y) = Len(x) + Len(y)
      /\ \A j \in 1..(Len(x) + Len(y)) : (x \o y)[j] = IF j <= Len(x) THEN x[j] ELSE y[j - Len(x)]
  BY ConcatProperties
<1>8. /\ Len(x) = i - 1 /\ Len(y) = Len(s) - i
      /\ \A j \in 1..(i - 1) : x[j] = s[j]
      /\ \A j \in 1..(Len(s) - i) : y[j] = s[i + j]
  BY <1>2, <1>3, <1>4, <1>5
<1>9. ASSUME NEW j \in 1..(Len(s) - 1) PROVE (x \o y)[j] = s[IF j < i THEN j ELSE j + 1]
  <2>1. CASE j < i
    <3>1. j \in 1..(i - 1) /\ j \in 1..(Len(x) + Len(y)) /\ j <= Len(x)
      BY <1>1, <1>8, <2>1
    <3> QED
      BY <1>7, <1>8, <2>1, <3>1
  <2>2. CASE j >= i
    <3>1. PICK k \in 1..(Len(s) - i) : k = j - (i - 1)
      <4>1. j - (i - 1) \in 1..(Len(s) - i)
        BY <1>1, <2>2
      <4> QED
        BY <4>1
    <3>2. j \in 1..(Len(x) + Len(y)) /\ ~(j <= Len(x)) /\ j - Len(x) = k /\ i + k = j + 1 /\ ~(j < i)
      BY <1>1, <1>8, <2>2, <3>1
    <3>3. (x \o y)[j] = y[k] /\ y[k] = s[i + k]
      BY <1>7, <1>8, <3>1, <3>2
    <3> QED
      BY <3>2, <3>3
  <2>3. j < i \/ j >= i
    BY <1>1
  <2> QED
    BY <2>1, <2>2, <2>3
<1>10. Len(x \o y) = Len(s) - 1
  BY <1>1, <1>7, <1>8
<1> QED
  BY <1>6, <1>7, <1>9, <1>10 DEF Items

\* Taking an item away leaves nothing twice, and nothing that was not there.
LEMMA RemoveAtDistinct ==
    ASSUME NEW s \in Items, NEW i \in 1..Len(s), Distinct(s), NEW low \in Int, \A a \in DOMAIN s : s[a] > low
    PROVE  Distinct(RemoveAt(s, i)) /\ \A a \in DOMAIN RemoveAt(s, i) : RemoveAt(s, i)[a] > low
<1>1. PICK t \in Items : t = RemoveAt(s, i)
  BY RemoveAtShape
<1>2. /\ Len(t) = Len(s) - 1 /\ Len(s) \in Nat /\ DOMAIN s = 1..Len(s) /\ DOMAIN t = 1..Len(t)
      /\ \A j \in 1..Len(t) : t[j] = s[IF j < i THEN j ELSE j + 1]
  BY <1>1, RemoveAtShape, SMTT(30) DEF Items
<1>3. ASSUME NEW a \in 1..Len(t), NEW b \in 1..Len(t), t[a] = t[b] PROVE a = b
  <2>1. PICK x \in 1..Len(s) : x = IF a < i THEN a ELSE a + 1
    <3>1. (IF a < i THEN a ELSE a + 1) \in 1..Len(s)
      BY <1>2
    <3> QED
      BY <3>1
  <2>2. PICK y \in 1..Len(s) : y = IF b < i THEN b ELSE b + 1
    <3>1. (IF b < i THEN b ELSE b + 1) \in 1..Len(s)
      BY <1>2
    <3> QED
      BY <3>1
  <2>3. s[x] = s[y]
    BY <1>2, <1>3, <2>1, <2>2
  <2>4. x = y
    BY <1>2, <2>3 DEF Distinct
  <2> QED
    BY <1>2, <2>1, <2>2, <2>4
<1>4. ASSUME NEW a \in 1..Len(t) PROVE t[a] > low
  <2>1. PICK x \in 1..Len(s) : x = IF a < i THEN a ELSE a + 1
    <3>1. (IF a < i THEN a ELSE a + 1) \in 1..Len(s)
      BY <1>2
    <3> QED
      BY <3>1
  <2> QED
    BY <1>2, <2>1
<1> QED
  BY <1>1, <1>2, <1>3, <1>4 DEF Distinct


\* What is there when an item is put in elsewhere than at the end.
LEMMA InsertAtShape ==
    ASSUME NEW s \in Items, NEW i \in 1..Len(s), NEW x \in Int
    PROVE  /\ InsertAt(s, i, x) \in Items /\ Len(InsertAt(s, i, x)) = Len(s) + 1
           /\ \A j \in 1..Len(InsertAt(s, i, x)) :
                InsertAt(s, i, x)[j] = IF j < i THEN s[j] ELSE IF j = i THEN x ELSE s[j - 1]
<1>1. s \in Seq(Int) /\ Len(s) \in Nat
  BY DEF Items
<1>2. /\ SubSeq(s, 1, i - 1) \in Seq(Int) /\ Len(SubSeq(s, 1, i - 1)) = i - 1
      /\ \A j \in 1..(i - 1) : SubSeq(s, 1, i - 1)[j] = s[j]
  <2>1. \A j \in 1..(i - 1) : s[j] \in Int
    BY <1>1
  <2>2. /\ SubSeq(s, 1, i - 1) \in Seq(Int)
        /\ Len(SubSeq(s, 1, i - 1)) = (IF 1 <= i - 1 THEN (i - 1) - 1 + 1 ELSE 0)
        /\ \A j \in 1..((i - 1) - 1 + 1) : SubSeq(s, 1, i - 1)[j] = s[1 + j - 1]
    BY <1>1, <2>1, SubSeqProperties
  <2> QED
    BY <1>1, <2>2
<1>3. /\ SubSeq(s, i, Len(s)) \in Seq(Int) /\ Len(SubSeq(s, i, Len(s))) = Len(s) - i + 1
      /\ \A j \in 1..(Len(s) - i + 1) : SubSeq(s, i, Len(s))[j] = s[i + j - 1]
  <2>1. \A j \in i..Len(s) : s[j] \in Int
    BY <1>1
  <2>2. /\ SubSeq(s, i, Len(s)) \in Seq(Int)
        /\ Len(SubSeq(s, i, Len(s))) = (IF i <= Len(s) THEN Len(s) - i + 1 ELSE 0)
        /\ \A j \in 1..(Len(s) - i + 1) : SubSeq(s, i, Len(s))[j] = s[i + j - 1]
    BY <1>1, <2>1, SubSeqProperties
  <2> QED
    BY <1>1, <2>2
<1>4. PICK u \in Seq(Int) : u = SubSeq(s, 1, i - 1)
  BY <1>2
<1>5. PICK w \in Seq(Int) : w = SubSeq(s, i, Len(s))
  BY <1>3
<1>6. <<x>> \in Seq(Int) /\ Len(<<x>>) = 1 /\ <<x>>[1] = x
  OBVIOUS
<1>7. PICK v \in Seq(Int) : v = <<x>>
  BY <1>6
<1>8. /\ Len(u) = i - 1 /\ Len(v) = 1 /\ v[1] = x /\ Len(w) = Len(s) - i + 1
      /\ \A j \in 1..(i - 1) : u[j] = s[j]
      /\ \A j \in 1..(Len(s) - i + 1) : w[j] = s[i + j - 1]
  BY <1>2, <1>3, <1>4, <1>5, <1>6, <1>7
<1>9. /\ u \o v \in Seq(Int) /\ Len(u \o v) = Len(u) + Len(v)
      /\ \A j \in 1..(Len(u) + Len(v)) : (u \o v)[j] = IF j <= Len(u) THEN u[j] ELSE v[j - Len(u)]
  BY ConcatProperties
<1>10. PICK z \in Seq(Int) : z = u \o v
  BY <1>9
<1>11. /\ Len(z) = Len(u) + Len(v)
       /\ \A j \in 1..(Len(u) + Len(v)) : z[j] = IF j <= Len(u) THEN u[j] ELSE v[j - Len(u)]
  BY <1>9, <1>10
<1>12. Len(z) = i
  BY <1>8, <1>11
<1>13. ASSUME NEW j \in 1..i PROVE z[j] = IF j < i THEN s[j] ELSE x
  <2>1. CASE j < i
    <3>1. j <= Len(u) /\ j \in 1..(Len(u) + Len(v)) /\ j \in 1..(i - 1)
      BY <1>8, <2>1
    <3> QED
      BY <1>8, <1>11, <2>1, <3>1
  <2>2. CASE j = i
    <3>1. ~(j <= Len(u)) /\ j - Len(u) = 1 /\ j \in 1..(Len(u) + Len(v))
      BY <1>8, <2>2
    <3> QED
      BY <1>8, <1>11, <2>2, <3>1
  <2> QED
    BY <2>1, <2>2
<1>14. InsertAt(s, i, x) = z \o w
  BY <1>4, <1>5, <1>7, <1>10 DEF InsertAt
<1>15. /\ z \o w \in Seq(Int) /\ Len(z \o w) = Len(z) + Len(w)
       /\ \A j \in 1..(Len(z) + Len(w)) : (z \o w)[j] = IF j <= Len(z) THEN z[j] ELSE w[j - Len(z)]
  BY ConcatProperties
<1>16. PICK t \in Seq(Int) : t = z \o w
  BY <1>15
<1>17. /\ Len(t) = Len(s) + 1
       /\ \A j \in 1..(Len(s) + 1) : t[j] = IF j <= i THEN z[j] ELSE w[j - i]
  <2>1. Len(z) + Len(w) = Len(s) + 1
    BY <1>1, <1>8, <1>12
  <2> QED
    BY <1>12, <1>15, <1>16, <2>1
<1>18. ASSUME NEW j \in 1..(Len(s) + 1) PROVE t[j] = IF j < i THEN s[j] ELSE IF j = i THEN x ELSE s[j - 1]
  <2>1. CASE j <= i
    <3>1. j \in 1..i /\ t[j] = z[j]
      BY <1>17, <2>1
    <3> QED
      BY <1>13, <2>1, <3>1
  <2>2. CASE j > i
    <3>1. PICK k \in 1..(Len(s) - i + 1) : k = j - i
      <4>1. j - i \in 1..(Len(s) - i + 1)
        BY <1>1, <2>2
      <4> QED
        BY <4>1
    <3>2. ~(j <= i) /\ ~(j < i) /\ j # i /\ i + k - 1 = j - 1
      BY <1>1, <2>2, <3>1
    <3>3. t[j] = w[k] /\ w[k] = s[i + k - 1]
      BY <1>8, <1>17, <3>1, <3>2
    <3> QED
      BY <3>2, <3>3
  <2> QED
    BY <1>1, <2>1, <2>2
<1> QED
  BY <1>14, <1>16, <1>17, <1>18 DEF Items

\* Putting in an item that is below all others leaves nothing twice.
LEMMA InsertAtDistinct ==
    ASSUME NEW s \in Items, NEW i \in 1..Len(s), Distinct(s), NEW low \in Int, \A a \in DOMAIN s : s[a] > low
    PROVE  Distinct(InsertAt(s, i, low)) /\ \A a \in DOMAIN InsertAt(s, i, low) : InsertAt(s, i, low)[a] > low - 1
<1>1. PICK t \in Items : t = InsertAt(s, i, low)
  BY InsertAtShape
<1>2. /\ Len(t) = Len(s) + 1 /\ Len(s) \in Nat /\ DOMAIN s = 1..Len(s) /\ DOMAIN t = 1..Len(t)
      /\ \A j \in 1..Len(t) : t[j] = IF j < i THEN s[j] ELSE IF j = i THEN low ELSE s[j - 1]
      /\ \A j \in 1..Len(s) : s[j] \in Int /\ s[j] > low
  BY <1>1, InsertAtShape, SMTT(30) DEF Items
<1>3. ASSUME NEW a \in 1..Len(t) PROVE a = i \/ \E x \in 1..Len(s) : t[a] = s[x] /\ x = IF a < i THEN a ELSE a - 1
  BY <1>2
<1>4. ASSUME NEW a \in 1..Len(t), NEW b \in 1..Len(t), t[a] = t[b] PROVE a = b
  <2>1. CASE a = i \/ b = i
    <3>1. t[i] = low
      BY <1>2
    <3> QED
      BY <1>2, <1>3, <1>4, <2>1, <3>1
  <2>2. CASE a # i /\ b # i
    <3>1. PICK x \in 1..Len(s) : t[a] = s[x] /\ x = IF a < i THEN a ELSE a - 1
      BY <1>3, <2>2
    <3>2. PICK y \in 1..Len(s) : t[b] = s[y] /\ y = IF b < i THEN b ELSE b - 1
      BY <1>3, <2>2
    <3>3. x = y
      BY <1>2, <1>4, <3>1, <3>2 DEF Distinct
    <3> QED
      BY <1>2, <2>2, <3>1, <3>2, <3>3
  <2> QED
    BY <2>1, <2>2
<1>5. ASSUME NEW a \in 1..Len(t) PROVE t[a] > low - 1
  <2>1. CASE a = i
    BY <1>2, <2>1
  <2>2. CASE a # i
    <3>1. PICK x \in 1..Len(s) : t[a] = s[x]
      BY <1>3, <2>2
    <3> QED
      BY <1>2, <3>1
  <2> QED
    BY <2>1, <2>2
<1> QED
  BY <1>1, <1>2, <1>4, <1>5 DEF Distinct

\* The collection s with an item put in or taken away elsewhere than at its end.
Shifts(s, t) == \E i \in DOMAIN s : t = InsertAt(s, i, 0 - hub.changes) \/ t = RemoveAt(s, i)

\* HubChanges.
LEMMA CollectionChanges ==
    ASSUME CallInv, HubChanges
    PROVE  /\ hub' \in Hubs /\ hub'.effects = hub.effects /\ hub'.keys = hub.keys
           /\ hub'.bare = hub.bare /\ hub'.tells = hub.tells /\ hub'.changes = hub.changes + 1
           /\ list' \in Readings
           /\ \/ hub'.items = Append(hub.items, 0 - hub.changes) /\ list' = list
              \/ /\ Shifts(hub.items, hub'.items)
                 /\ list'.page = list.page /\ list'.size = list.size /\ list'.got = list.got
                 /\ list'.total = list.total /\ list'.whole = list.whole
                 /\ list'.shifted = (list.shifted \/ list.got # <<>>)
<1>1. hub \in Hubs /\ list \in Readings /\ hub.items \in Seq(Int) /\ hub.changes \in Nat
  BY InACall DEF Hubs, Items
<1>2. ASSUME NEW items \in Items, NEW n \in Nat, hub' = [hub EXCEPT !.items = items, !.changes = n]
      PROVE  /\ hub' \in Hubs /\ hub'.effects = hub.effects /\ hub'.keys = hub.keys /\ hub'.bare = hub.bare
             /\ hub'.tells = hub.tells /\ hub'.changes = n /\ hub'.items = items
  BY <1>1, <1>2 DEF Hubs
<1>3. PICK n \in Nat : n = hub.changes + 1
  BY <1>1
<1>4. CASE hub' = [hub EXCEPT !.items = Append(@, 0 - hub.changes), !.changes = @ + 1] /\ UNCHANGED list
  <2>1. PICK items \in Items : items = Append(hub.items, 0 - hub.changes)
    <3>1. Append(hub.items, 0 - hub.changes) \in Seq(Int)
      BY <1>1
    <3> QED
      BY <3>1 DEF Items
  <2>2. hub' = [hub EXCEPT !.items = items, !.changes = n]
    BY <1>1, <1>3, <1>4, <2>1 DEF Hubs
  <2>3. /\ hub' \in Hubs /\ hub'.effects = hub.effects /\ hub'.keys = hub.keys /\ hub'.bare = hub.bare
        /\ hub'.tells = hub.tells /\ hub'.changes = n /\ hub'.items = items
    BY <1>2, <2>2, Zenon
  <2>4. list' = list
    BY <1>4
  <2> QED
    BY <1>1, <1>3, <2>1, <2>3, <2>4
<1>5. ASSUME NEW i \in DOMAIN hub.items,
             NEW s \in {InsertAt(hub.items, i, 0 - hub.changes), RemoveAt(hub.items, i)},
             hub' = [hub EXCEPT !.items = s, !.changes = @ + 1],
             list' = [list EXCEPT !.shifted = @ \/ list.got # <<>>]
      PROVE  /\ hub' \in Hubs /\ hub'.effects = hub.effects /\ hub'.keys = hub.keys
             /\ hub'.bare = hub.bare /\ hub'.tells = hub.tells /\ hub'.changes = hub.changes + 1
             /\ list' \in Readings /\ Shifts(hub.items, hub'.items)
             /\ list'.page = list.page /\ list'.size = list.size /\ list'.got = list.got
             /\ list'.total = list.total /\ list'.whole = list.whole
             /\ list'.shifted = (list.shifted \/ list.got # <<>>)
  <2>1. s \in Items
    <3>1. hub.items \in Items /\ i \in 1..Len(hub.items) /\ 0 - hub.changes \in Int
      BY <1>1 DEF Items
    <3> QED
      BY <3>1, RemoveAtShape, InsertAtShape
  <2>2. PICK items \in Items : items = s
    BY <2>1
  <2>3. hub' = [hub EXCEPT !.items = items, !.changes = n]
    BY <1>1, <1>3, <1>5, <2>2 DEF Hubs
  <2>4. /\ hub' \in Hubs /\ hub'.effects = hub.effects /\ hub'.keys = hub.keys /\ hub'.bare = hub.bare
        /\ hub'.tells = hub.tells /\ hub'.changes = n /\ hub'.items = items
    BY <1>2, <2>3, Zenon
  <2>5. Shifts(hub.items, s)
    BY <1>5 DEF Shifts
  <2>6. PICK shifted \in BOOLEAN : shifted = (list.shifted \/ list.got # <<>>)
    OBVIOUS
  <2>7. list' = [list EXCEPT !.shifted = shifted]
    BY <1>1, <1>5, <2>6 DEF Readings
  <2>8. /\ list' \in Readings /\ list'.page = list.page /\ list'.size = list.size /\ list'.got = list.got
        /\ list'.total = list.total /\ list'.whole = list.whole /\ list'.shifted = shifted
    BY <1>1, <2>7 DEF Readings
  <2> QED
    BY <1>3, <2>2, <2>4, <2>5, <2>6, <2>8
<1> QED
  BY <1>4, <1>5, Zenon DEF HubChanges

\* HubChanges.
LEMMA HubChangesKeeps == CallInv /\ HubChanges => CallInv'
<1> SUFFICES ASSUME CallInv, HubChanges PROVE CallInv'
  OBVIOUS
<1>1. UNCHANGED <<node, try, socks, out>>
  BY DEF HubChanges
<1>2. /\ socks' \in Sockets /\ Len(socks') = Len(socks) /\ node' \in Nodes
      /\ socks'[node.cur].taken = socks[node.cur].taken
      /\ node'.plan = node.plan /\ node'.item = node.item /\ node'.phase = node.phase /\ node'.cur = node.cur
      /\ try' = try /\ out' = out
  BY <1>1, InACall
<1>3. list' \in Readings /\ hub' \in Hubs /\ hub'.effects = hub.effects /\ hub'.keys = hub.keys
  BY CollectionChanges
<1> QED
  BY <1>2, <1>3, SocketsMove

\* Every step.
LEMMA StepsKeep == CallInv /\ [HubNodesSteps]_hvars => CallInv'
<1> SUFFICES ASSUME CallInv, [HubNodesSteps]_hvars PROVE CallInv'
  OBVIOUS
<1>1. CASE UNCHANGED hvars
  <2>1. UNCHANGED <<node, try, list, socks, hub, out>>
    BY <1>1 DEF hvars
  <2>2. Alike(socks')
    BY <2>1, InACall DEF Alike
  <2> QED
    BY <2>1, <2>2, SocketsOnly
<1>2. CASE StartItem \/ NodeEnds \/ PageRead \/ ResourceRead \/ Carried \/ Refused \/ HubChanges
  BY <1>2, StartItemKeeps, NodeEndsKeeps, PageReadKeeps, RestKeeps, CarriedKeeps, HubChangesKeeps
<1>3. ASSUME NEW k \in DOMAIN socks,
             \/ ReadyDecoded(k) \/ ConnectFails(k) \/ AckFails(k) \/ ListenFails(k) \/ Closed(k)
             \/ ConnectionReady(k) \/ DropsUnheard(k) \/ Subscribed(k) \/ EventArrives(k)
             \/ PublishTaken(k) \/ Published(k)
      PROVE  CallInv'
  BY <1>3, SocketStepsKeep, ClosedKeeps, SubscribedKeeps, EventArrivesKeeps, PublishTakenKeeps, PublishedKeeps
<1> QED
  BY <1>1, <1>2, <1>3 DEF HubNodesSteps, OwnSteps, HubSteps

\* The beginning.
LEMMA CallsBegin == HubNodesBegin => CallInv
<1> SUFFICES ASSUME HubNodesBegin PROVE CallInv
  OBVIOUS
<1>1. /\ node \in [plan : Plans, goOn : BOOLEAN, item : {1}, phase : {"next"}, cur : {0}, verdict : {Open}]
      /\ try = [retries |-> 0, renewed |-> FALSE]
      /\ list = [page |-> 1, size |-> PageSize, got |-> <<>>, total |-> 0, whole |-> <<>>, shifted |-> FALSE]
      /\ socks = <<>> /\ out = <<>>
  BY DEF HubNodesBegin
<1>2. PICK n \in Collections, bare \in BOOLEAN, tells \in Tellings :
        hub = [items |-> [i \in 1..n |-> i], bare |-> bare, tells |-> tells, keys |-> {}, changes |-> 0,
               effects |-> [i \in DOMAIN node.plan |-> 0]]
  BY DEF HubNodesBegin
<1>3. /\ Plans \subseteq AllPlans /\ <<>> \notin Plans /\ Collections \subseteq Nat /\ Tellings \subseteq SUBSET Fields
      /\ PageSize \in Nat
      /\ \A plan \in Plans : \A i \in DOMAIN plan :
            plan[i].socket => plan[i].does \in {"publishSocketEvent", "waitForSocketEvent"}
  BY HubNodesAssumption DEF AllPlans
<1>4. node.plan \in Plans /\ node.plan \in AllPlans /\ Len(node.plan) \in Nat /\ Len(node.plan) >= 1
  <2>1. node.plan \in Plans
    BY <1>1
  <2>2. node.plan \in Seq(Operations) /\ node.plan # <<>>
    BY <1>3, <2>1 DEF AllPlans
  <2> QED
    BY <1>3, <2>1, <2>2
<1>5. node \in Nodes
  <2>1. "next" \in Phases /\ Open \in Verdicts /\ 1 \in Nat \ {0} /\ 0 \in Nat
    BY DEF Phases, Verdicts
  <2> QED
    BY <1>1, <1>4, <2>1 DEF Nodes
<1>6. TypeOK
  <2>1. list \in Readings /\ try \in Tries /\ socks \in Sockets /\ out \in Outputs
    BY <1>1, <1>3 DEF Readings, Items, Tries, Sockets, Outputs
  <2>2. hub \in Hubs
    <3>1. [i \in 1..n |-> i] \in Items
      BY <1>3 DEF Items
    <3> QED
      BY <1>2, <1>3, <3>1 DEF Hubs
  <2> QED
    BY <1>5, <2>1, <2>2 DEF TypeOK
<1>7. PlanOK
  BY <1>3, <1>4 DEF PlanOK
<1>8. node.item = 1 /\ node.phase = "next" /\ node.cur = 0
  BY <1>1
<1>9. LoopOK
  BY <1>1, <1>4, <1>8 DEF LoopOK
<1>10. \A j \in DOMAIN node.plan : hub.effects[j] = 0 /\ j \notin hub.keys
  BY <1>2
<1>11. DOMAIN hub.effects = DOMAIN node.plan /\ out = <<>>
  BY <1>1, <1>2
<1>12. EffectsSoFar
  BY <1>8, <1>10 DEF EffectsSoFar
<1>13. EffectsOnce
  BY <1>10, <1>11 DEF EffectsOnce
<1> QED
  BY <1>6, <1>7, <1>9, <1>12, <1>13 DEF CallInv

\* EffectsOnce (plugAccessTransientRetry.ts, customSocketEventSession.ts): whatever is
\* asked of the hub, in whatever order, a call that changes something changes it once, and
\* has done so when it says so; only an event without a key, published over a socket, may
\* be published a second time, when the session expires meanwhile.
THEOREM EffectsHappenOnce == HubNodesSpec => []EffectsOnce
<1>1. HubNodesBegin => CallInv
  BY CallsBegin
<1>2. CallInv /\ [HubNodesSteps]_hvars => CallInv'
  BY StepsKeep
<1>3. CallInv => EffectsOnce
  BY DEF CallInv
<1> QED
  BY <1>1, <1>2, <1>3, PTL DEF HubNodesSpec

--------------------------------------------------------------------------------
(* What PagesComplete needs: the pages read so far, whatever they are of.   *)

\* The first page, cut from the items after a, when nothing else is read: it has all that
\* is asked for.
LEMMA FirstEnds ==
    ASSUME NEW items \in Items, NEW page \in Items, NEW whole \in Items, NEW a \in Nat, NEW size \in Nat \ {0},
           Distinct(items), Agrees(page, items, a),
           Len(page) = IF a <= Len(items) THEN Least(a + size, Len(items)) - a ELSE 0,
           Agrees(whole, items, a),
           Len(whole) = IF a <= Len(items) THEN Len(items) - a ELSE 0,
           Len(page) >= Len(items) \/ page = <<>>
    PROVE  IsPrefix(whole, page)
<1>1. Len(page) \in Nat /\ Len(whole) \in Nat /\ Len(items) \in Nat
  BY DEF Items
<1>2. Len(page) = IF a > Len(items) THEN 0 ELSE IF a + size < Len(items) THEN size ELSE Len(items) - a
  BY <1>1 DEF Least
<1>3. page = <<>> => Len(page) = 0
  OBVIOUS
<1>4. Len(whole) <= Len(page)
  BY <1>1, <1>2, <1>3
<1>5. \A i \in 1..Len(whole) : whole[i] = page[i]
  BY <1>1, <1>4 DEF Agrees
<1> QED
  BY <1>4, <1>5, AgreeIsPrefix

\* A page alone has no doubles.
LEMMA PageDistinct ==
    ASSUME NEW items \in Items, NEW page \in Items, NEW a \in Nat, Distinct(items),
           Agrees(page, items, a), Len(page) > 0 => a + Len(page) <= Len(items)
    PROVE  Distinct(page)
<1>1. Len(page) \in Nat /\ Len(items) \in Nat /\ DOMAIN page = 1..Len(page) /\ DOMAIN items = 1..Len(items)
  BY DEF Items
<1> SUFFICES ASSUME NEW i \in 1..Len(page), NEW j \in 1..Len(page), page[i] = page[j] PROVE i = j
  BY <1>1 DEF Distinct
<1>2. a + i \in DOMAIN items /\ a + j \in DOMAIN items /\ items[a + i] = items[a + j]
  BY <1>1 DEF Agrees
<1>3. a + i = a + j
  BY <1>2 DEF Distinct
<1> QED
  BY <1>1, <1>3

\* Pages up to one that ends the reading, s of them all: what was there at the first page is
\* in them, because the last was the end of the collection, or enough had been read.
LEMMA ReadEnds ==
    ASSUME NEW items \in Items, NEW s \in Items, NEW whole \in Items, NEW last \in Nat,
           NEW a \in Nat, NEW b \in Nat, NEW e \in Nat, NEW total \in Nat, NEW size \in Nat \ {0}, NEW first \in Nat \ {0},
           b = a + size, b < total => first = b - a, b >= total => first = total - a, total <= Len(items),
           Len(s) = first + e - b + last, e >= b, e > b => e <= Len(items),
           Stretches(s, items, a, first, b), Distinct(items),
           e > Len(items) => last = 0,
           e <= Len(items) => (last = size /\ e + size <= Len(items)) \/ last = Len(items) - e,
           Agrees(whole, items, a), Len(whole) = total - a,
           Len(s) >= total \/ last # size
    PROVE  IsPrefix(whole, s) /\ Distinct(s)
<1>1. Len(s) \in Nat /\ Len(whole) \in Nat /\ Len(items) \in Nat
  BY DEF Items
<1>2. Distinct(s)
  <2>1. first \in Nat /\ first <= Len(s) /\ a + first <= b /\ a + first <= Len(items)
    BY <1>1
  <2>2. Len(s) > first => b + Len(s) - first <= Len(items)
    BY <1>1
  <2> QED
    BY <2>1, <2>2, StretchesDistinct
<1>3. Len(whole) <= Len(s) /\ (Len(whole) > first => first = b - a)
  BY <1>1
<1>4. ASSUME NEW i \in 1..Len(whole) PROVE whole[i] = s[i]
  <2>1. i \in 1..Len(s)
    BY <1>1, <1>3
  <2>2. s[i] = items[IF i <= first THEN a + i ELSE b + i - first]
    BY <2>1 DEF Stretches
  <2>3. (IF i <= first THEN a + i ELSE b + i - first) = a + i
    BY <1>1, <1>3
  <2> QED
    BY <2>2, <2>3 DEF Agrees
<1> QED
  BY <1>3, <1>4, <1>2, AgreeIsPrefix

\* Another page after them.
LEMMA ReadMore ==
    ASSUME NEW items \in Items, NEW got \in Items, NEW page \in Items,
           NEW a \in Nat, NEW b \in Nat, NEW e \in Nat, NEW first \in Nat \ {0},
           Len(got) = first + e - b, e >= b, Stretches(got, items, a, first, b), Agrees(page, items, e)
    PROVE  /\ got \o page \in Items /\ Len(got \o page) = first + e - b + Len(page)
           /\ Stretches(got \o page, items, a, first, b)
<1>1. Len(got) \in Nat /\ first \in Nat /\ first <= Len(got) /\ b + Len(got) - first = e
  BY DEF Items
<1>2. Agrees(page, items, b + Len(got) - first)
  BY <1>1
<1> QED
  BY <1>1, <1>2, StretchesOn

\* The same item on the same plan.
LEMMA SameOp ==
    ASSUME node'.plan = node.plan, node'.item = node.item
    PROVE  Op' = Op /\ Lists' = Lists
BY DEF Op, Lists

\* The hub's collection as it is.
SameItems == hub'.items = hub.items /\ hub'.bare = hub.bare /\ hub'.tells = hub.tells /\ hub'.changes = hub.changes

\* What the answers tell about the same item is the same.
LEMMA SameAnswers ==
    ASSUME Op' = Op, hub'.bare = hub.bare, hub'.tells = hub.tells
    PROVE  Bare' = Bare /\ Enough' = Enough
BY DEF Bare, Enough, Says

\* What is put out keeps its promise as long as nothing more is put out.
LEMMA PagesStay == PagesComplete /\ out' = out => PagesComplete'
BY DEF PagesComplete

\* A step that leaves the reading and the collection alone.
LEMMA ReadingStays ==
    ASSUME PagesInv, node'.plan = node.plan, node'.item = node.item, node'.phase = node.phase,
           list' = list, out' = out, SameItems
    PROVE  PagesInv'
<1>1. Op' = Op /\ Lists' = Lists
  BY SameOp
<1>2. Bare' = Bare /\ Enough' = Enough
  BY <1>1, SameAnswers DEF SameItems
<1>3. CollectionOK'
  BY DEF PagesInv, CollectionOK, SameItems
<1>4. ReadSoFar'
  BY <1>1, <1>2 DEF PagesInv, ReadSoFar, SameItems, FirstHad, Sure
<1>5. PagesComplete'
  BY PagesStay DEF PagesInv
<1> QED
  BY <1>3, <1>4, <1>5 DEF PagesInv

\* A call that is made, or made again, has read nothing.
LEMMA CallsHubReads ==
    ASSUME CallInv, PagesInv, NEW tries, NEW sockets \in Sockets, CallsHub(tries, sockets), SameItems
    PROVE  PagesInv'
<1>1. node'.plan = node.plan /\ node'.item = node.item
  <2>1. node \in Nodes
    BY InACall
  <2>2. \/ node' = [node EXCEPT !.phase = "socket", !.cur = Len(sockets) + 1]
        \/ node' = [node EXCEPT !.phase = "rest", !.cur = 0]
    BY DEF CallsHub
  <2> QED
    BY <2>1, <2>2 DEF Nodes
<1>2. Op' = Op
  BY <1>1, SameOp
<1>3. list' = Fresh /\ out' = out
  BY DEF CallsHub
<1>4. ReadSoFar'
  <2>1. list'.got = <<>> /\ list'.page = Op.page /\ list'.size = PageSize /\ list'.total = 0 /\ list'.shifted = FALSE
    BY <1>3 DEF Fresh
  <2> QED
    BY <1>2, <2>1 DEF ReadSoFar
<1>5. CollectionOK'
  BY DEF PagesInv, CollectionOK, SameItems
<1>6. PagesComplete'
  BY <1>3, PagesStay DEF PagesInv
<1> QED
  BY <1>4, <1>5, <1>6 DEF PagesInv

\* What a list that is put out promises.
ListIsTrue(result) ==
    result.kind = "list" /\ result.sure =>
        /\ IsPrefix(result.whole, result.got)
        /\ Cardinality({result.got[j] : j \in DOMAIN result.got}) = Len(result.got)

\* An item that ends, with a list that is what it promises or another output.
LEMMA ItemEndsReads ==
    ASSUME CallInv, PagesInv, NEW result \in Results, NEW sockets, ItemEnds(result, sockets), SameItems,
           ListIsTrue(result)
    PROVE  PagesInv'
<1>1. node \in Nodes /\ out \in Outputs
  BY InACall
<1>2. \/ node'.phase = "next" /\ out' = Append(out, result)
      \/ node'.phase = "threw" /\ out' = out
  <2>1. \/ out' = Append(out, result) /\ node' = [node EXCEPT !.item = @ + 1, !.phase = "next", !.cur = 0]
        \/ out' = out /\ node' = [node EXCEPT !.phase = "threw", !.cur = 0]
    BY DEF ItemEnds
  <2> QED
    BY <1>1, <2>1 DEF Nodes
<1>3. ReadSoFar'
  BY <1>2 DEF ReadSoFar
<1>4. CollectionOK'
  BY DEF PagesInv, CollectionOK, SameItems
<1>5. PagesComplete'
  <2>1. CASE out' = out
    BY <2>1, PagesStay DEF PagesInv
  <2>2. CASE out' = Append(out, result)
    <3> SUFFICES ASSUME NEW i \in DOMAIN out' PROVE ListIsTrue(out'[i])
      BY DEF PagesComplete, ListIsTrue
    <3>1. out'[i] = result \/ (i \in DOMAIN out /\ out'[i] = out[i])
      BY <1>1, <2>2 DEF Outputs
    <3>2. i \in DOMAIN out => ListIsTrue(out[i])
      BY DEF PagesInv, PagesComplete, ListIsTrue
    <3> QED
      BY <3>1, <3>2
  <2> QED
    BY <1>2, <2>1, <2>2
<1> QED
  BY <1>3, <1>4, <1>5 DEF PagesInv

\* A failure.
LEMMA FailsReads ==
    ASSUME CallInv, PagesInv, NEW err, NEW sockets \in Sockets, Fails(err, sockets), SameItems
    PROVE  PagesInv'
<1>1. CASE ItemEnds([kind |-> "error"], sockets)
  <2>1. [kind |-> "error"] \in Results /\ ListIsTrue([kind |-> "error"])
    BY DEF Results, ListIsTrue
  <2> QED
    BY <1>1, <2>1, ItemEndsReads
<1>2. TypeOK
  BY DEF CallInv
<1> QED
  BY <1>1, <1>2, FailsShape, CallsHubReads

\* The sequence u is t with more added to it.
Longer(u, t) == Len(u) >= Len(t) /\ \A i \in 1..Len(t) : u[i] = t[i]

\* What has been read of a collection is what it was when more is added to it.
LEMMA StretchesKept ==
    ASSUME NEW s \in Items, NEW t \in Items, NEW u \in Items, NEW a \in Nat, NEW first \in Nat, NEW b \in Nat,
           Longer(u, t), Stretches(s, t, a, first, b),
           a + first <= Len(t), Len(s) > first => b + Len(s) - first <= Len(t)
    PROVE  Stretches(s, u, a, first, b)
<1> SUFFICES ASSUME NEW i \in 1..Len(s) PROVE s[i] = u[IF i <= first THEN a + i ELSE b + i - first]
  BY DEF Stretches
<1>1. Len(s) \in Nat /\ Len(t) \in Nat /\ Len(u) \in Nat
  BY DEF Items
<1>2. PICK x \in 1..Len(t) : x = IF i <= first THEN a + i ELSE b + i - first
  <2>1. (IF i <= first THEN a + i ELSE b + i - first) \in 1..Len(t)
    BY <1>1
  <2> QED
    BY <2>1
<1>3. s[i] = t[x] /\ t[x] = u[x]
  BY <1>2 DEF Stretches, Longer
<1> QED
  BY <1>2, <1>3

\* ... and so is what was there at the first page.
LEMMA AgreesKept ==
    ASSUME NEW s \in Items, NEW t \in Items, NEW u \in Items, NEW a \in Nat,
           Longer(u, t), Agrees(s, t, a), a + Len(s) <= Len(t)
    PROVE  Agrees(s, u, a)
<1>1. Len(s) \in Nat /\ Len(t) \in Nat
  BY DEF Items
<1>2. \A i \in 1..Len(s) : a + i \in 1..Len(t)
  BY <1>1
<1> QED
  BY <1>2 DEF Agrees, Longer

\* The pages of the call, in numbers.
LEMMA ReadingNumbers ==
    ASSUME CallInv, PagesInv, node.phase = "rest", Lists, list.got # <<>>, Sure
    PROVE  /\ Op.page \in Nat \ {0} /\ list.page \in Nat \ {0} /\ list.total \in Nat /\ Len(list.got) \in Nat
           /\ EndOf(Op.page - 1) \in Nat /\ EndOf(Op.page) \in Nat /\ EndOf(list.page - 1) \in Nat
           /\ EndOf(Op.page) = EndOf(Op.page - 1) + PageSize /\ EndOf(list.page) = EndOf(list.page - 1) + PageSize
           /\ PageSize \in Nat \ {0} /\ FirstHad \in Nat \ {0}
           /\ EndOf(Op.page) < list.total => FirstHad = EndOf(Op.page) - EndOf(Op.page - 1)
           /\ EndOf(Op.page) >= list.total => FirstHad = list.total - EndOf(Op.page - 1)
           /\ EndOf(list.page - 1) >= EndOf(Op.page)
           /\ EndOf(list.page - 1) > EndOf(Op.page) => EndOf(list.page - 1) <= Len(hub.items)
           /\ Len(list.got) = FirstHad + EndOf(list.page - 1) - EndOf(Op.page)
           /\ list.total <= Len(hub.items)
<1>1. /\ list \in Readings /\ Op \in Operations
  BY InACall, OpIsOperation DEF CallInv
<1>2. Op.page \in Nat \ {0} /\ list.page \in Nat \ {0} /\ list.total \in Nat /\ Len(list.got) \in Nat
  BY <1>1 DEF Operations, Readings, Items
<1>3. /\ list.page > Op.page /\ list.total <= Len(hub.items) /\ FirstHad > 0
      /\ Len(list.got) = FirstHad + EndOf(list.page - 1) - EndOf(Op.page)
      /\ list.page > Op.page + 1 => EndOf(list.page - 1) <= Len(hub.items)
  BY DEF PagesInv, ReadSoFar
<1>4. PICK p \in Nat : p = Op.page - 1 /\ Op.page = p + 1
  BY <1>2
<1>5. PICK q \in Nat : q = list.page - 1 /\ list.page = q + 1
  BY <1>2
<1>6. EndOf(p) \in Nat /\ EndOf(q) \in Nat /\ EndOf(p + 1) = EndOf(p) + PageSize /\ EndOf(q + 1) = EndOf(q) + PageSize
  BY EndOfFacts
<1>7. PageSize \in Nat \ {0}
  BY HubNodesAssumption
<1>8. EndOf(Op.page) <= EndOf(q)
  <2>1. Op.page \in Nat /\ Op.page <= q
    BY <1>2, <1>3, <1>5
  <2> QED
    BY <2>1, EndOfGrows
<1>9. EndOf(q) > EndOf(Op.page) => q > Op.page
  <2>1. q >= Op.page
    BY <1>2, <1>3, <1>5
  <2>2. EndOf(q) > EndOf(Op.page) => q # Op.page
    BY <1>4, <1>6, <1>7
  <2> QED
    BY <1>2, <2>1, <2>2
<1>10. /\ EndOf(Op.page) < list.total => FirstHad = EndOf(Op.page) - EndOf(Op.page - 1)
       /\ EndOf(Op.page) >= list.total => FirstHad = list.total - EndOf(Op.page - 1)
  BY <1>2, <1>4, <1>6, <1>7 DEF FirstHad, Least
<1>11. FirstHad \in Int
  BY <1>2, <1>4, <1>6, <1>7, <1>10
<1>12. EndOf(list.page - 1) > EndOf(Op.page) => EndOf(list.page - 1) <= Len(hub.items)
  BY <1>2, <1>3, <1>5, <1>9
<1>13. /\ EndOf(Op.page - 1) \in Nat /\ EndOf(list.page - 1) \in Nat /\ EndOf(list.page - 1) >= EndOf(Op.page)
       /\ EndOf(Op.page) = EndOf(Op.page - 1) + PageSize /\ EndOf(list.page) = EndOf(list.page - 1) + PageSize
  BY <1>4, <1>5, <1>6, <1>8
<1>14. EndOf(Op.page) \in Nat
  BY <1>7, <1>13
<1>15. FirstHad \in Nat \ {0}
  BY <1>3, <1>11
<1> QED
  BY <1>2, <1>3, <1>7, <1>10, <1>12, <1>13, <1>14, <1>15

\* The reading of a collection that has grown.
LEMMA ReadsLonger ==
    ASSUME CallInv, PagesInv, NEW s \in Items, s = hub'.items, hub.items \in Items, Longer(s, hub.items),
           node' = node, list' = list, Op' = Op, Lists' = Lists, Bare' = Bare, Enough' = Enough
    PROVE  ReadSoFar'
<1>1. ReadSoFar
  BY DEF PagesInv
<1>2. FirstHad' = FirstHad /\ Sure' = Sure
  BY DEF FirstHad, Sure
<1>3. CASE node.phase = "rest" /\ Lists /\ list.got # <<>> /\ Sure
  <2>1. PICK a \in Nat : a = EndOf(Op.page - 1)
    BY <1>3, ReadingNumbers
  <2>2. PICK b \in Nat : b = EndOf(Op.page)
    BY <1>3, ReadingNumbers
  <2>3. PICK e \in Nat : e = EndOf(list.page - 1)
    BY <1>3, ReadingNumbers
  <2>4. PICK first \in Nat : first = FirstHad
    BY <1>3, ReadingNumbers
  <2>5. /\ list.got \in Items /\ list.whole \in Items /\ Len(hub.items) \in Nat /\ Len(list.got) \in Nat
        /\ list.total \in Nat
    BY InACall DEF Readings, Items
  <2>6. /\ Stretches(list.got, hub.items, a, first, b) /\ Agrees(list.whole, hub.items, a)
        /\ Len(list.whole) = list.total - a
    BY <1>1, <1>3, <2>1, <2>2, <2>4 DEF ReadSoFar
  <2>7. /\ Len(list.got) = first + e - b /\ e >= b /\ (e > b => e <= Len(hub.items))
        /\ list.total <= Len(hub.items)
        /\ (b < list.total => first = b - a) /\ (b >= list.total => first = list.total - a)
    BY <1>3, <2>1, <2>2, <2>3, <2>4, ReadingNumbers
  <2>8. a + first <= Len(hub.items) /\ (Len(list.got) > first => b + Len(list.got) - first <= Len(hub.items))
    <3>1. PICK n \in Nat : n = Len(hub.items)
      BY <2>5
    <3>2. PICK total \in Nat : total = list.total
      BY <2>5
    <3>3. PICK long \in Nat : long = Len(list.got)
      BY <2>5
    <3>4. /\ long = first + e - b /\ e >= b /\ (e > b => e <= n) /\ total <= n
          /\ (b < total => first = b - a) /\ (b >= total => first = total - a)
      BY <2>7, <3>1, <3>2, <3>3
    <3>5. a + first <= n /\ (long > first => b + long - first <= n)
      BY <3>4
    <3> QED
      BY <3>1, <3>3, <3>5
  <2>9. Stretches(list.got, s, a, first, b)
    BY <2>5, <2>6, <2>8, StretchesKept
  <2>10. a + Len(list.whole) <= Len(hub.items)
    BY <2>5, <2>6, <2>7
  <2>11. Agrees(list.whole, s, a)
    BY <2>5, <2>6, <2>10, AgreesKept
  <2>12. list.total <= Len(s) /\ (list.page > Op.page + 1 => e <= Len(s))
    <3>1. Len(s) \in Nat /\ Len(s) >= Len(hub.items)
      BY DEF Items, Longer
    <3>2. list.page > Op.page + 1 => e <= Len(hub.items)
      BY <1>1, <1>3, <2>3 DEF ReadSoFar
    <3> QED
      BY <2>5, <2>7, <3>1, <3>2
  <2> QED
    BY <1>1, <1>2, <1>3, <2>1, <2>2, <2>3, <2>4, <2>9, <2>11, <2>12 DEF ReadSoFar
<1>4. CASE ~(node.phase = "rest" /\ Lists /\ list.got # <<>> /\ Sure)
  BY <1>1, <1>2, <1>4 DEF ReadSoFar
<1> QED
  BY <1>3, <1>4

\* The collection changes: it stays free of doubles, and what has been read of it is what
\* it was unless something was taken away, or put in elsewhere than at its end.
LEMMA HubChangesReads ==
    ASSUME CallInv, PagesInv, HubChanges
    PROVE  PagesInv'
<1>1. /\ hub \in Hubs /\ list \in Readings /\ hub.items \in Items /\ hub.changes \in Nat
      /\ node' = node /\ out' = out
  BY InACall DEF Hubs, HubChanges
<1>2. /\ hub'.bare = hub.bare /\ hub'.tells = hub.tells /\ hub'.changes = hub.changes + 1
      /\ \/ hub'.items = Append(hub.items, 0 - hub.changes) /\ list' = list
         \/ /\ Shifts(hub.items, hub'.items)
            /\ list'.page = list.page /\ list'.size = list.size /\ list'.got = list.got
            /\ list'.total = list.total /\ list'.whole = list.whole
            /\ list'.shifted = (list.shifted \/ list.got # <<>>)
  BY CollectionChanges
<1>3. Op' = Op /\ Lists' = Lists /\ Bare' = Bare /\ Enough' = Enough
  <2>1. Op' = Op /\ Lists' = Lists
    BY <1>1, SameOp
  <2> QED
    BY <1>2, <2>1, SameAnswers
<1>4. PagesComplete'
  BY <1>1, PagesStay DEF PagesInv
<1>5. CASE hub'.items = Append(hub.items, 0 - hub.changes) /\ list' = list
  <2>1. PICK s \in Items : s = hub'.items
    <3>1. Append(hub.items, 0 - hub.changes) \in Seq(Int)
      BY <1>1 DEF Items
    <3> QED
      BY <1>5, <3>1 DEF Items
  <2>2. /\ Len(s) = Len(hub.items) + 1 /\ Len(hub.items) \in Nat
        /\ \A i \in 1..Len(hub.items) : s[i] = hub.items[i] /\ s[Len(s)] = 0 - hub.changes
        /\ s[Len(hub.items) + 1] = 0 - hub.changes
        /\ DOMAIN s = 1..Len(s) /\ DOMAIN hub.items = 1..Len(hub.items)
        /\ \A i \in 1..Len(hub.items) : hub.items[i] \in Int /\ hub.items[i] > 0 - hub.changes
    BY <1>1, <1>5, <2>1 DEF Items, PagesInv, CollectionOK
  <2>3. CollectionOK'
    <3>1. Distinct(s)
      <4> SUFFICES ASSUME NEW i \in 1..Len(s), NEW j \in 1..Len(s), s[i] = s[j] PROVE i = j
        BY <2>2 DEF Distinct
      <4>1. CASE i \in 1..Len(hub.items) /\ j \in 1..Len(hub.items)
        BY <2>2, <4>1 DEF PagesInv, CollectionOK, Distinct
      <4>2. CASE i = Len(hub.items) + 1 \/ j = Len(hub.items) + 1
        BY <1>1, <2>2, <4>2
      <4> QED
        BY <2>2, <4>1, <4>2
    <3>2. \A i \in DOMAIN s : s[i] > 0 - (hub.changes + 1)
      <4> TAKE i \in DOMAIN s
      <4>1. CASE i \in 1..Len(hub.items)
        BY <1>1, <2>2, <4>1
      <4>2. CASE i = Len(hub.items) + 1
        BY <1>1, <2>2, <4>2
      <4> QED
        BY <2>2, <4>1, <4>2
    <3> QED
      BY <1>2, <2>1, <3>1, <3>2 DEF CollectionOK
  <2>4. ReadSoFar'
    <3>1. Longer(s, hub.items)
      BY <2>2 DEF Longer
    <3> QED
      BY <1>1, <1>3, <1>5, <2>1, <3>1, ReadsLonger
  <2> QED
    BY <1>4, <2>3, <2>4 DEF PagesInv
<1>6. CASE /\ Shifts(hub.items, hub'.items)
           /\ list'.page = list.page /\ list'.size = list.size /\ list'.got = list.got
           /\ list'.total = list.total /\ list'.whole = list.whole
           /\ list'.shifted = (list.shifted \/ list.got # <<>>)
  <2>1. PICK i \in 1..Len(hub.items) :
            hub'.items = InsertAt(hub.items, i, 0 - hub.changes) \/ hub'.items = RemoveAt(hub.items, i)
    BY <1>1, <1>6 DEF Shifts, Items
  <2>2. PICK low \in Int : low = 0 - hub.changes /\ low - 1 = 0 - (hub.changes + 1)
    BY <1>1
  <2>3. Distinct(hub.items) /\ \A a \in DOMAIN hub.items : hub.items[a] > low
    BY <2>2 DEF PagesInv, CollectionOK
  <2>4. hub'.items \in Items /\ Distinct(hub'.items) /\ \A a \in DOMAIN hub'.items : hub'.items[a] > low - 1
    <3>1. CASE hub'.items = InsertAt(hub.items, i, low)
      BY <1>1, <2>3, <3>1, InsertAtShape, InsertAtDistinct
    <3>2. CASE hub'.items = RemoveAt(hub.items, i)
      <4>1. hub'.items \in Items /\ Distinct(hub'.items) /\ \A a \in DOMAIN hub'.items : hub'.items[a] > low
        BY <1>1, <2>3, <3>2, RemoveAtShape, RemoveAtDistinct
      <4>2. \A a \in DOMAIN hub'.items : hub'.items[a] \in Int
        BY <4>1 DEF Items
      <4> QED
        BY <4>1, <4>2
    <3> QED
      BY <2>1, <2>2, <3>1, <3>2
  <2>5. CollectionOK'
    BY <1>2, <2>2, <2>4 DEF CollectionOK
  <2>6. ReadSoFar'
    BY <1>1, <1>3, <1>6 DEF PagesInv, ReadSoFar, Sure
  <2> QED
    BY <1>4, <2>5, <2>6 DEF PagesInv
<1> QED
  BY <1>2, <1>5, <1>6

\* How long a page is.
LEMMA PageLength ==
    ASSUME NEW page \in Items, NEW items \in Items, NEW e \in Nat, NEW size \in Nat \ {0},
           Len(page) = IF e <= Len(items) THEN Least(e + size, Len(items)) - e ELSE 0
    PROVE  /\ e > Len(items) => Len(page) = 0
           /\ e <= Len(items) => (Len(page) = size /\ e + size <= Len(items)) \/ Len(page) = Len(items) - e
           /\ Len(page) = size => e + size <= Len(items)
           /\ Len(page) > 0 => e + Len(page) <= Len(items)
           /\ Len(page) <= size
<1>1. Len(page) \in Nat /\ Len(items) \in Nat
  BY DEF Items
<1>2. /\ e > Len(items) => Len(page) = 0
      /\ e <= Len(items) /\ e + size < Len(items) => Len(page) = size
      /\ e <= Len(items) /\ e + size >= Len(items) => Len(page) = Len(items) - e
  BY <1>1 DEF Least
<1> QED
  BY <1>1, <1>2

\* PageRead, when nothing has been read yet and there is more.
LEMMA FirstPageGoesOn ==
    ASSUME CallInv, PagesInv, node.phase = "rest", Lists, list.got = <<>>, SameItems,
           More, ReadsOn, UNCHANGED <<node, try, socks, out>>
    PROVE  PagesInv'
<1>1. /\ list \in Readings /\ Op \in Operations /\ hub \in Hubs /\ hub.items \in Items /\ list.got \in Items
      /\ list.page \in Nat \ {0} /\ Len(hub.items) \in Nat
  <2>1. list \in Readings /\ Op \in Operations /\ hub \in Hubs
    BY InACall, OpIsOperation DEF CallInv
  <2>2. hub.items \in Items
    BY <2>1 DEF Hubs
  <2>3. list.got \in Items /\ list.page \in Nat \ {0}
    BY <2>1 DEF Readings
  <2> QED
    BY <2>1, <2>2, <2>3 DEF Items
<1>2. list.page = Op.page /\ list.size = PageSize /\ list.total = 0 /\ ~list.shifted /\ IsFirst
  BY DEF PagesInv, ReadSoFar, IsFirst
<1>3. Op' = Op /\ Lists' = Lists
  BY SameOp
<1>4. Bare' = Bare /\ Enough' = Enough
  BY <1>3, SameAnswers DEF SameItems
<1>5. PICK page \in Items : page = Page(Op.page, PageSize) /\ page = PageNow
  BY <1>1, <1>2, ReadTyped DEF PageNow
<1>6. GotNow = page
  BY <1>2, <1>5, ConcatEmptySeq DEF GotNow, Items
<1>7. Op.all /\ Len(page) < TotalOf(page) /\ page # <<>> /\ TotalNow = TotalOf(page)
  BY <1>2, <1>5, <1>6 DEF More, GoesOn, TotalNow
<1>8. Says("total") /\ TotalNow = Len(hub.items) /\ Len(page) < Len(hub.items)
  <2>1. Len(page) \in Nat
    BY DEF Items
  <2>2. Says("total")
    BY <1>7, <2>1 DEF TotalOf
  <2> QED
    BY <1>7, <2>2 DEF TotalOf
<1>9. ~Bare
  BY <1>8 DEF Says
<1>10. PICK p \in Nat : p = Op.page - 1 /\ Op.page = p + 1
  BY <1>1, <1>2
<1>11. PICK a \in Nat : a = EndOf(Op.page - 1)
  BY <1>10, EndOfFacts
<1>12. EndOf(Op.page) = a + PageSize /\ PageSize \in Nat \ {0}
  BY <1>10, <1>11, EndOfFacts, HubNodesAssumption
<1>13. /\ Agrees(page, hub.items, a)
       /\ Len(page) = IF a <= Len(hub.items) THEN Least(a + PageSize, Len(hub.items)) - a ELSE 0
  BY <1>1, <1>2, <1>5, <1>9, <1>11, <1>12, PageShape
<1>14. /\ list' \in Readings /\ list'.page = CurrentNow + 1 /\ list'.size = SizeNow
       /\ list'.got = page /\ list'.total = Len(hub.items)
       /\ list'.whole = SubSeq(hub.items, a + 1, Len(hub.items)) /\ list'.shifted = list.shifted
  <2>1. WholeNow = SubSeq(hub.items, a + 1, Len(hub.items))
    BY <1>2, <1>7, <1>9, <1>11 DEF WholeNow, From, EndOf
  <2> QED
    BY <1>1, <1>6, <1>8, <2>1, ReadingGoesOn
<1>15. Len(page) \in Nat /\ Len(page) > 0
  BY <1>5, <1>7 DEF Items
<1>16. a <= Len(hub.items) /\ Len(page) = Least(a + PageSize, Len(hub.items)) - a
  BY <1>1, <1>13, <1>15
<1>17. FirstHad' = Len(page)
  BY <1>3, <1>11, <1>12, <1>14, <1>16 DEF FirstHad, EndOf
<1>18. list'.got # <<>> /\ Sure' = Sure
  BY <1>4, <1>7, <1>14 DEF Sure
<1>19. ASSUME Sure
       PROVE  /\ list'.page = Op.page + 1 /\ list'.size = PageSize
              /\ list'.page > Op.page /\ ~(list'.page > Op.page + 1)
  <2>1. Op.page = 1 \/ (Says("page") /\ Says("size"))
    BY <1>7, <1>9, <1>19 DEF Sure, Enough
  <2>2. CurrentNow = Op.page
    BY <1>2, <2>1 DEF CurrentNow, PageOf
  <2>3. SizeNow = PageSize
    <3>1. CASE Says("size")
      BY <1>2, <3>1 DEF SizeNow, SizeOf
    <3>2. CASE ~Says("size")
      <4>1. SizeNow = Len(page) /\ Op.page = 1
        BY <1>2, <1>5, <2>1, <3>2 DEF SizeNow, SizeOf
      <4>2. a = 0
        BY <1>11, <1>12, <4>1 DEF EndOf
      <4> QED
        BY <1>1, <1>8, <1>12, <1>16, <4>1, <4>2 DEF Least
    <3> QED
      BY <3>1, <3>2
  <2> QED
    BY <1>1, <1>2, <1>14, <2>2, <2>3
<1>20. CASE ~Sure
  <2>1. ReadSoFar'
    BY <1>3, <1>4, <1>7, <1>9, <1>18, <1>20, Zenon DEF ReadSoFar
  <2>2. CollectionOK' /\ PagesComplete'
    BY PagesStay DEF PagesInv, CollectionOK, SameItems
  <2> QED
    BY <2>1, <2>2 DEF PagesInv
<1>21. CASE Sure
  <2>1. list'.total <= Len(hub'.items) /\ FirstHad' > 0
    BY <1>1, <1>14, <1>15, <1>17 DEF SameItems
  <2>2. Len(list'.got) = FirstHad' + EndOf(list'.page - 1) - EndOf(Op.page)
    <3>1. list'.page - 1 = Op.page
      BY <1>1, <1>2, <1>19, <1>21
    <3> QED
      BY <1>11, <1>12, <1>14, <1>15, <1>17, <3>1
  <2>3. Stretches(list'.got, hub'.items, EndOf(Op.page - 1), FirstHad', EndOf(Op.page))
    BY <1>11, <1>13, <1>14, <1>15, <1>17 DEF Stretches, Agrees, SameItems
  <2>4. Len(list'.whole) = list'.total - EndOf(Op.page - 1) /\ Agrees(list'.whole, hub'.items, EndOf(Op.page - 1))
    BY <1>1, <1>11, <1>14, <1>16, TailShape DEF SameItems
  <2>5. ReadSoFar'
    BY <1>3, <1>4, <1>7, <1>9, <1>18, <1>19, <1>21, <2>1, <2>2, <2>3, <2>4, Zenon DEF ReadSoFar, EndOf
  <2>6. CollectionOK' /\ PagesComplete'
    BY PagesStay DEF PagesInv, CollectionOK, SameItems
  <2> QED
    BY <2>5, <2>6 DEF PagesInv
<1> QED
  BY <1>20, <1>21

\* ... and when the first page is the last.
LEMMA FirstPageEnds ==
    ASSUME CallInv, PagesInv, node.phase = "rest", Lists, list.got = <<>>, Enough, ~More
    PROVE  IsPrefix(WholeNow, GotNow) /\ Cardinality({GotNow[j] : j \in DOMAIN GotNow}) = Len(GotNow)
<1>1. /\ list \in Readings /\ Op \in Operations /\ hub \in Hubs /\ hub.items \in Items /\ list.got \in Items
      /\ list.page \in Nat \ {0} /\ Len(hub.items) \in Nat /\ hub.items \in Seq(Int) /\ Distinct(hub.items)
  <2>1. list \in Readings /\ Op \in Operations /\ hub \in Hubs
    BY InACall, OpIsOperation DEF CallInv
  <2>2. hub.items \in Items
    BY <2>1 DEF Hubs
  <2>3. list.got \in Items /\ list.page \in Nat \ {0}
    BY <2>1 DEF Readings
  <2> QED
    BY <2>1, <2>2, <2>3 DEF Items, PagesInv, CollectionOK
<1>2. list.page = Op.page /\ list.size = PageSize /\ list.total = 0 /\ IsFirst
  BY DEF PagesInv, ReadSoFar, IsFirst
<1>3. PICK page \in Items : page = Page(Op.page, PageSize) /\ page = PageNow
  BY <1>1, <1>2, ReadTyped DEF PageNow
<1>4. GotNow = page
  BY <1>2, <1>3, ConcatEmptySeq DEF GotNow, Items
<1>5. Op.all => TotalNow = Len(hub.items)
  <2>1. Bare => page = hub.items
    BY <1>3 DEF Page
  <2>2. Op.all => Bare \/ Says("total")
    BY DEF Enough
  <2> QED
    BY <1>2, <1>3, <2>1, <2>2 DEF TotalNow, TotalOf
<1>6. Op.all => Len(page) >= Len(hub.items) \/ page = <<>>
  <2>1. Len(page) \in Nat
    BY DEF Items
  <2>2. ~(Op.all /\ Len(page) < Len(hub.items) /\ page # <<>>)
    BY <1>2, <1>3, <1>4, <1>5 DEF More, GoesOn
  <2> QED
    BY <1>1, <2>1, <2>2
<1>7. IsPrefix(page, page)
  <2>1. Len(page) <= Len(page) /\ \A i \in 1..Len(page) : page[i] = page[i]
    BY DEF Items
  <2> QED
    BY <2>1, AgreeIsPrefix
<1>8. ~Op.all => WholeNow = page
  BY <1>2, <1>3 DEF WholeNow
<1>9. CASE Bare
  <2>1. page = hub.items
    BY <1>3, <1>9 DEF Page
  <2>2. Op.all => WholeNow = page
    <3>1. Op.all => WholeNow = SubSeq(hub.items, 1, Len(hub.items))
      BY <1>2, <1>9 DEF WholeNow, From
    <3> QED
      BY <1>1, <2>1, <3>1, SubSeqFull
  <2> QED
    BY <1>1, <1>4, <1>7, <1>8, <2>1, <2>2, DistinctCounts
<1>10. CASE ~Bare
  <2>1. PICK p \in Nat : p = Op.page - 1 /\ Op.page = p + 1
    BY <1>1, <1>2
  <2>2. PICK a \in Nat : a = EndOf(Op.page - 1)
    BY <2>1, EndOfFacts
  <2>3. EndOf(Op.page) = a + PageSize /\ PageSize \in Nat \ {0}
    BY <2>1, <2>2, EndOfFacts, HubNodesAssumption
  <2>4. /\ Agrees(page, hub.items, a)
        /\ Len(page) = IF a <= Len(hub.items) THEN Least(a + PageSize, Len(hub.items)) - a ELSE 0
    BY <1>1, <1>2, <1>3, <1>10, <2>2, <2>3, PageShape
  <2>5. Len(page) > 0 => a + Len(page) <= Len(hub.items)
    BY <1>1, <2>3, <2>4, PageLength
  <2>6. Distinct(page)
    BY <1>1, <2>4, <2>5, PageDistinct
  <2>7. CASE Op.all
    <3>1. PICK whole \in Items : whole = SubSeq(hub.items, a + 1, Len(hub.items))
      BY <1>1, TailShape
    <3>2. WholeNow = whole
      BY <1>2, <1>10, <2>2, <2>7, <3>1 DEF WholeNow, From, EndOf
    <3>3. Agrees(whole, hub.items, a) /\ Len(whole) = IF a <= Len(hub.items) THEN Len(hub.items) - a ELSE 0
      BY <1>1, <3>1, TailShape
    <3>4. IsPrefix(whole, page)
      BY <1>1, <1>6, <2>3, <2>4, <2>7, <3>3, FirstEnds
    <3> QED
      BY <1>4, <2>6, <3>2, <3>4, DistinctCounts
  <2>8. CASE ~Op.all
    BY <1>4, <1>7, <1>8, <2>6, <2>8, DistinctCounts
  <2> QED
    BY <2>7, <2>8
<1> QED
  BY <1>9, <1>10

\* PageRead, after other pages, when there is more.
LEMMA LaterPageGoesOn ==
    ASSUME CallInv, PagesInv, node.phase = "rest", Lists, list.got # <<>>, SameItems,
           More, ReadsOn, UNCHANGED <<node, try, socks, out>>
    PROVE  PagesInv'
<1>1. /\ list \in Readings /\ Op \in Operations /\ hub \in Hubs /\ hub.items \in Items /\ list.got \in Items
      /\ list.page \in Nat \ {0} /\ Len(hub.items) \in Nat
  <2>1. list \in Readings /\ Op \in Operations /\ hub \in Hubs
    BY InACall, OpIsOperation DEF CallInv
  <2>2. hub.items \in Items
    BY <2>1 DEF Hubs
  <2>3. list.got \in Items /\ list.page \in Nat \ {0}
    BY <2>1 DEF Readings
  <2> QED
    BY <2>1, <2>2, <2>3 DEF Items
<1>2. Op.all /\ ~Bare /\ ~IsFirst
  BY DEF PagesInv, ReadSoFar, IsFirst
<1>3. Op' = Op /\ Lists' = Lists
  BY SameOp
<1>4. Bare' = Bare /\ Enough' = Enough
  BY <1>3, SameAnswers DEF SameItems
<1>5. PICK page \in Items : page = PageNow
  BY <1>1, ReadTyped
<1>6. GotNow = list.got \o page /\ TotalNow = list.total /\ WholeNow = list.whole
  BY <1>2, <1>5 DEF GotNow, TotalNow, WholeNow
<1>7. page # <<>> /\ Len(page) >= SizeOf(page) /\ Len(list.got \o page) < list.total
  BY <1>2, <1>5, <1>6 DEF More, GoesOn
<1>8. /\ list' \in Readings /\ list'.page = list.page + 1 /\ list'.size = list.size
      /\ list'.got = list.got \o page /\ list'.total = list.total
      /\ list'.whole = list.whole /\ list'.shifted = list.shifted
  <2>1. CurrentNow = list.page /\ SizeNow = list.size
    BY <1>2 DEF CurrentNow, SizeNow
  <2> QED
    BY <1>1, <1>6, <2>1, ReadingGoesOn
<1>9. list'.got # <<>> /\ Sure' = Sure
  <2>1. Len(list.got \o page) = Len(list.got) + Len(page) /\ Len(list.got) \in Nat /\ Len(page) \in Nat
    BY <1>1, ConcatProperties DEF Items
  <2>2. PICK s : s = list.got \o page
    OBVIOUS
  <2>3. Len(page) # 0
    BY <1>7 DEF Items
  <2>4. Len(s) > 0
    BY <2>1, <2>2, <2>3
  <2>5. s # <<>>
    BY <2>4
  <2> QED
    BY <1>4, <1>8, <2>2, <2>5 DEF Sure
<1>10. CASE ~Sure
  <2>1. ReadSoFar'
    BY <1>2, <1>3, <1>4, <1>9, <1>10, Zenon DEF ReadSoFar
  <2>2. CollectionOK' /\ PagesComplete'
    BY PagesStay DEF PagesInv, CollectionOK, SameItems
  <2> QED
    BY <2>1, <2>2 DEF PagesInv
<1>11. CASE Sure
  <2>1. PICK a \in Nat : a = EndOf(Op.page - 1)
    BY <1>11, ReadingNumbers
  <2>2. PICK b \in Nat : b = EndOf(Op.page)
    BY <1>11, ReadingNumbers
  <2>3. PICK e \in Nat : e = EndOf(list.page - 1)
    BY <1>11, ReadingNumbers
  <2>4. PICK first \in Nat \ {0} : first = FirstHad
    BY <1>11, ReadingNumbers
  <2>5. /\ Len(list.got) = first + e - b /\ e >= b /\ PageSize \in Nat \ {0} /\ EndOf(list.page) = e + PageSize
        /\ list.total <= Len(hub.items) /\ Op.page \in Nat \ {0} /\ b = a + PageSize
        /\ (b < list.total => first = b - a) /\ (b >= list.total => first = list.total - a)
        /\ e > b => e <= Len(hub.items)
    BY <1>11, <2>1, <2>2, <2>3, <2>4, ReadingNumbers
  <2>6. /\ Stretches(list.got, hub.items, a, first, b) /\ Agrees(list.whole, hub.items, a)
        /\ Len(list.whole) = list.total - a
    BY <1>11, <2>1, <2>2, <2>4 DEF PagesInv, ReadSoFar
  <2>7. list.size = PageSize /\ list.page > Op.page /\ page = Page(list.page, PageSize)
    BY <1>5, <1>11 DEF PagesInv, ReadSoFar, PageNow
  <2>8. /\ Agrees(page, hub.items, e)
        /\ Len(page) = IF e <= Len(hub.items) THEN Least(e + PageSize, Len(hub.items)) - e ELSE 0
    BY <1>1, <1>2, <2>3, <2>5, <2>7, PageShape
  <2>9. /\ list.got \o page \in Items /\ Len(list.got \o page) = first + e - b + Len(page)
        /\ Stretches(list.got \o page, hub.items, a, first, b)
    <3>1. Agrees(page, hub.items, e) /\ Stretches(list.got, hub.items, a, first, b)
      BY <2>6, <2>8
    <3>2. Len(list.got) = first + e - b /\ e >= b
      BY <2>5
    <3> QED
      BY <1>1, <3>1, <3>2, ReadMore
  <2>10. PICK size \in Nat \ {0} : size = PageSize
    BY <2>5
  <2>11. PICK long \in Nat : long = Len(page)
    BY DEF Items
  <2>12. long = IF e <= Len(hub.items) THEN Least(e + size, Len(hub.items)) - e ELSE 0
    BY <2>8, <2>10, <2>11
  <2>13. long = size /\ e + size <= Len(hub.items)
    <3>1. /\ long <= size
          /\ long = size => e + size <= Len(hub.items)
      BY <1>1, <2>8, <2>10, <2>11, PageLength
    <3>2. CASE Says("size")
      <4>1. SizeOf(page) = size
        BY <2>7, <2>10, <3>2 DEF SizeOf
      <4>2. long >= size
        BY <1>7, <2>11, <4>1
      <4>3. long = size
        BY <3>1, <4>2
      <4> QED
        BY <3>1, <4>3
    <3>3. CASE ~Says("size")
      <4>1. Op.page = 1
        BY <1>2, <1>11, <3>3 DEF Sure, Enough
      <4>2. a = 0 /\ b = size
        BY <2>1, <2>2, <2>5, <2>10, <4>1 DEF EndOf
      <4>3. PICK total \in Nat : total = list.total
        BY <1>1 DEF Readings
      <4>4. PICK n \in Nat : n = Len(hub.items)
        BY <1>1
      <4>5. /\ size < total => first = size
            /\ size >= total => first = total
            /\ total <= n /\ e >= size /\ (e > size => e <= n)
            /\ long = IF e <= n THEN Least(e + size, n) - e ELSE 0
            /\ first + e - size + long < total
        BY <1>7, <2>5, <2>9, <2>11, <2>12, <4>2, <4>3, <4>4
      <4>6. long = size
        <5>1. long = IF e > n THEN 0 ELSE IF e + size < n THEN size ELSE n - e
          BY <4>5 DEF Least
        <5> QED
          BY <4>5, <5>1
      <4> QED
        BY <3>1, <4>6
    <3> QED
      BY <3>2, <3>3
  <2>14. FirstHad' = first
    BY <1>3, <1>8, <2>4 DEF FirstHad, EndOf
  <2>15. list'.page - 1 = list.page /\ list'.page > Op.page
    <3>1. PICK q \in Nat \ {0} : q = list.page
      BY <1>1
    <3>2. PICK p \in Nat \ {0} : p = Op.page
      BY <2>5
    <3>3. list'.page = q + 1 /\ q > p
      BY <1>8, <2>7, <3>1, <3>2
    <3> QED
      BY <3>1, <3>2, <3>3
  <2>16. EndOf(list'.page - 1) = e + PageSize
    BY <2>5, <2>15
  <2>17. Len(list'.got) = first + EndOf(list'.page - 1) - b
    <3>1. Len(list'.got) = first + e - b + PageSize
      BY <1>8, <2>9, <2>10, <2>11, <2>13
    <3> QED
      BY <2>5, <2>16, <3>1
  <2>18. /\ Stretches(list'.got, hub'.items, a, first, b) /\ Agrees(list'.whole, hub'.items, a)
         /\ Len(list'.whole) = list'.total - a /\ list'.total <= Len(hub'.items)
    BY <1>8, <2>5, <2>6, <2>9 DEF SameItems
  <2>19. EndOf(list'.page - 1) <= Len(hub'.items) /\ first > 0 /\ list'.size = PageSize
    BY <1>8, <2>7, <2>10, <2>13, <2>16 DEF SameItems
  <2>20. ReadSoFar'
    BY <1>2, <1>3, <1>4, <1>9, <1>11, <2>1, <2>2, <2>14, <2>15, <2>17, <2>18, <2>19, Zenon DEF ReadSoFar, EndOf
  <2>21. CollectionOK' /\ PagesComplete'
    BY PagesStay DEF PagesInv, CollectionOK, SameItems
  <2> QED
    BY <2>20, <2>21 DEF PagesInv
<1> QED
  BY <1>10, <1>11

\* ... and when it is the last page.
LEMMA LaterPageEnds ==
    ASSUME CallInv, PagesInv, node.phase = "rest", Lists, list.got # <<>>, Sure, ~More
    PROVE  IsPrefix(WholeNow, GotNow) /\ Cardinality({GotNow[j] : j \in DOMAIN GotNow}) = Len(GotNow)
<1>1. /\ list \in Readings /\ Op \in Operations /\ hub \in Hubs /\ hub.items \in Items /\ list.got \in Items
      /\ list.page \in Nat \ {0} /\ Len(hub.items) \in Nat /\ list.whole \in Items /\ Distinct(hub.items)
      /\ list.total \in Nat
  BY InACall, OpIsOperation, SMTT(30) DEF CallInv, Hubs, Readings, Items, PagesInv, CollectionOK
<1>2. Op.all /\ ~Bare /\ list.size = PageSize /\ list.page > Op.page /\ ~IsFirst
  BY DEF PagesInv, ReadSoFar, IsFirst
<1>3. PICK page \in Items : page = Page(list.page, PageSize) /\ page = PageNow
  BY <1>1, <1>2, ReadTyped DEF PageNow
<1>4. GotNow = list.got \o page /\ TotalNow = list.total /\ WholeNow = list.whole
  BY <1>2, <1>3 DEF GotNow, TotalNow, WholeNow
<1>5. PICK a \in Nat : a = EndOf(Op.page - 1)
  BY ReadingNumbers
<1>6. PICK b \in Nat : b = EndOf(Op.page)
  BY ReadingNumbers
<1>7. PICK e \in Nat : e = EndOf(list.page - 1)
  BY ReadingNumbers
<1>8. PICK first \in Nat \ {0} : first = FirstHad
  BY ReadingNumbers
<1>9. /\ Len(list.got) = first + e - b /\ e >= b /\ (e > b => e <= Len(hub.items)) /\ PageSize \in Nat \ {0}
      /\ EndOf(list.page) = e + PageSize /\ list.total <= Len(hub.items) /\ b = a + PageSize
      /\ (b < list.total => first = b - a) /\ (b >= list.total => first = list.total - a)
  BY <1>5, <1>6, <1>7, <1>8, ReadingNumbers
<1>10. /\ Stretches(list.got, hub.items, a, first, b) /\ Agrees(list.whole, hub.items, a)
       /\ Len(list.whole) = list.total - a
  BY <1>5, <1>6, <1>8 DEF PagesInv, ReadSoFar
<1>11. /\ Agrees(page, hub.items, e)
       /\ Len(page) = IF e <= Len(hub.items) THEN Least(e + PageSize, Len(hub.items)) - e ELSE 0
  BY <1>1, <1>2, <1>3, <1>7, <1>9, PageShape
<1>12. /\ list.got \o page \in Items /\ Len(list.got \o page) = first + e - b + Len(page)
       /\ Stretches(list.got \o page, hub.items, a, first, b)
  <2>1. Agrees(page, hub.items, e) /\ Stretches(list.got, hub.items, a, first, b)
    BY <1>10, <1>11
  <2>2. Len(list.got) = first + e - b /\ e >= b
    BY <1>9
  <2> QED
    BY <1>1, <2>1, <2>2, ReadMore
<1>13. PICK s \in Items : s = list.got \o page
  BY <1>12
<1>14. PICK last \in Nat : last = Len(page)
  BY DEF Items
<1>15. Len(s) = first + e - b + last /\ Stretches(s, hub.items, a, first, b)
  BY <1>12, <1>13, <1>14
<1>16. /\ e > Len(hub.items) => last = 0
       /\ e <= Len(hub.items) => (last = PageSize /\ e + PageSize <= Len(hub.items)) \/ last = Len(hub.items) - e
  BY <1>1, <1>9, <1>11, <1>14, PageLength
<1>17. Len(s) >= list.total \/ last # PageSize
  <2>1. ~(Len(s) < list.total /\ page # <<>> /\ Len(page) >= SizeOf(page))
    BY <1>2, <1>3, <1>4, <1>13 DEF More, GoesOn
  <2>2. Len(s) \in Nat /\ (page = <<>> => Len(page) = 0)
    BY DEF Items
  <2>3. CASE page = <<>>
    <3>1. last = 0 /\ PageSize # 0
      BY <1>9, <1>14, <2>2, <2>3
    <3> QED
      BY <3>1
  <2>4. CASE ~(Len(s) < list.total)
    BY <1>1, <2>2, <2>4
  <2>5. CASE ~(Len(page) >= SizeOf(page))
    <3>1. SizeOf(page) = PageSize
      BY <1>2, <1>14, <2>5 DEF SizeOf
    <3> QED
      BY <1>9, <1>14, <2>5, <3>1
  <2> QED
    BY <2>1, <2>3, <2>4, <2>5
<1>18. IsPrefix(list.whole, s) /\ Distinct(s)
  <2>1. PICK total \in Nat : total = list.total
    BY <1>1
  <2>2. PICK size \in Nat \ {0} : size = PageSize
    BY <1>9
  <2>3. /\ b = a + size /\ (b < total => first = b - a) /\ (b >= total => first = total - a) /\ total <= Len(hub.items)
        /\ Len(s) = first + e - b + last /\ e >= b /\ (e > b => e <= Len(hub.items))
        /\ Stretches(s, hub.items, a, first, b)
    BY <1>9, <1>15, <2>1, <2>2
  <2>4. /\ e > Len(hub.items) => last = 0
        /\ e <= Len(hub.items) => (last = size /\ e + size <= Len(hub.items)) \/ last = Len(hub.items) - e
        /\ Agrees(list.whole, hub.items, a) /\ Len(list.whole) = total - a
        /\ Len(s) >= total \/ last # size
    BY <1>10, <1>16, <1>17, <2>1, <2>2
  <2> QED
    BY <1>1, <2>3, <2>4, ReadEnds, ZenonT(60)
<1> QED
  BY <1>4, <1>13, <1>18, DistinctCounts

\* PageRead.
LEMMA PageReadReads == CallInv /\ PagesInv /\ PageRead => PagesInv'
<1> SUFFICES ASSUME CallInv, PagesInv, PageRead PROVE PagesInv'
  OBVIOUS
<1>1. node.phase = "rest" /\ Lists /\ SameItems
  BY PageReadCases DEF SameItems
<1>2. socks \in Sockets /\ hub \in Hubs /\ list \in Readings /\ Op \in Operations
  BY <1>1, InACall, OpIsOperation DEF CallInv
<1>3. CASE More /\ ReadsOn /\ UNCHANGED <<node, try, socks, out>>
  BY <1>1, <1>3, FirstPageGoesOn, LaterPageGoesOn
<1>4. CASE Fails("plain", socks)
  BY <1>1, <1>2, <1>4, FailsReads
<1>5. CASE ~More /\ ItemEnds(ListNow, socks)
  <2>1. GotNow \in Items /\ WholeNow \in Items
    BY <1>2, ReadTyped
  <2>2. ListNow \in Results
    BY <1>2, <2>1, ListTyped DEF ListNow
  <2>3. Sure => /\ IsPrefix(WholeNow, GotNow)
                /\ Cardinality({GotNow[j] : j \in DOMAIN GotNow}) = Len(GotNow)
    BY <1>1, <1>5, FirstPageEnds, LaterPageEnds DEF Sure
  <2>4. ListNow.got = GotNow /\ ListNow.whole = WholeNow /\ ListNow.sure = Sure
    BY DEF ListNow, Sure
  <2>5. ListIsTrue(ListNow)
    BY <2>3, <2>4, Zenon DEF ListIsTrue
  <2> QED
    BY <1>1, <1>5, <2>2, <2>5, ItemEndsReads
<1> QED
  BY <1>3, <1>4, <1>5, PageReadCases

\* Every other step leaves the collection alone, and either makes the call again, ends the
\* item, or leaves the reading too.
LEMMA OtherStepsRead ==
    ASSUME CallInv, PagesInv,
           \/ StartItem \/ NodeEnds \/ ResourceRead \/ Carried \/ Refused
           \/ \E k \in DOMAIN socks :
                \/ ReadyDecoded(k) \/ ConnectFails(k) \/ AckFails(k) \/ ListenFails(k) \/ Closed(k)
                \/ ConnectionReady(k) \/ DropsUnheard(k) \/ Subscribed(k) \/ EventArrives(k)
                \/ PublishTaken(k) \/ Published(k)
    PROVE  PagesInv'
<1>1. node \in Nodes /\ socks \in Sockets /\ hub \in Hubs /\ "gone" \in Stages /\ "closing" \in Stages /\ FALSE \in BOOLEAN
  BY InACall DEF Stages
<1>2. \A x \in Socks : x.beat \in BOOLEAN
  BY DEF Socks
<1>3. \A k \in DOMAIN socks, beat \in BOOLEAN : Dropped(k, beat) \in Sockets
  BY <1>1, SocketsAlike DEF Alike
<1>4. UNCHANGED hub => SameItems
  BY DEF SameItems
<1>5. \A kind \in {"error", "did", "event", "detail"} : [kind |-> kind] \in Results /\ ListIsTrue([kind |-> kind])
  BY DEF Results, ListIsTrue
<1>6. Effect => SameItems
  BY <1>1 DEF Effect, SameItems, Hubs
<1>7. ASSUME NEW kind \in {"error", "did", "event", "detail"}, NEW sockets, ItemEnds([kind |-> kind], sockets), SameItems
      PROVE  PagesInv'
  BY <1>5, <1>7, ItemEndsReads
<1>8. ASSUME UNCHANGED <<node, list, out>>, SameItems PROVE PagesInv'
  BY <1>8, ReadingStays
<1>9. ASSUME NEW k \in DOMAIN socks, NEW err, NEW beat \in BOOLEAN, GivesUp(k, err, beat), UNCHANGED hub PROVE PagesInv'
  <2>1. CASE Fails(err, Dropped(k, beat))
    BY <1>3, <1>4, <1>9, <2>1, FailsReads
  <2>2. CASE UNCHANGED <<node, try, list, out>>
    BY <1>4, <1>8, <1>9, <2>2
  <2> QED
    BY <1>9, <2>1, <2>2 DEF GivesUp
<1>10. ASSUME NEW k, NEW verdict, Closes(k, verdict) PROVE PagesInv'
  <2>1. node'.plan = node.plan /\ node'.item = node.item /\ node'.phase = node.phase
    BY <1>1, <1>10 DEF Closes, Nodes
  <2>2. list' = list /\ out' = out /\ SameItems
    BY <1>10 DEF Closes, SameItems
  <2> QED
    BY <2>1, <2>2, ReadingStays
<1>11. CASE StartItem
  <2>1. SameItems
    BY <1>4, <1>11 DEF StartItem
  <2>2. CASE CallsHub([retries |-> 0, renewed |-> FALSE], socks)
    BY <1>1, <2>1, <2>2, CallsHubReads
  <2>3. CASE ItemEnds([kind |-> "error"], socks)
    BY <1>7, <2>1, <2>3
  <2> QED
    BY <1>11, <2>2, <2>3 DEF StartItem
<1>12. CASE NodeEnds
  <2>1. node' = [node EXCEPT !.phase = "done"] /\ list' = list /\ out' = out /\ SameItems
    BY <1>12 DEF NodeEnds, SameItems
  <2>2. node'.phase = "done"
    BY <1>1, <2>1 DEF Nodes
  <2>3. ReadSoFar'
    BY <2>2 DEF ReadSoFar
  <2>4. CollectionOK' /\ PagesComplete'
    BY <2>1, PagesStay DEF PagesInv, CollectionOK, SameItems
  <2> QED
    BY <2>3, <2>4 DEF PagesInv
<1>13. CASE ResourceRead
  BY <1>4, <1>7, <1>13 DEF ResourceRead
<1>14. CASE Carried
  <2>1. SameItems
    BY <1>6, <1>14 DEF Carried
  <2>2. CASE ItemEnds([kind |-> "did"], socks)
    BY <1>7, <2>1, <2>2
  <2>3. CASE \E e \in {"transient", "plain"} : Fails(e, socks)
    BY <1>1, <2>1, <2>3, FailsReads
  <2> QED
    BY <1>14, <2>2, <2>3 DEF Carried
<1>15. CASE Refused
  <2>1. PICK e \in Errors : Fails(e, socks) /\ UNCHANGED hub
    BY <1>15 DEF Refused
  <2> QED
    BY <1>1, <1>4, <2>1, FailsReads
<1>16. ASSUME NEW k \in DOMAIN socks,
              \/ ReadyDecoded(k) \/ ConnectFails(k) \/ AckFails(k) \/ ListenFails(k) \/ Closed(k)
              \/ ConnectionReady(k) \/ DropsUnheard(k) \/ Subscribed(k) \/ EventArrives(k)
              \/ PublishTaken(k) \/ Published(k)
       PROVE  PagesInv'
  <2>1. socks[k].beat \in BOOLEAN
    BY <1>2, InACall
  <2>2. CASE ReadyDecoded(k)
    <3>1. CASE GivesUp(k, "plain", socks[k].beat) /\ UNCHANGED hub
      BY <1>9, <2>1, <3>1
    <3>2. CASE UNCHANGED <<node, try, list, hub, out>>
      BY <1>4, <1>8, <3>2
    <3> QED
      BY <2>2, <3>1, <3>2 DEF ReadyDecoded
  <2>3. CASE ConnectFails(k)
    BY <1>9, <2>1, <2>3 DEF ConnectFails
  <2>4. CASE AckFails(k)
    BY <1>9, <2>4 DEF AckFails
  <2>5. CASE ListenFails(k)
    BY <1>10, <2>5 DEF ListenFails
  <2>6. CASE Closed(k)
    <3>1. UNCHANGED hub
      BY <2>6 DEF Closed
    <3>2. CASE UNCHANGED <<node, try, list, out>>
      BY <1>4, <1>8, <3>1, <3>2
    <3>3. CASE node.verdict.kind = "event" /\ ItemEnds(node.verdict, Dropped(k, FALSE))
      <4>1. node.verdict = [kind |-> "event"]
        BY <1>1, <3>3 DEF Nodes, Verdicts, Open
      <4> QED
        BY <1>4, <1>7, <3>1, <3>3, <4>1
    <3>4. CASE Fails(node.verdict.err, Dropped(k, FALSE))
      BY <1>3, <1>4, <3>1, <3>4, FailsReads
    <3> QED
      BY <2>6, <3>2, <3>3, <3>4 DEF Closed
  <2>7. CASE ConnectionReady(k) \/ DropsUnheard(k)
    BY <1>4, <1>8, <2>7 DEF ConnectionReady, DropsUnheard
  <2>8. CASE Subscribed(k)
    <3>1. CASE Stays(k, "listening")
      BY <1>4, <1>8, <3>1 DEF Stays
    <3>2. CASE Closes(k, Open)
      BY <1>10, <3>2
    <3> QED
      BY <2>8, <3>1, <3>2 DEF Subscribed
  <2>9. CASE EventArrives(k)
    <3>1. PICK e \in Events :
            \/ Closes(k, IF Readable(e) THEN [kind |-> "event"] ELSE [kind |-> "error", err |-> "plain"])
            \/ /\ UNCHANGED hub
               /\ IF Readable(e) THEN ItemEnds([kind |-> "event"], socks) ELSE Fails("plain", socks)
      BY <2>9 DEF EventArrives
    <3>2. CASE Closes(k, IF Readable(e) THEN [kind |-> "event"] ELSE [kind |-> "error", err |-> "plain"])
      BY <1>10, <3>2
    <3>3. CASE UNCHANGED hub /\ ItemEnds([kind |-> "event"], socks)
      BY <1>4, <1>7, <3>3
    <3>4. CASE UNCHANGED hub /\ Fails("plain", socks)
      BY <1>1, <1>4, <3>4, FailsReads
    <3> QED
      BY <3>1, <3>2, <3>3, <3>4
  <2>10. CASE PublishTaken(k)
    BY <1>6, <1>8, <2>10 DEF PublishTaken
  <2>11. CASE Published(k)
    BY <1>4, <1>7, <2>11 DEF Published
  <2> QED
    BY <1>16, <2>2, <2>3, <2>4, <2>5, <2>6, <2>7, <2>8, <2>9, <2>10, <2>11
<1> QED
  BY <1>11, <1>12, <1>13, <1>14, <1>15, <1>16

\* The beginning: the collection is numbered.
LEMMA PagesBegin == HubNodesBegin => PagesInv
<1> SUFFICES ASSUME HubNodesBegin PROVE PagesInv
  OBVIOUS
<1>1. node.phase = "next" /\ out = <<>>
  BY DEF HubNodesBegin
<1>2. PICK n \in Collections : hub.items = [i \in 1..n |-> i] /\ hub.changes = 0
  BY DEF HubNodesBegin
<1>3. CollectionOK
  BY <1>2, HubNodesAssumption DEF CollectionOK, Distinct
<1> QED
  BY <1>1, <1>3 DEF PagesInv, ReadSoFar, PagesComplete

\* PagesComplete (collectAllPages): whatever the sizes of the collection and its pages, and
\* whatever is added at its end while it is read, a list holds every item that was there at
\* the first page, in order and none twice, unless the collection was changed elsewhere
\* meanwhile, or the answers did not tell what reading all of it takes.
THEOREM ListsAreComplete == HubNodesSpec => []PagesComplete
<1>1. HubNodesBegin => CallInv /\ PagesInv
  BY CallsBegin, PagesBegin
<1>2. CallInv /\ PagesInv /\ [HubNodesSteps]_hvars => CallInv' /\ PagesInv'
  <2> SUFFICES ASSUME CallInv, PagesInv, [HubNodesSteps]_hvars PROVE CallInv' /\ PagesInv'
    OBVIOUS
  <2>1. CallInv'
    BY StepsKeep
  <2>2. CASE UNCHANGED hvars
    BY <2>1, <2>2, ReadingStays DEF hvars, SameItems
  <2>3. CASE PageRead
    BY <2>1, <2>3, PageReadReads
  <2>4. CASE HubChanges
    BY <2>1, <2>4, HubChangesReads
  <2>5. CASE HubNodesSteps /\ ~PageRead /\ ~HubChanges
    BY <2>1, <2>5, OtherStepsRead DEF HubNodesSteps, OwnSteps, HubSteps
  <2> QED
    BY <2>1, <2>2, <2>3, <2>4, <2>5
<1>3. PagesInv => PagesComplete
  BY DEF PagesInv
<1> QED
  BY <1>1, <1>2, <1>3, PTL DEF HubNodesSpec

--------------------------------------------------------------------------------
(* The MCP server.                                                         *)

McpPhases == {"next", "sent", "done", "threw"}
Asking == [catalog : Catalogs, request : Requests]
Loops == [op : {"validate", "list", "call"}, goOn : BOOLEAN, item : Nat, calls : Nat, phase : McpPhases,
          asked : {Nobody} \cup Asking]
Made == {ran[i] : i \in DOMAIN ran}

\* A call that is on its way is one the limits allow, and the count has it already.
OnItsWay ==
    LET catalog == mcp.asked.catalog r == mcp.asked.request IN
    /\ mcp.asked \in Asking /\ ~Throws(catalog, r) /\ Runs(catalog, r, mcp.calls)
    /\ Len(ran) < mcp.calls /\ Count(r) <= mcp.calls

McpInv ==
    /\ mcp \in Loops /\ ran \in Seq(Made) /\ Len(ran) <= mcp.calls
    /\ mcp.phase = "sent" => OnItsWay
    /\ GovernedCalls
--------------------------------------------------------------------------------
\* The numbers a request is limited by.
LEMMA LimitsAreNumbers ==
    ASSUME NEW r \in Requests
    PROVE  Budget(r) \in Int /\ Count(r) \in Int
<1>1. r.max \in Int /\ r.count \in Int /\ r.sibling.max \in Int /\ r.own.max \in Int
  BY McpServerAssumption
<1>2. Hub(r).max \in Int
  BY <1>1 DEF Hub
<1>3. Budget(r) \in Int
  BY <1>1, <1>2 DEF Budget
<1> QED
  BY <1>1, <1>3 DEF Count

\* The next ordinal is one the count has not reached.
LEMMA OrdinalGrows ==
    ASSUME NEW r \in Requests, mcp \in Loops
    PROVE  Ordinal(r) \in Nat /\ Ordinal(r) > mcp.calls /\ Count(r) <= Ordinal(r)
<1>1. Count(r) \in Int /\ mcp.calls \in Nat
  BY LimitsAreNumbers DEF Loops
<1> QED
  BY <1>1 DEF Ordinal

\* The value of an argument that is not given is a value.
LEMMA NullIsValue == Null \in Values
<1>1. ASSUME NEW K, NEW N, NEW S, NEW k \in K, NEW n \in N, NEW says \in S
      PROVE  [k |-> k, n |-> n, says |-> says] \in [k : K, n : N, says : S]
  OBVIOUS
<1>2. "null" \in Kinds \cup {"null"} /\ 0 \in Int /\ "" \in Kinds \cup {"", "word"}
  OBVIOUS
<1> QED
  BY <1>1, <1>2, Zenon DEF Null, Values

\* Reading a definition leaves numbers numbers and schemas schemas.
LEMMA ReadShape ==
    ASSUME NEW raw, IsDefinition(raw)
    PROVE  /\ Read(raw).execRows \in Int
           /\ \A x \in DOMAIN Read(raw).params : Read(raw).params[x] \in Schemas
<1>1. /\ raw.execRows \in Int /\ raw.maxRows \in Int /\ {"provider", "execRows", "params"} \subseteq DOMAIN raw
      /\ \A x \in DOMAIN raw.params : raw.params[x] \in Schemas
  BY DEF IsDefinition
<1>2. ASSUME NEW s \in Schemas PROVE [s EXCEPT !.default = BuilderDefault(s)] \in Schemas
  <2>1. PICK v \in Values : v = s.default
    BY DEF Schemas
  <2>2. PICK t \in Kinds : t = s.type
    BY DEF Schemas
  <2>3. Null \in Values
    BY NullIsValue
  <2>4. [v EXCEPT !.k = t] \in Values
    BY DEF Values
  <2>5. BuilderDefault(s) \in Values
    BY <2>1, <2>2, <2>3, <2>4 DEF BuilderDefault
  <2> QED
    BY <2>5 DEF Schemas
<1>3. CASE raw.visual
  <2>1. PICK params : params = [x \in DOMAIN raw.params |-> [raw.params[x] EXCEPT !.default = BuilderDefault(raw.params[x])]]
    OBVIOUS
  <2>2. \A x \in DOMAIN params : params[x] \in Schemas
    BY <1>1, <1>2, <2>1
  <2>3. PICK rows \in Int : rows = IF raw.execRows = 0 THEN raw.maxRows ELSE raw.execRows
    BY <1>1
  <2>4. PICK provider : provider = IF raw.provider = "tools" THEN "tools" ELSE "sql"
    OBVIOUS
  <2>5. Read(raw) = [raw EXCEPT !.provider = provider, !.execRows = rows, !.params = params]
    BY <1>1, <1>3, <2>1, <2>3, <2>4 DEF Read
  <2>6. Read(raw).execRows = rows /\ Read(raw).params = params
    BY <1>1, <2>5
  <2> QED
    BY <2>2, <2>6
<1>4. CASE ~raw.visual
  BY <1>1, <1>4 DEF Read
<1> QED
  BY <1>3, <1>4

\* The arguments of a call are values.
LEMMA ArgumentsAreValues ==
    ASSUME NEW d, \A x \in DOMAIN d.params : d.params[x] \in Schemas, NEW r \in Requests
    PROVE  LimitOf(Coerce(d, r.params)) \in Int
<1>1. PICK p : p = Coerce(d, r.params)
  OBVIOUS
<1>2. Null \in Values
  BY NullIsValue
<1>3. \A x : Given(r.params, x) \in Values
  BY <1>2, McpServerAssumption DEF Given
<1>4. \A x \in DOMAIN d.params : p[x] \in Values
  <2> TAKE x \in DOMAIN d.params
  <2>1. PICK s \in Schemas : s = d.params[x]
    OBVIOUS
  <2>2. PICK v \in Values : v = Given(r.params, x)
    BY <1>3
  <2>3. s.default \in Values /\ [v EXCEPT !.k = s.type] \in Values
    BY DEF Schemas, Values
  <2>4. p[x] = IF Missing(s, v) THEN s.default ELSE [v EXCEPT !.k = s.type]
    BY <1>1, <2>1, <2>2 DEF Coerce
  <2> QED
    BY <2>3, <2>4
<1>5. DOMAIN p = DOMAIN d.params
  BY <1>1 DEF Coerce
<1>6. \A x : Given(p, x) \in Values
  BY <1>2, <1>4, <1>5 DEF Given
<1>7. LimitOf(p) \in Int
  <2>1. PICK v \in Values : v = IF Given(p, "limite") # Null THEN Given(p, "limite") ELSE Given(p, "limit")
    BY <1>6
  <2>2. v.n \in Int /\ LimitOf(p) = IF v.k = "num" \/ (v.k = "text" /\ v.says = "num") THEN v.n ELSE 0
    BY <2>1 DEF Values, LimitOf
  <2> QED
    BY <2>2
<1> QED
  BY <1>1, <1>7

\* A call that is on its way may return at least one row.
LEMMA RowsAllowed ==
    ASSUME OnItsWay
    PROVE  LET most == EffectiveRows(Asked, Coerce(Asked, mcp.asked.request.params)) IN most \in Int /\ most > 0
<1>1. PICK catalog \in Catalogs, r \in Requests : mcp.asked = [catalog |-> catalog, request |-> r]
  BY DEF OnItsWay, Asking
<1>2. mcp.asked.catalog = catalog /\ mcp.asked.request = r
  BY <1>1
<1>3. \E d \in Registry(catalog) : d.name = r.name
  BY <1>2 DEF OnItsWay, Runs, Admits
<1>4. Asked \in Registry(catalog)
  BY <1>2, <1>3 DEF Asked
<1>5. WellFormed(Asked)
  BY <1>2, <1>4 DEF OnItsWay, Throws, Registers
<1>6. PICK i \in DOMAIN catalog : Asked = Read(catalog[i])
  BY <1>4 DEF Registry
<1>7. IsDefinition(catalog[i])
  BY McpServerAssumption
<1>8. Asked.execRows \in Int /\ \A x \in DOMAIN Asked.params : Asked.params[x] \in Schemas
  BY <1>6, <1>7, ReadShape
<1>9. PICK limit \in Int : limit = LimitOf(Coerce(Asked, r.params))
  BY <1>8, ArgumentsAreValues
<1>10. Asked.maxRows \in Int /\ Asked.maxRows > 0 /\ (Asked.provider = "sql" => Asked.execRows > 0)
  BY <1>5, McpServerAssumption DEF WellFormed
<1>11. PICK most \in Int : most > 0 /\ most = IF Asked.provider = "sql" THEN Smaller(Asked.maxRows, Asked.execRows) ELSE Asked.maxRows
  BY <1>8, <1>10 DEF Smaller
<1>12. EffectiveRows(Asked, Coerce(Asked, r.params)) = IF limit > 0 THEN Smaller(most, limit) ELSE most
  BY <1>9, <1>11 DEF EffectiveRows
<1>13. (IF limit > 0 THEN Smaller(most, limit) ELSE most) \in Int /\ (IF limit > 0 THEN Smaller(most, limit) ELSE most) > 0
  BY <1>11 DEF Smaller
<1> QED
  BY <1>2, <1>12, <1>13--------------------------------------------------------------------------------
\* What the property says of one executed call.
Governs(i, c) ==
    LET r == c.by.request d == CHOOSE e \in Registry(c.by.catalog) : e.name = r.name IN
    /\ Budget(r) > 0 => i <= Budget(r) /\ Count(r) <= Budget(r)
    /\ r.name \in Listed(c.by.catalog, r)
    /\ c.from["operation"] = "definition"
    /\ c.out.kind = "answer" =>
        /\ c.rows < c.found => c.out.truncated
        /\ c.out.clear \intersect d.masked = {}
    /\ c.out.audit \intersect Sensitive = {}

\* The property holds when each call is governed.
LEMMA EachIsGoverned == GovernedCalls <=> \A i \in DOMAIN ran : Governs(i, ran[i])
BY DEF GovernedCalls, Governs

\* One more call that is governed leaves all of them governed.
LEMMA OneMoreCall ==
    ASSUME NEW c, ran \in Seq(Made), ran' = Append(ran, c), GovernedCalls, Governs(Len(ran) + 1, c)
    PROVE  ran' \in Seq(Made') /\ Len(ran') = Len(ran) + 1 /\ GovernedCalls'
<1>1. PICK n \in Nat : n = Len(ran) /\ DOMAIN ran = 1..n
  <2>1. Len(ran) \in Nat /\ DOMAIN ran = 1..Len(ran)
    BY LenProperties
  <2> QED
    BY <2>1
<1>2. ran \in Seq(Made \cup {c}) /\ c \in Made \cup {c}
  <2>1. \A x \in 1..Len(ran) : ran[x] \in Made \cup {c}
    BY <1>1 DEF Made
  <2>2. \A x \in Seq(Made) : (\A i \in 1..Len(x) : x[i] \in Made \cup {c}) => x \in Seq(Made \cup {c})
    OBVIOUS
  <2> QED
    BY <2>1, <2>2
<1>3. /\ ran' \in Seq(Made \cup {c}) /\ Len(ran') = n + 1 /\ DOMAIN ran' = 1..(n + 1)
      /\ ran'[n + 1] = c /\ \A i \in 1..n : ran'[i] = ran[i]
  <2>1. ran' \in Seq(Made \cup {c}) /\ Len(ran') = Len(ran) + 1
    BY <1>2, AppendProperties
  <2>2. ran'[Len(ran) + 1] = c /\ \A i \in 1..Len(ran) : ran'[i] = ran[i]
    BY <1>2, AppendProperties
  <2>3. DOMAIN ran' = 1..Len(ran')
    BY <2>1, LenProperties
  <2> QED
    BY <1>1, <2>1, <2>2, <2>3
<1>4. \A i \in DOMAIN ran' : ran'[i] \in Made'
  BY DEF Made
<1>5. ran' \in Seq(Made')
  <2>1. \A x \in Seq(Made \cup {c}) : (\A i \in 1..Len(x) : x[i] \in Made') => x \in Seq(Made')
    OBVIOUS
  <2>2. \A i \in 1..Len(ran') : ran'[i] \in Made'
    BY <1>3, <1>4
  <2> QED
    BY <1>3, <2>1, <2>2
<1>6. \A i \in DOMAIN ran' : Governs(i, ran'[i])
  <2> SUFFICES ASSUME NEW i \in 1..(n + 1) PROVE Governs(i, ran'[i])
    BY <1>3
  <2>1. CASE i = n + 1
    BY <1>1, <1>3, <2>1
  <2>2. CASE i \in 1..n
    BY <1>1, <1>3, <2>2, EachIsGoverned
  <2>3. i = n + 1 \/ i \in 1..n
    OBVIOUS
  <2> QED
    BY <2>1, <2>2, <2>3
<1>7. GovernedCalls'
  BY <1>6 DEF GovernedCalls, Governs
<1> QED
  BY <1>1, <1>3, <1>5, <1>7

\* A call that is on its way is governed when it is executed, whatever comes of it: an
\* answer that holds fewer rows than there are says so, masked columns stay hidden.
LEMMA ExecutedIsGoverned ==
    ASSUME OnItsWay, ran \in Seq(Made), mcp.calls \in Nat, NEW c, c.by = mcp.asked,
           c.from["operation"] = "definition", c.out.audit \intersect Sensitive = {},
           c.out.kind = "answer" => (c.rows < c.found => c.out.truncated) /\ c.out.clear \intersect Asked.masked = {}
    PROVE  Governs(Len(ran) + 1, c)
<1>1. PICK catalog \in Catalogs, r \in Requests : mcp.asked = [catalog |-> catalog, request |-> r]
  BY DEF OnItsWay, Asking
<1>2. mcp.asked.catalog = catalog /\ mcp.asked.request = r /\ c.by.catalog = catalog /\ c.by.request = r
  BY <1>1
<1>3. Asked = CHOOSE e \in Registry(catalog) : e.name = r.name
  BY <1>2 DEF Asked
<1>4. PICK n \in Nat : n = mcp.calls
  OBVIOUS
<1>5. Runs(catalog, r, n) /\ Len(ran) < n /\ Count(r) <= n
  BY <1>2, <1>4 DEF OnItsWay
<1>6. PICK d \in Admits(catalog, r, n) : TRUE
  BY <1>5 DEF Runs
<1>7. d \in Registry(catalog) /\ d.name = r.name /\ ~Forbidden(d) /\ ~Blocked(d, BlockList(r))
  BY <1>6 DEF Admits
<1>8. r.name \in Listed(catalog, r)
  BY <1>7 DEF Listed
<1>9. ~(Budget(r) > 0 /\ n > Budget(r))
  BY <1>6 DEF Admits
<1>10. Budget(r) > 0 => Len(ran) + 1 <= Budget(r) /\ Count(r) <= Budget(r)
  <2>1. PICK b \in Int, k \in Int, l \in Nat : b = Budget(r) /\ k = Count(r) /\ l = Len(ran)
    BY LimitsAreNumbers, LenProperties
  <2> QED
    BY <1>5, <1>9, <2>1
<1> QED
  BY <1>2, <1>3, <1>8, <1>10 DEF Governs--------------------------------------------------------------------------------
\* The rest of the invariant, when a step leaves the executed calls alone.
LEMMA CallsStay ==
    ASSUME McpInv, UNCHANGED ran
    PROVE  ran' \in Seq(Made') /\ Len(ran') = Len(ran) /\ GovernedCalls'
<1>1. Made' = Made
  BY DEF Made
<1>2. \A i \in DOMAIN ran' : Governs(i, ran'[i])
  BY EachIsGoverned DEF McpInv
<1>3. GovernedCalls'
  BY <1>2 DEF GovernedCalls, Governs
<1> QED
  BY <1>1, <1>3 DEF McpInv

\* The loop moves on to the next item, with the calls it has counted.
LEMMA Moves ==
    ASSUME mcp \in Loops, NEW calls \in Nat
    PROVE  /\ [Advanced EXCEPT !.calls = calls] \in Loops /\ Advanced \in Loops
           /\ [Advanced EXCEPT !.calls = calls].calls = calls /\ Advanced.calls = mcp.calls
           /\ [Advanced EXCEPT !.calls = calls].phase = "next" /\ Advanced.phase = "next"
<1>1. PICK i \in Nat : i = mcp.item + 1
  BY DEF Loops
<1>2. "next" \in McpPhases /\ Nobody \in {Nobody} \cup Asking
  BY DEF McpPhases
<1>3. PICK a : a = Advanced
  OBVIOUS
<1>4. a = [mcp EXCEPT !.item = i, !.phase = "next", !.asked = Nobody]
  BY <1>1, <1>3 DEF Advanced, Loops
<1>5. a \in Loops /\ a.calls = mcp.calls /\ a.phase = "next"
  BY <1>2, <1>4 DEF Loops
<1>6. [a EXCEPT !.calls = calls] \in Loops /\ [a EXCEPT !.calls = calls].calls = calls /\ [a EXCEPT !.calls = calls].phase = "next"
  BY <1>5 DEF Loops
<1> QED
  BY <1>3, <1>5, <1>6

\* A step that executes nothing and leaves no call on its way keeps the invariant.
LEMMA NothingExecuted ==
    ASSUME McpInv, UNCHANGED ran, mcp' \in Loops, mcp'.calls >= mcp.calls, mcp'.phase # "sent"
    PROVE  McpInv'
<1>1. ran' \in Seq(Made') /\ Len(ran') = Len(ran) /\ GovernedCalls'
  BY CallsStay
<1>2. PICK a \in Nat, b \in Nat, l \in Nat : a = mcp.calls /\ b = mcp'.calls /\ l = Len(ran)
  BY LenProperties DEF McpInv, Loops
<1>3. Len(ran') <= mcp'.calls
  BY <1>1, <1>2 DEF McpInv
<1> QED
  BY <1>1, <1>3 DEF McpInv

\* An item that fails executes nothing, whether the node goes on or stops.
LEMMA FailsKeep ==
    ASSUME McpInv, NEW calls \in Nat, calls >= mcp.calls, ItemFails(calls)
    PROVE  McpInv'
<1>1. mcp \in Loops /\ UNCHANGED ran
  BY DEF McpInv, ItemFails
<1>2. CASE mcp' = [Advanced EXCEPT !.calls = calls]
  BY <1>1, <1>2, Moves, NothingExecuted
<1>3. CASE mcp' = [mcp EXCEPT !.phase = "threw", !.calls = calls]
  <2>1. "threw" \in McpPhases /\ "threw" # "sent"
    BY DEF McpPhases
  <2>2. mcp' \in Loops /\ mcp'.calls = calls /\ mcp'.phase = "threw"
    BY <1>1, <1>3, <2>1 DEF Loops
  <2> QED
    BY <1>1, <2>1, <2>2, NothingExecuted
<1> QED
  BY <1>2, <1>3 DEF ItemFails, Put

\* An item that is answered without a call only moves the loop on.
LEMMA AdvancedKeeps ==
    ASSUME McpInv, UNCHANGED ran, NEW calls \in Nat, calls >= mcp.calls,
           mcp' = Advanced \/ mcp' = [Advanced EXCEPT !.calls = calls]
    PROVE  McpInv'
<1>1. mcp \in Loops /\ mcp.calls \in Nat
  BY DEF McpInv, Loops
<1>2. mcp' \in Loops /\ mcp'.phase = "next" /\ (mcp'.calls = mcp.calls \/ mcp'.calls = calls)
  BY <1>1, Moves
<1>3. mcp'.calls >= mcp.calls
  BY <1>1, <1>2
<1> QED
  BY <1>2, <1>3, NothingExecuted

\* Validating and listing execute nothing.
LEMMA ValidateKeeps ==
    ASSUME McpInv, ValidateItem \/ ListItem
    PROVE  McpInv'
<1>1. mcp.calls \in Nat /\ mcp.calls >= mcp.calls
  BY DEF McpInv, Loops
<1>2. CASE ValidateItem
  <2>1. mcp' = Advanced /\ UNCHANGED ran
    BY <1>2 DEF ValidateItem, Put
  <2> QED
    BY <1>1, <2>1, AdvancedKeeps
<1>3. CASE ListItem
  <2>1. ItemFails(mcp.calls) \/ (mcp' = Advanced /\ UNCHANGED ran)
    BY <1>3 DEF ListItem, Put
  <2> QED
    BY <1>1, <2>1, AdvancedKeeps, FailsKeep
<1> QED
  BY <1>2, <1>3

\* A call that sets out is counted first, and only one that the limits allow sets out.
LEMMA CallKeeps ==
    ASSUME McpInv, CallItem
    PROVE  McpInv'
<1>1. mcp \in Loops /\ mcp.calls \in Nat /\ mcp.calls >= mcp.calls
  BY DEF McpInv, Loops
<1>2. PICK catalog \in Catalogs, r \in Requests :
        \/ ItemFails(mcp.calls)
        \/ ItemFails(Ordinal(r))
        \/ mcp' = [Advanced EXCEPT !.calls = Ordinal(r)] /\ UNCHANGED ran
        \/ /\ ~Throws(catalog, r) /\ Runs(catalog, r, Ordinal(r)) /\ UNCHANGED ran
           /\ mcp' = [mcp EXCEPT !.phase = "sent", !.calls = Ordinal(r), !.asked = [catalog |-> catalog, request |-> r]]
  BY DEF CallItem, Put
<1>3. PICK n \in Nat : n = Ordinal(r) /\ n > mcp.calls /\ Count(r) <= n
  BY <1>1, OrdinalGrows
<1>4. n >= mcp.calls
  BY <1>1, <1>3
<1>5. CASE ItemFails(mcp.calls) \/ ItemFails(n)
  BY <1>1, <1>4, <1>5, FailsKeep
<1>6. CASE mcp' = [Advanced EXCEPT !.calls = n] /\ UNCHANGED ran
  BY <1>4, <1>6, AdvancedKeeps
<1>7. CASE /\ ~Throws(catalog, r) /\ Runs(catalog, r, n) /\ UNCHANGED ran
           /\ mcp' = [mcp EXCEPT !.phase = "sent", !.calls = n, !.asked = [catalog |-> catalog, request |-> r]]
  <2>1. PICK asked \in Asking : asked = [catalog |-> catalog, request |-> r]
    BY DEF Asking
  <2>2. "sent" \in McpPhases /\ asked \in {Nobody} \cup Asking
    BY DEF McpPhases
  <2>3. mcp' = [mcp EXCEPT !.phase = "sent", !.calls = n, !.asked = asked]
    BY <1>7, <2>1
  <2>4. mcp' \in Loops /\ mcp'.calls = n /\ mcp'.asked = asked
    BY <1>1, <2>2, <2>3 DEF Loops
  <2>5. ran' \in Seq(Made') /\ Len(ran') = Len(ran) /\ GovernedCalls'
    BY <1>7, CallsStay
  <2>6. PICK l \in Nat : l = Len(ran) /\ l <= mcp.calls
    BY LenProperties DEF McpInv
  <2>7. Len(ran') < mcp'.calls /\ Len(ran') <= mcp'.calls
    BY <1>1, <1>3, <2>4, <2>5, <2>6
  <2>8. mcp'.asked.catalog = catalog /\ mcp'.asked.request = r
    BY <2>1, <2>4
  <2>9. OnItsWay'
    BY <1>3, <1>7, <2>1, <2>4, <2>7, <2>8 DEF OnItsWay
  <2> QED
    BY <2>4, <2>5, <2>7, <2>9 DEF McpInv
<1> QED
  BY <1>2, <1>3, <1>5, <1>6, <1>7

\* An executed call takes the operation of the definition, whatever the caller says.
LEMMA TheDefinitionDecides ==
    ASSUME NEW d, NEW p
    PROVE  Merged(d, p)["operation"] = "definition"
BY DEF Merged

\* What is executed is governed, so it joins the others and the loop moves on.
LEMMA ExecutedKeeps ==
    ASSUME McpInv, mcp.phase = "sent", NEW rows, NEW found, NEW reply, Executed(rows, found, reply),
           reply.audit \intersect Sensitive = {},
           reply.kind = "answer" => (rows < found => reply.truncated) /\ reply.clear \intersect Asked.masked = {}
    PROVE  McpInv'
<1>1. mcp \in Loops /\ mcp.calls \in Nat /\ OnItsWay /\ ran \in Seq(Made) /\ GovernedCalls
  BY DEF McpInv, Loops
<1>2. PICK from : from = IF Asked.provider = "tools" THEN Merged(Asked, Coerce(Asked, mcp.asked.request.params))
                         ELSE [operation |-> "definition"]
  OBVIOUS
<1>3. from["operation"] = "definition"
  BY <1>2, TheDefinitionDecides
<1>4. PICK c : c = [by |-> mcp.asked, rows |-> rows, found |-> found, out |-> reply, from |-> from]
  OBVIOUS
<1>5. ran' = Append(ran, c) /\ mcp' = Advanced
  BY <1>2, <1>4 DEF Executed, Put
<1>6. c.by = mcp.asked /\ c.rows = rows /\ c.found = found /\ c.out = reply /\ c.from = from
  BY <1>4
<1>7. Governs(Len(ran) + 1, c)
  BY <1>1, <1>3, <1>6, ExecutedIsGoverned
<1>8. ran' \in Seq(Made') /\ Len(ran') = Len(ran) + 1 /\ GovernedCalls'
  BY <1>1, <1>5, <1>7, OneMoreCall
<1>9. mcp' \in Loops /\ mcp'.calls = mcp.calls /\ mcp'.phase = "next"
  BY <1>1, <1>5, Moves
<1>10. PICK l \in Nat : l = Len(ran) /\ l < mcp.calls
  BY <1>1, LenProperties DEF OnItsWay
<1>11. Len(ran') <= mcp'.calls
  BY <1>1, <1>8, <1>9, <1>10
<1> QED
  BY <1>8, <1>9, <1>11 DEF McpInv

\* An answer: rows cut by a limit are told of, since a limit is at least one row.
LEMMA AnswerKeeps ==
    ASSUME McpInv, CallAnswered
    PROVE  McpInv'
<1>1. mcp.phase = "sent" /\ OnItsWay
  BY DEF McpInv, CallAnswered
<1>2. PICK p : p = Coerce(Asked, mcp.asked.request.params)
  OBVIOUS
<1>3. PICK most \in Int : most = EffectiveRows(Asked, p) /\ most > 0
  BY <1>1, <1>2, RowsAllowed
<1>4. PICK found \in Found : \E rows :
        /\ rows = IF Asked.provider = "sql" THEN Smaller(found, most) ELSE found
        /\ Executed(rows, found,
                    [kind |-> "answer", truncated |-> Truncated(rows, most), audit |-> AuditOf(DOMAIN p),
                     clear |-> IF rows = 0 THEN {} ELSE Columns \ Asked.masked])
  BY <1>2, <1>3 DEF CallAnswered
<1>5. PICK rows :
        /\ rows = IF Asked.provider = "sql" THEN Smaller(found, most) ELSE found
        /\ Executed(rows, found,
                    [kind |-> "answer", truncated |-> Truncated(rows, most), audit |-> AuditOf(DOMAIN p),
                     clear |-> IF rows = 0 THEN {} ELSE Columns \ Asked.masked])
  BY <1>4
<1>6. found \in Nat
  BY McpServerAssumption
<1>7. rows < found => Truncated(rows, most)
  BY <1>3, <1>5, <1>6 DEF Smaller, Truncated
<1>8. PICK reply : reply = [kind |-> "answer", truncated |-> Truncated(rows, most), audit |-> AuditOf(DOMAIN p),
                            clear |-> IF rows = 0 THEN {} ELSE Columns \ Asked.masked]
  OBVIOUS
<1>9. reply.truncated = Truncated(rows, most) /\ reply.audit = AuditOf(DOMAIN p) /\ reply.clear \intersect Asked.masked = {}
  BY <1>8
<1>10. reply.audit \intersect Sensitive = {}
  BY <1>9 DEF AuditOf
<1> QED
  BY <1>1, <1>5, <1>7, <1>8, <1>9, <1>10, ExecutedKeeps

\* A failure: the message shows no rows and no sensitive argument.
LEMMA FailureKeeps ==
    ASSUME McpInv, CallFailed
    PROVE  McpInv'
<1>1. PICK reply : reply = [kind |-> "refused", audit |-> AuditOf(DOMAIN Asked.params)]
  OBVIOUS
<1>2. reply.kind # "answer" /\ reply.audit \intersect Sensitive = {}
  BY <1>1 DEF AuditOf
<1>3. mcp.phase = "sent" /\ Executed(0, 0, reply)
  BY <1>1 DEF CallFailed
<1> QED
  BY <1>2, <1>3, ExecutedKeeps

\* The calls of an agent are governed, from the first item to the last.
LEMMA McpInductive == McpSpec => []McpInv
<1>1. McpBegins => McpInv
  <2> SUFFICES ASSUME McpBegins PROVE McpInv
    OBVIOUS
  <2>1. ran = <<>> /\ mcp.phase = "next" /\ mcp.calls = 0
    BY DEF McpBegins
  <2>2. mcp \in Loops
    <3>1. "next" \in McpPhases /\ Nobody \in {Nobody} \cup Asking /\ 1 \in Nat /\ 0 \in Nat
      BY DEF McpPhases
    <3> QED
      BY <3>1 DEF McpBegins, Loops
  <2>3. ran \in Seq(Made) /\ Len(ran) = 0 /\ DOMAIN ran = {}
    BY <2>1
  <2>4. GovernedCalls
    BY <2>3 DEF GovernedCalls
  <2> QED
    BY <2>1, <2>2, <2>3, <2>4 DEF McpInv
<1>2. McpInv /\ [McpSteps]_mvars => McpInv'
  <2> SUFFICES ASSUME McpInv, [McpSteps]_mvars PROVE McpInv'
    OBVIOUS
  <2>1. CASE McpSteps
    <3>1. CASE McpEnds
      <4>1. mcp' = [mcp EXCEPT !.phase = "done"] /\ UNCHANGED ran /\ mcp \in Loops
        BY <3>1 DEF McpEnds, McpInv
      <4>2. "done" \in McpPhases
        BY DEF McpPhases
      <4>3. mcp' \in Loops /\ mcp'.calls = mcp.calls /\ mcp'.phase = "done" /\ mcp.calls \in Nat
        BY <4>1, <4>2 DEF Loops
      <4> QED
        BY <4>1, <4>3, NothingExecuted
    <3> QED
      BY <2>1, <3>1, ValidateKeeps, CallKeeps, AnswerKeeps, FailureKeeps DEF McpSteps
  <2>2. CASE UNCHANGED mvars
    BY <2>2 DEF mvars, McpInv, Made, OnItsWay, GovernedCalls
  <2> QED
    BY <2>1, <2>2
<1> QED
  BY <1>1, <1>2, PTL DEF McpSpec

\* No call of an AI agent is executed beyond the budget it is held to, every call that is
\* executed is one a listing offers, as its definition's operation, an answer that does not
\* hold every row says so, and no masked column or sensitive argument is shown, for every
\* catalog, hub and mix of items.
THEOREM CallsAreGoverned == McpSpec => []GovernedCalls
<1>1. McpInv => GovernedCalls
  BY DEF McpInv
<1> QED
  BY <1>1, McpInductive, PTL
================================================================================
