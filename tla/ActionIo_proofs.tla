---------------------------- MODULE ActionIo_proofs ----------------------------
(***************************************************************************)
(* Proofs about ActionIo: an error that rules effects out is true, and what *)
(* the workflow reads over several executions is the output of the action.  *)
(***************************************************************************)
EXTENDS ActionIo, Sums_proofs, SequenceTheorems

Phases == {"queued", "setup", "unsent", "sent", "done", "error", "skipped"}
States == [pc : Phases, unknown : BOOLEAN]
Stages == {"none", "connecting", "starting", "open", "down"}
Checkpoints == [after : Nat, stdout : Nat, stderr : Nat]

Typed ==
    /\ plan \in Plans /\ item \in [Items -> States] /\ asked \in [Items -> Checkpoints]
    /\ link \in [Channels -> Stages] /\ run \in Nat
    /\ requests \subseteq Items /\ ran \in [Items -> Nat]
    /\ checkpoint \in Checkpoints /\ losses \in 0..MaxLosses

\* The agent has not run the command of item i and never will.
Untouched(i) == ran[i] = 0 /\ i \notin requests
\* The command of item i has not left.
Unsent(i) == item[i].pc \in {"queued", "setup", "unsent", "skipped"}
Excluded(i) == item[i].pc = "error" /\ Mutation(i) /\ ~item[i].unknown
Honest(i) ==
    /\ ran[i] \in {0, 1} /\ (i \in requests => ran[i] = 0)
    /\ Unsent(i) \/ Excluded(i) => Untouched(i)

\* An answer that rules effects out is about a command that left and was not run.
Believed(a) == a.to \in Items /\ (a.told = "none" => Untouched(a.to) /\ ~Unsent(a.to))

EffectsInv == (\A i \in Items : Honest(i)) /\ (\A a \in answers : Believed(a))

Active(i) == item[i].pc \in {"setup", "unsent", "sent"}

\* The item that is being executed is the only one, and knows the workflow's checkpoint.
AloneInv ==
    \A i \in Items : Active(i) =>
        plan[i].run = run /\ asked[i] = checkpoint /\ \A k \in Items : k < i => Ended(k)

\* A connection belongs to the running execution, and one that is set up to the item it is for.
LinkInv ==
    /\ \A c \in Channels : link[c] # "none" =>
        /\ \E i \in Items : plan[i].run = run /\ plan[i].channel = c /\ item[i].pc # "queued"
        /\ link[c] \in {"connecting", "starting"} =>
              \E i \in Items : item[i].pc = "setup" /\ plan[i].channel = c
    /\ \A i \in Items : item[i].pc = "setup" => plan[i].channel \in Channels

\* What was read so far is the output up to the checkpoint.
ReadInv ==
    /\ checkpoint.after \in 0..Len(Log)
    /\ transcript = [n \in 1..checkpoint.after |-> n]
    /\ \A s \in {"stdout", "stderr"} :
          checkpoint[s] = LogBytes({n \in 1..checkpoint.after : Log[n].stream = s})

ActionInv == Typed /\ EffectsInv /\ AloneInv /\ LinkInv /\ ReadInv
--------------------------------------------------------------------------------
(* How a step changes the items: at most item i moves, and queued ones may be skipped. *)

Moves(i) ==
    /\ item' \in [Items' -> States]
    /\ \A k \in Items : k # i => item'[k] = item[k] \/ (item[k].pc = "queued" /\ item'[k].pc = "skipped")

\* The plan does not change.
LEMMA SamePlan == ASSUME UNCHANGED setting PROVE plan' = plan /\ Items' = Items
BY DEF setting, Items

\* The items of a plan are numbered.
LEMMA ItemsAreNumbers == ASSUME plan \in Plans PROVE Items \subseteq Nat \ {0}
<1>1. PICK R : plan \in Seq(R)
  BY ActionIoAssumption
<1>2. DOMAIN plan = 1..Len(plan) /\ Len(plan) \in Nat
  BY <1>1, LenProperties
<1> QED
  BY <1>2 DEF Items

\* An item goes to another phase.
LEMMA GoesMoves ==
    ASSUME item \in [Items -> States], UNCHANGED setting, NEW i \in Items, NEW where \in Phases, Goes(i, where)
    PROVE  Moves(i) /\ item'[i].pc = where
<1>1. [item[i] EXCEPT !.pc = where] \in States /\ [item[i] EXCEPT !.pc = where].pc = where
  BY DEF States
<1>2. item' = [item EXCEPT ![i] = [item[i] EXCEPT !.pc = where]]
  BY DEF Goes
<1> QED
  BY <1>1, <1>2, SamePlan DEF Moves

\* An item fails, and the rest of its execution may be skipped.
LEMMA FailedMoves ==
    ASSUME item \in [Items -> States], UNCHANGED setting, NEW i \in Items, NEW unknown \in BOOLEAN, Failed(i, unknown)
    PROVE  Moves(i) /\ item'[i].pc = "error" /\ item'[i].unknown = unknown
<1>1. PICK e : e = [pc |-> "error", unknown |-> unknown]
  OBVIOUS
<1>2. e \in States /\ e.pc = "error" /\ e.unknown = unknown
  BY <1>1 DEF States, Phases
<1>3. \A s \in States : [s EXCEPT !.pc = "skipped"] \in States /\ [s EXCEPT !.pc = "skipped"].pc = "skipped"
  BY DEF States, Phases
<1>4. item' = [k \in Items |->
        IF k = i THEN e ELSE IF ~continueOnFail /\ plan[k].run = run /\ item[k].pc = "queued"
                             THEN [item[k] EXCEPT !.pc = "skipped"] ELSE item[k]]
  BY <1>1 DEF Failed
<1>5. DOMAIN item' = Items /\ item'[i] = e
  BY <1>4
<1>6. ASSUME NEW k \in Items, k # i
      PROVE  item'[k] \in States /\ (item'[k] = item[k] \/ (item[k].pc = "queued" /\ item'[k].pc = "skipped"))
  <2>1. CASE ~continueOnFail /\ plan[k].run = run /\ item[k].pc = "queued"
    BY <1>3, <1>4, <1>6, <2>1
  <2>2. CASE ~(~continueOnFail /\ plan[k].run = run /\ item[k].pc = "queued")
    BY <1>4, <1>6, <2>2
  <2> QED
    BY <2>1, <2>2
<1>7. item' \in [Items -> States]
  BY <1>2, <1>4, <1>5, <1>6
<1> QED
  BY <1>2, <1>5, <1>6, <1>7, SamePlan DEF Moves
--------------------------------------------------------------------------------
(* What is said of effects.                                                 *)

\* A step of the node leaves the agent alone: an item that ends up unsent, or with effects
\* ruled out, is one that the agent never saw.
LEMMA NodeIsHonest ==
    ASSUME Typed, EffectsInv, UNCHANGED <<setting, requests, ran, answers>>, NEW i, Moves(i),
           i \in Items => (Unsent(i)' => Unsent(i)) /\ (Unsent(i)' \/ Excluded(i)' => Untouched(i))
    PROVE  EffectsInv'
<1>1. Items' = Items /\ plan' = plan
  BY SamePlan
<1>2. \A k \in Items : k # i => (Unsent(k)' <=> Unsent(k)) /\ (Excluded(k)' => Excluded(k))
  BY <1>1 DEF Moves, Unsent, Excluded, Mutation
<1>3. \A k \in Items : Untouched(k)' <=> Untouched(k)
  BY DEF Untouched
<1>4. \A k \in Items : Honest(k)'
  BY <1>2, <1>3 DEF EffectsInv, Honest
<1>5. \A a \in answers : Believed(a)'
  BY <1>1, <1>2, <1>3 DEF EffectsInv, Believed
<1> QED
  BY <1>1, <1>4, <1>5 DEF EffectsInv

\* A command leaves once, before anything is known of it.
LEMMA DispatchIsHonest ==
    ASSUME Typed, EffectsInv, UNCHANGED <<setting, ran, answers>>, NEW i \in Items, Unsent(i), Dispatched(i)
    PROVE  EffectsInv'
<1>1. Items' = Items /\ plan' = plan /\ "sent" \in Phases
  BY SamePlan DEF Phases
<1>2. Moves(i) /\ item'[i].pc = "sent" /\ requests' = requests \cup {i}
  BY <1>1, GoesMoves DEF Typed, Dispatched
<1>3. Honest(i)'
  <2>1. ran[i] = 0
    BY DEF EffectsInv, Honest, Untouched
  <2> QED
    BY <1>2, <2>1 DEF Honest, Unsent, Excluded
<1>4. \A k \in Items : k # i => (Unsent(k)' <=> Unsent(k)) /\ (Excluded(k)' => Excluded(k)) /\ (Untouched(k)' <=> Untouched(k))
  BY <1>1, <1>2 DEF Moves, Unsent, Excluded, Mutation, Untouched
<1>5. \A k \in Items : k # i => Honest(k)'
  BY <1>2, <1>4 DEF EffectsInv, Honest
<1>6. \A a \in answers : Believed(a)'
  BY <1>1, <1>4 DEF EffectsInv, Believed
<1> QED
  BY <1>1, <1>3, <1>5, <1>6 DEF EffectsInv

\* The agent runs a command that has left, or refuses it, and answers: it rules effects out
\* only where it refuses.
LEMMA AgentIsHonest ==
    ASSUME Typed, EffectsInv, NEW i \in Items, Runs(i) \/ Refuses(i)
    PROVE  EffectsInv' /\ requests' \subseteq Items /\ ran' \in [Items -> Nat]
<1>1. Items' = Items /\ plan' = plan /\ item' = item
  BY SamePlan DEF Runs, Refuses
<1>2. i \in requests /\ requests' = requests \ {i} /\ ran[i] = 0 /\ ~Unsent(i) /\ ~Excluded(i)
  BY DEF Runs, Refuses, EffectsInv, Honest, Untouched
<1>3. \A k \in Items : (Unsent(k)' <=> Unsent(k)) /\ (Excluded(k)' <=> Excluded(k))
  BY <1>1 DEF Unsent, Excluded, Mutation
<1>4. CASE Runs(i)
  <2>1. ran' = [ran EXCEPT ![i] = 1]
    BY <1>2, <1>4 DEF Runs, Typed
  <2>2. ran' \in [Items -> Nat] /\ ran'[i] = 1 /\ \A k \in Items : k # i => ran'[k] = ran[k]
    BY <2>1 DEF Typed
  <2>3. \A k \in Items : Honest(k)'
    BY <1>2, <1>3, <2>2 DEF EffectsInv, Honest, Untouched
  <2>4. \A a \in answers' : a \in answers \/ (a.to = i /\ a.told # "none")
    BY <1>4 DEF Runs, Answering, Result, Malformed, Error
  <2>5. \A a \in answers : Believed(a)'
    <3> TAKE a \in answers
    <3>1. Believed(a)
      BY DEF EffectsInv
    <3>2. a.told = "none" => a.to # i
      BY <1>2, <3>1 DEF Believed, Untouched
    <3> QED
      BY <1>1, <1>2, <1>3, <2>2, <3>1, <3>2 DEF Believed, Untouched
  <2>6. \A a \in answers' : Believed(a)'
    BY <1>1, <2>4, <2>5 DEF Believed
  <2> QED
    BY <1>1, <1>2, <2>2, <2>3, <2>6 DEF EffectsInv, Typed
<1>5. CASE Refuses(i)
  <2>1. ran' = ran
    BY <1>5 DEF Refuses
  <2>2. \A k \in Items : Untouched(k) => Untouched(k)'
    BY <1>2, <2>1 DEF Untouched
  <2>3. \A k \in Items : Honest(k)'
    BY <1>2, <1>3, <2>1, <2>2 DEF EffectsInv, Honest
  <2>4. \A a \in answers' : a \in answers \/ a.to = i
    BY <1>5 DEF Refuses, Answering, Error
  <2>5. Untouched(i)'
    BY <1>2, <2>1 DEF Untouched
  <2>6. \A a \in answers : Believed(a)'
    BY <1>1, <1>3, <2>2 DEF EffectsInv, Believed
  <2>7. \A a \in answers' : Believed(a)'
    BY <1>1, <1>2, <1>3, <2>4, <2>5, <2>6 DEF Believed
  <2> QED
    BY <1>1, <1>2, <2>1, <2>3, <2>7 DEF EffectsInv, Typed
<1> QED
  BY <1>4, <1>5--------------------------------------------------------------------------------
(* What is said of the item that is being executed.                         *)

\* No two items are being executed: one that is, or whose turn it is, is the only one.
LEMMA OnlyOne ==
    ASSUME Typed, AloneInv, NEW i \in Items, Active(i) \/ Turn(i), NEW k \in Items, k # i
    PROVE  ~Active(k)
<1>1. i \in Nat /\ k \in Nat /\ (i < k \/ k < i)
  BY ItemsAreNumbers DEF Typed
<1>2. ~Ended(i) /\ \A j \in Items : j < i => Ended(j)
  BY DEF AloneInv, Active, Turn, Ended
<1>3. CASE k < i
  <2>1. Ended(k)
    BY <1>2, <1>3
  <2> QED
    BY <2>1 DEF Ended, Active
<1>4. CASE i < k
  BY <1>2, <1>4 DEF AloneInv
<1> QED
  BY <1>1, <1>3, <1>4

\* What a step does to the items around the one it is about.
LEMMA MovesAside ==
    ASSUME UNCHANGED setting, NEW i, Moves(i)
    PROVE  /\ plan' = plan /\ Items' = Items
           /\ \A k \in Items : k # i => (Ended(k) => Ended(k)') /\ (Active(k)' <=> Active(k))
           /\ \A k \in Items : k # i => (item[k].pc # "queued" => item'[k].pc # "queued")
           /\ \A k \in Items : k # i => (item[k].pc = "setup" => item'[k].pc = "setup")
BY SamePlan DEF Moves, Ended, Active

\* The item goes on being executed, or ends; the checkpoint stays.
LEMMA StaysAlone ==
    ASSUME Typed, AloneInv, UNCHANGED <<setting, run, asked, checkpoint>>, NEW i, Moves(i),
           i \in Items => (Ended(i) => Ended(i)') /\ (Active(i)' => Active(i))
    PROVE  AloneInv'
<1>1. \A k \in Items : (Ended(k) => Ended(k)') /\ (Active(k)' => Active(k))
  BY MovesAside
<1> QED
  BY <1>1, MovesAside DEF AloneInv

\* An item whose turn it is begins with the checkpoint of the workflow.
LEMMA BeginsAlone ==
    ASSUME Typed, AloneInv, UNCHANGED <<setting, run, checkpoint>>, NEW i \in Items, Moves(i), Turn(i),
           asked' = [asked EXCEPT ![i] = checkpoint]
    PROVE  AloneInv'
<1>1. \A k \in Items : k # i => ~Active(k)'
  BY OnlyOne, MovesAside
<1>2. plan[i].run = run /\ asked'[i] = checkpoint
  BY DEF Turn, Typed
<1>3. \A k \in Items : k < i => k # i /\ Ended(k)
  <2>1. \A k \in Items : k \in Nat
    BY ItemsAreNumbers DEF Typed
  <2> QED
    BY <2>1 DEF Turn
<1>4. \A k \in Items : k < i => Ended(k)'
  BY <1>3, MovesAside
<1> QED
  BY <1>1, <1>2, <1>4, MovesAside DEF AloneInv

\* When the item ends, nothing is being executed, whatever becomes of the checkpoint.
LEMMA NoneLeft ==
    ASSUME Typed, AloneInv, UNCHANGED <<setting, run, asked>>, NEW i \in Items, Moves(i), Active(i), ~Active(i)'
    PROVE  AloneInv'
<1>1. \A k \in Items : ~Active(k)'
  BY OnlyOne, MovesAside
<1> QED
  BY <1>1, MovesAside DEF AloneInv
--------------------------------------------------------------------------------
(* What is said of connections.                                             *)

\* Connections stay, or one is lost or disposed of; the item is not being connected.
LEMMA LinkStays ==
    ASSUME Typed, LinkInv, UNCHANGED <<setting, run>>, NEW i, Moves(i),
           i \in Items => item[i].pc # "setup" /\ item'[i].pc # "setup" /\ (item[i].pc # "queued" => item'[i].pc # "queued"),
           \A c \in Channels : link'[c] = link[c] \/ link'[c] = "none" \/ (link[c] = "open" /\ link'[c] = "down")
    PROVE  LinkInv'
<1>1. \A k \in Items : item'[k].pc = "setup" => plan[k].channel \in Channels
  <2> TAKE k \in Items
  <2>1. item'[k].pc = "setup" => item[k].pc = "setup"
    BY DEF Moves
  <2> QED
    BY <2>1 DEF LinkInv
<1> SUFFICES ASSUME NEW c \in Channels, link'[c] # "none" PROVE
        /\ \E k \in Items : plan[k].run = run /\ plan[k].channel = c /\ item'[k].pc # "queued"
        /\ link'[c] \in {"connecting", "starting"} => \E k \in Items : item'[k].pc = "setup" /\ plan[k].channel = c
  BY <1>1, MovesAside DEF LinkInv
<1>2. link[c] # "none" /\ (link'[c] \in {"connecting", "starting"} => link[c] = link'[c])
  OBVIOUS
<1>3. PICK k \in Items : plan[k].run = run /\ plan[k].channel = c /\ item[k].pc # "queued"
  BY <1>2 DEF LinkInv
<1>4. item'[k].pc # "queued"
  BY <1>3, MovesAside
<1>5. ASSUME link'[c] \in {"connecting", "starting"}
      PROVE  \E j \in Items : item'[j].pc = "setup" /\ plan[j].channel = c
  <2>1. PICK j \in Items : item[j].pc = "setup" /\ plan[j].channel = c
    BY <1>2, <1>5 DEF LinkInv
  <2>2. j # i
    BY <2>1
  <2> QED
    BY <2>1, <2>2, MovesAside
<1> QED
  BY <1>3, <1>4, <1>5

\* The item is connected, or its connection moves on or fails.
LEMMA LinkMoves ==
    ASSUME Typed, AloneInv, LinkInv, UNCHANGED <<setting, run>>, NEW i \in Items, Moves(i),
           Turn(i) \/ item[i].pc = "setup", item'[i].pc # "queued",
           NEW c \in Channels, c = plan[i].channel, NEW stage \in Stages, link' = [link EXCEPT ![c] = stage],
           stage \in {"connecting", "starting"} => item'[i].pc = "setup"
    PROVE  LinkInv'
<1>1. link'[c] = stage /\ \A d \in Channels : d # c => link'[d] = link[d]
  BY DEF Typed
<1>2. plan[i].run = run
  BY DEF AloneInv, Active, Turn
<1>3. \A k \in Items : item[k].pc = "setup" => k = i
  BY OnlyOne DEF Active
<1>4. \A k \in Items : item'[k].pc = "setup" => plan[k].channel \in Channels
  <2> TAKE k \in Items
  <2>1. k # i /\ item'[k].pc = "setup" => item[k].pc = "setup"
    BY DEF Moves
  <2> QED
    BY <2>1 DEF LinkInv
<1> SUFFICES ASSUME NEW d \in Channels, link'[d] # "none" PROVE
        /\ \E k \in Items : plan[k].run = run /\ plan[k].channel = d /\ item'[k].pc # "queued"
        /\ link'[d] \in {"connecting", "starting"} => \E k \in Items : item'[k].pc = "setup" /\ plan[k].channel = d
  BY <1>4, MovesAside DEF LinkInv
<1>5. CASE d = c
  BY <1>1, <1>2, <1>5
<1>6. CASE d # c
  <2>1. PICK k \in Items : plan[k].run = run /\ plan[k].channel = d /\ item[k].pc # "queued"
    BY <1>1, <1>6 DEF LinkInv
  <2>2. item'[k].pc # "queued"
    BY <2>1, MovesAside
  <2>3. ~(link'[d] \in {"connecting", "starting"})
    BY <1>1, <1>3, <1>6 DEF LinkInv
  <2> QED
    BY <2>1, <2>2, <2>3
<1> QED
  BY <1>5, <1>6
--------------------------------------------------------------------------------
(* The steps that leave what was read alone.                                *)

\* Nothing is read.
LEMMA ReadStays == ASSUME ReadInv, UNCHANGED workflow PROVE ReadInv'
BY DEF ReadInv, workflow

\* The parts that a step about items leaves alone.
LEMMA TypedStays ==
    ASSUME Typed, UNCHANGED <<setting, run, requests, ran, checkpoint>>, NEW i, Moves(i),
           asked' \in [Items -> Checkpoints], link' \in [Channels -> Stages], losses' \in 0..MaxLosses
    PROVE  Typed'
<1>1. plan' = plan /\ Items' = Items
  BY SamePlan
<1> QED
  BY <1>1 DEF Typed, Moves--------------------------------------------------------------------------------
(* The steps of the node.                                                   *)

\* An item that fails, and what the error says is true.
LEMMA FailsHonestly ==
    ASSUME ActionInv, UNCHANGED <<setting, requests, ran, answers>>, NEW i \in Items, NEW unknown \in BOOLEAN,
           Failed(i, unknown), Unsent(i) \/ (Mutation(i) => unknown) \/ Untouched(i)
    PROVE  EffectsInv'
<1>1. Moves(i) /\ item'[i].pc = "error" /\ item'[i].unknown = unknown
  BY FailedMoves DEF ActionInv, Typed
<1>2. plan' = plan
  BY SamePlan
<1>3. Unsent(i) => Untouched(i)
  BY DEF ActionInv, EffectsInv, Honest
<1>4. ~Unsent(i)' /\ (Excluded(i)' => Untouched(i))
  BY <1>1, <1>2, <1>3 DEF Unsent, Excluded, Mutation
<1> QED
  BY <1>1, <1>4, NodeIsHonest DEF ActionInv

\* An item fails that was being executed, or was to be: the connections stay.
LEMMA FailKeeps ==
    ASSUME ActionInv, UNCHANGED <<setting, run, requests, ran, answers, workflow>>, NEW i \in Items,
           NEW unknown \in BOOLEAN, Failed(i, unknown), Unsent(i) \/ (Mutation(i) => unknown) \/ Untouched(i),
           Active(i) \/ Turn(i), UNCHANGED asked \/ (Turn(i) /\ asked' = [asked EXCEPT ![i] = checkpoint]),
           link' \in [Channels -> Stages], losses' \in 0..MaxLosses,
           \/ /\ item[i].pc # "setup"
              /\ \A c \in Channels : link'[c] = link[c] \/ (link[c] = "open" /\ link'[c] = "down")
           \/ /\ item[i].pc = "setup"
              /\ \E c \in Channels : c = plan[i].channel /\ link' = [link EXCEPT ![c] = "none"]
    PROVE  ActionInv'
<1>1. Typed /\ EffectsInv /\ AloneInv /\ LinkInv /\ ReadInv
  BY DEF ActionInv
<1>2. Moves(i) /\ item'[i].pc = "error"
  BY <1>1, FailedMoves DEF Typed
<1>3. EffectsInv'
  BY FailsHonestly
<1>4. asked' \in [Items -> Checkpoints] /\ UNCHANGED checkpoint
  BY <1>1 DEF Typed, workflow
<1>5. Typed'
  BY <1>1, <1>2, <1>4, TypedStays
<1>6. AloneInv'
  <2>1. ~Active(i)' /\ Ended(i)'
    BY <1>2 DEF Active, Ended
  <2>2. CASE UNCHANGED asked
    BY <1>1, <1>2, <1>4, <2>1, <2>2, StaysAlone
  <2>3. CASE Turn(i) /\ asked' = [asked EXCEPT ![i] = checkpoint]
    BY <1>1, <1>2, <1>4, <2>3, BeginsAlone
  <2> QED
    BY <2>2, <2>3
<1>7. LinkInv'
  <2>1. CASE /\ item[i].pc # "setup"
             /\ \A c \in Channels : link'[c] = link[c] \/ (link[c] = "open" /\ link'[c] = "down")
    BY <1>1, <1>2, <2>1, LinkStays
  <2>2. CASE /\ item[i].pc = "setup"
             /\ \E c \in Channels : c = plan[i].channel /\ link' = [link EXCEPT ![c] = "none"]
    <3>1. PICK c \in Channels : c = plan[i].channel /\ link' = [link EXCEPT ![c] = "none"]
      BY <2>2
    <3>2. "none" \in Stages /\ ~("none" \in {"connecting", "starting"}) /\ item'[i].pc # "queued"
      BY <1>2 DEF Stages
    <3> QED
      BY <1>1, <1>2, <2>2, <3>1, <3>2, LinkMoves
  <2> QED
    BY <2>1, <2>2
<1>8. ReadInv'
  BY <1>1, ReadStays
<1> QED
  BY <1>3, <1>5, <1>6, <1>7, <1>8 DEF ActionInv

\* A queued item begins, or one that is being executed goes on, without leaving: the agent
\* is not concerned.
LEMMA GoKeeps ==
    ASSUME ActionInv, UNCHANGED <<setting, run, requests, ran, answers, workflow, losses>>, NEW i \in Items,
           Moves(i), item'[i].pc \in {"setup", "unsent"}, item[i].pc \in {"queued", "setup"},
           \/ item[i].pc = "setup" /\ UNCHANGED asked
           \/ Turn(i) /\ asked' = [asked EXCEPT ![i] = checkpoint],
           NEW c \in Channels, c = plan[i].channel, NEW stage \in Stages, link' = [link EXCEPT ![c] = stage],
           stage \in {"connecting", "starting"} => item'[i].pc = "setup"
    PROVE  ActionInv'
<1>1. Typed /\ EffectsInv /\ AloneInv /\ LinkInv /\ ReadInv
  BY DEF ActionInv
<1>2. Unsent(i) /\ Untouched(i)
  BY <1>1 DEF Unsent, EffectsInv, Honest
<1>3. EffectsInv'
  BY <1>1, <1>2, NodeIsHonest
<1>4. asked' \in [Items -> Checkpoints] /\ link' \in [Channels -> Stages] /\ UNCHANGED checkpoint
  BY <1>1 DEF Typed, workflow
<1>5. Typed'
  <2>1. losses' \in 0..MaxLosses
    BY <1>1 DEF Typed
  <2> QED
    BY <1>1, <1>4, <2>1, TypedStays
<1>6. AloneInv'
  <2>1. CASE item[i].pc = "setup" /\ UNCHANGED asked
    <3>1. Active(i) /\ ~Ended(i)
      BY <2>1 DEF Active, Ended
    <3> QED
      BY <1>1, <1>4, <2>1, <3>1, StaysAlone
  <2>2. CASE Turn(i) /\ asked' = [asked EXCEPT ![i] = checkpoint]
    BY <1>1, <1>4, <2>2, BeginsAlone
  <2> QED
    BY <2>1, <2>2
<1>7. LinkInv'
  <2>1. Turn(i) \/ item[i].pc = "setup"
    OBVIOUS
  <2>2. item'[i].pc # "queued"
    OBVIOUS
  <2> QED
    BY <1>1, <2>1, <2>2, LinkMoves
<1>8. ReadInv'
  BY <1>1, ReadStays
<1> QED
  BY <1>3, <1>5, <1>6, <1>7, <1>8 DEF ActionInv

\* A command leaves.
LEMMA LeavesKeeps ==
    ASSUME ActionInv, UNCHANGED <<setting, run, ran, answers, workflow, losses, link>>, NEW i \in Items, Dispatched(i),
           \/ item[i].pc = "unsent" /\ UNCHANGED asked
           \/ Turn(i) /\ asked' = [asked EXCEPT ![i] = checkpoint]
    PROVE  ActionInv'
<1>1. Typed /\ EffectsInv /\ AloneInv /\ LinkInv /\ ReadInv
  BY DEF ActionInv
<1>2. "sent" \in Phases /\ requests' = requests \cup {i} /\ Goes(i, "sent")
  BY DEF Phases, Dispatched
<1>3. Moves(i) /\ item'[i].pc = "sent"
  BY <1>1, <1>2, GoesMoves DEF Typed
<1>4. Unsent(i) /\ item[i].pc \in {"queued", "unsent"}
  BY DEF Unsent, Turn
<1>5. EffectsInv'
  BY <1>1, <1>4, DispatchIsHonest
<1>6. asked' \in [Items -> Checkpoints] /\ UNCHANGED checkpoint
  BY <1>1 DEF Typed, workflow
<1>7. Typed'
  <2>1. plan' = plan /\ Items' = Items
    BY SamePlan
  <2> QED
    BY <1>1, <1>2, <1>3, <1>6, <2>1 DEF Typed, Moves
<1>8. AloneInv'
  <2>1. CASE item[i].pc = "unsent" /\ UNCHANGED asked
    <3>1. Active(i) /\ ~Ended(i)
      BY <2>1 DEF Active, Ended
    <3> QED
      BY <1>1, <1>3, <1>6, <2>1, <3>1, StaysAlone
  <2>2. CASE Turn(i) /\ asked' = [asked EXCEPT ![i] = checkpoint]
    BY <1>1, <1>3, <1>6, <2>2, BeginsAlone
  <2> QED
    BY <2>1, <2>2
<1>9. LinkInv'
  <2>1. item[i].pc # "setup" /\ item'[i].pc # "queued"
    BY <1>3, <1>4
  <2> QED
    BY <1>1, <1>3, <2>1, LinkStays
<1>10. ReadInv'
  BY <1>1, ReadStays
<1> QED
  BY <1>5, <1>7, <1>8, <1>9, <1>10 DEF ActionInv

\* An answer that ends the item well: only a page changes what the workflow has.
LEMMA DoneKeeps ==
    ASSUME ActionInv, UNCHANGED <<setting, run, requests, ran, answers, losses, link, asked>>, NEW i \in Items,
           item[i].pc = "sent", Goes(i, "done"), checkpoint' \in Checkpoints, ReadInv'
    PROVE  ActionInv'
<1>1. Typed /\ EffectsInv /\ AloneInv /\ LinkInv /\ ReadInv
  BY DEF ActionInv
<1>2. "done" \in Phases
  BY DEF Phases
<1>3. Moves(i) /\ item'[i].pc = "done"
  BY <1>1, <1>2, GoesMoves DEF Typed
<1>4. ~Unsent(i)' /\ ~Excluded(i)' /\ Active(i) /\ ~Active(i)'
  BY <1>3 DEF Unsent, Excluded, Active
<1>5. EffectsInv'
  BY <1>1, <1>3, <1>4, NodeIsHonest
<1>6. Typed'
  <2>1. plan' = plan /\ Items' = Items
    BY SamePlan
  <2> QED
    BY <1>1, <1>3, <2>1 DEF Typed, Moves
<1>7. AloneInv'
  BY <1>1, <1>3, <1>4, NoneLeft
<1>8. LinkInv'
  <2>1. item[i].pc # "setup" /\ item'[i].pc # "queued"
    BY <1>3
  <2> QED
    BY <1>1, <1>3, <2>1, LinkStays
<1> QED
  BY <1>5, <1>6, <1>7, <1>8 DEF ActionInv--------------------------------------------------------------------------------
(* The pages of the output.                                                 *)

Shift(a, S) == {a + k : k \in S}
Shifted(f, g, a, m) == \A k \in 1..m : g[k] = f[a + k] /\ f[a + k] \in Nat

\* A sum over numbers that all lie a further on.
LEMMA SumShift ==
    ASSUME NEW f, NEW g, NEW a \in Nat, NEW m \in Nat, NEW S \in SUBSET (1..m),
           Shifted(f, g, a, m)
    PROVE  SumFunctionOnSet(g, S) = SumFunctionOnSet(f, Shift(a, S))
<1>1. \A T \in SUBSET (1..m) : IsFiniteSet(T) /\ IsFiniteSet(Shift(a, T))
  <2> TAKE T \in SUBSET (1..m)
  <2>1. IsFiniteSet(1..m) /\ IsFiniteSet((a + 1)..(a + m))
    BY FS_Interval
  <2>2. Shift(a, T) \subseteq (a + 1)..(a + m)
    BY DEF Shift
  <2> QED
    BY <2>1, <2>2, FS_Subset
<1>2. PICK Q : Q = {T \in SUBSET S : SumFunctionOnSet(g, T) = SumFunctionOnSet(f, Shift(a, T))}
  OBVIOUS
<1>3. {} \in Q
  <2>1. Shift(a, {}) = {}
    BY DEF Shift
  <2> QED
    BY <1>2, <2>1, SumEmpty
<1>4. ASSUME NEW T \in SUBSET S, T # {}, \A x \in T : T \ {x} \in Q
      PROVE  T \in Q
  <2>1. PICK x \in T : T \ {x} \in Q
    BY <1>4
  <2>2. x \in 1..m /\ a + x \in Nat /\ g[x] = f[a + x] /\ f[a + x] \in Nat
    BY DEF Shifted
  <2>3. PICK rest : rest = Shift(a, T \ {x})
    OBVIOUS
  <2>4. Shift(a, T) = rest \cup {a + x} /\ a + x \notin rest
    BY <2>2, <2>3 DEF Shift
  <2>5. IsFiniteSet(rest) /\ IsFiniteSet(T)
    <3>1. T \ {x} \in SUBSET (1..m) /\ T \in SUBSET (1..m)
      OBVIOUS
    <3> QED
      BY <1>1, <2>3, <3>1
  <2>6. IntOn(g, T)
    BY DEF IntOn, Shifted
  <2>7. IntOn(f, rest \cup {a + x})
    BY <2>2, <2>3 DEF IntOn, Shift, Shifted
  <2>8. SumFunctionOnSet(f, rest \cup {a + x}) = SumFunctionOnSet(f, rest) + f[a + x]
    BY <2>4, <2>5, <2>7, SumAdd
  <2>9. SumFunctionOnSet(g, T) = g[x] + SumFunctionOnSet(g, T \ {x})
    BY <2>5, <2>6, SumRemove
  <2>10. SumFunctionOnSet(g, T \ {x}) = SumFunctionOnSet(f, rest)
    BY <1>2, <2>1, <2>3
  <2>11. SumFunctionOnSet(f, rest) \in Int
    <3>1. IntOn(f, rest)
      BY <2>7 DEF IntOn
    <3> QED
      BY <2>5, <3>1, SumIsInt
  <2>12. SumFunctionOnSet(g, T) = SumFunctionOnSet(f, Shift(a, T))
    BY <2>2, <2>4, <2>8, <2>9, <2>10, <2>11
  <2> QED
    BY <1>2, <2>12
<1>5. S \in Q
  BY <1>1, <1>3, <1>4, SetsInduction
<1> QED
  BY <1>2, <1>5

Sizes == [k \in DOMAIN Log |-> Log[k].bytes]

\* The log has an event for each number up to its length.
LEMMA LogNumbers ==
    /\ Len(Log) \in Nat /\ DOMAIN Log = 1..Len(Log)
    /\ \A n \in DOMAIN Log : Sizes[n] = Log[n].bytes /\ Sizes[n] \in Nat
    /\ \A S \in SUBSET DOMAIN Log : IsFiniteSet(S) /\ IntOn(Sizes, S) /\ LogBytes(S) \in Nat
<1>1. PICK R : Log \in Seq(R) /\ \A e \in R : e.bytes \in Nat
  <2>1. \A e \in [stream : {"stdout", "stderr"}, bytes : Nat \ {0}] : e.bytes \in Nat
    OBVIOUS
  <2> QED
    BY <2>1, ActionIoAssumption
<1>2. Len(Log) \in Nat /\ DOMAIN Log = 1..Len(Log) /\ \A n \in DOMAIN Log : Log[n] \in R
  BY <1>1, LenProperties, ElementOfSeq
<1>3. \A n \in DOMAIN Log : Sizes[n] = Log[n].bytes /\ Sizes[n] \in Nat
  BY <1>1, <1>2 DEF Sizes
<1>4. ASSUME NEW S \in SUBSET DOMAIN Log
      PROVE  IsFiniteSet(S) /\ IntOn(Sizes, S) /\ LogBytes(S) \in Nat
  <2>1. IsFiniteSet(S)
    <3>1. IsFiniteSet(1..Len(Log))
      BY <1>2, FS_Interval
    <3> QED
      BY <1>2, <3>1, FS_Subset
  <2>2. \A x \in S : Sizes[x] \in Nat
    BY <1>3
  <2>3. LogBytes(S) = SumFunctionOnSet(Sizes, S)
    BY DEF LogBytes, Sizes
  <2> QED
    BY <2>1, <2>2, <2>3, SumIsNat DEF IntOn
<1> QED
  BY <1>2, <1>3, <1>4

\* The bytes of a stream in the first n events.
Upto(n, s) == {k \in 1..n : Log[k].stream = s}

\* A page that follows on moves the cursor by its length, and holds the events in between.
LEMMA PageEvents ==
    ASSUME NEW page \in Pages, NEW cp, NEW a \in Nat, a = cp.after, a <= Len(Log), WellFormed(page), FollowsOn(page, cp)
    PROVE  \E m \in Nat :
               /\ page.events \in [1..m -> DOMAIN Log] /\ page.next = a + m /\ a + m <= Len(Log)
               /\ \A k \in 1..m : page.events[k] = a + k
<1>1. PICK m \in 0..Len(Log) : page.events \in [1..m -> DOMAIN Log]
  BY DEF Pages
<1>2. m \in Nat /\ Len(Log) \in Nat /\ DOMAIN Log = 1..Len(Log)
  BY LogNumbers
<1>3. PICK events : events = page.events
  OBVIOUS
<1>4. \A k \in 1..m : events[k] = a + k
  BY <1>1, <1>3 DEF FollowsOn
<1>5. CASE m = 0
  <2>1. events = <<>>
    BY <1>1, <1>3, <1>5
  <2>2. page.next = a
    BY <1>3, <2>1 DEF FollowsOn
  <2> QED
    BY <1>1, <1>2, <1>3, <1>4, <1>5, <2>2
<1>6. CASE m > 0
  <2>1. m \in 1..m /\ events[m] \in 1..Len(Log) /\ events[m] = a + m
    BY <1>1, <1>2, <1>3, <1>4, <1>6
  <2>2. Len(events) = m /\ events # <<>>
    BY <1>1, <1>2, <1>3, <1>6
  <2>3. page.next = events[m]
    BY <1>3, <2>2 DEF WellFormed, Last
  <2> QED
    BY <1>1, <1>2, <1>3, <1>4, <2>1, <2>3
<1>7. m = 0 \/ m > 0
  BY <1>2
<1> QED
  BY <1>5, <1>6, <1>7

\* The bytes of a stream in a page are those of the log between the two cursors.
LEMMA PageAddsUp ==
    ASSUME NEW a \in Nat, NEW m \in Nat, a + m <= Len(Log), NEW events \in [1..m -> DOMAIN Log],
           \A k \in 1..m : events[k] = a + k, NEW s
    PROVE  /\ PageBytes(events, OfStream(events, s)) \in Nat /\ LogBytes(Upto(a, s)) \in Nat
           /\ LogBytes(Upto(a + m, s)) = LogBytes(Upto(a, s)) + PageBytes(events, OfStream(events, s))
<1>1. PICK g : g = [k \in 1..m |-> Log[events[k]].bytes]
  OBVIOUS
<1>2. PICK S : S = OfStream(events, s)
  OBVIOUS
<1>3. S \in SUBSET (1..m) /\ \A k \in 1..m : k \in S <=> Log[a + k].stream = s
  BY <1>2 DEF OfStream
<1>4. \A k \in 1..m : a + k \in DOMAIN Log /\ g[k] = Sizes[a + k] /\ Sizes[a + k] \in Nat
  <2> TAKE k \in 1..m
  <2>1. a + k \in DOMAIN Log
    BY LogNumbers
  <2> QED
    BY <1>1, <2>1, LogNumbers
<1>5. PageBytes(events, S) = SumFunctionOnSet(g, S)
  BY <1>1 DEF PageBytes
<1>6. SumFunctionOnSet(g, S) = SumFunctionOnSet(Sizes, Shift(a, S))
  <2>1. PICK f : f = Sizes
    OBVIOUS
  <2>2. Shifted(f, g, a, m)
    BY <1>4, <2>1 DEF Shifted
  <2>3. S \in SUBSET (1..m)
    BY <1>3
  <2>4. SumFunctionOnSet(g, S) = SumFunctionOnSet(f, Shift(a, S))
    BY <2>2, <2>3, SumShift
  <2> QED
    BY <2>1, <2>4
<1>7. PICK all : all = Upto(a + m, s)
  OBVIOUS
<1>8. all \in SUBSET DOMAIN Log /\ Upto(a, s) \in SUBSET all /\ all \ Upto(a, s) = Shift(a, S)
  <2>1. all \in SUBSET DOMAIN Log /\ Upto(a, s) \in SUBSET all
    BY <1>7, LogNumbers DEF Upto
  <2>2. ASSUME NEW n \in all \ Upto(a, s) PROVE n \in Shift(a, S)
    <3>1. n \in 1..(a + m) /\ Log[n].stream = s /\ ~(n <= a)
      BY <1>7 DEF Upto
    <3>2. PICK k \in 1..m : n = a + k
      <4>1. n - a \in 1..m /\ n = a + (n - a)
        BY <3>1
      <4> QED
        BY <4>1
    <3> QED
      BY <1>3, <3>1, <3>2 DEF Shift
  <2>3. ASSUME NEW k \in S PROVE a + k \in all \ Upto(a, s)
    <3>1. k \in 1..m /\ Log[a + k].stream = s
      BY <1>3
    <3>2. a + k \in 1..(a + m) /\ a + k \notin 1..a
      BY <3>1
    <3> QED
      BY <1>7, <3>1, <3>2 DEF Upto
  <2> QED
    BY <2>1, <2>2, <2>3 DEF Shift
<1>9. SumFunctionOnSet(Sizes, all) = SumFunctionOnSet(Sizes, Upto(a, s)) + SumFunctionOnSet(Sizes, all \ Upto(a, s))
  BY <1>8, LogNumbers, SumSplit
<1>10. LogBytes(all) = LogBytes(Upto(a, s)) + PageBytes(events, S)
  BY <1>5, <1>6, <1>8, <1>9 DEF LogBytes, Sizes
<1>11. LogBytes(Upto(a, s)) \in Nat
  BY <1>8, LogNumbers
<1>12. PageBytes(events, S) \in Nat
  <2>1. Shift(a, S) \in SUBSET DOMAIN Log
    BY <1>8
  <2>2. LogBytes(Shift(a, S)) \in Nat
    BY <2>1, LogNumbers
  <2> QED
    BY <1>5, <1>6, <2>2 DEF LogBytes, Sizes
<1> QED
  BY <1>2, <1>7, <1>10, <1>11, <1>12

\* A page that is accepted continues what the workflow has, without a gap.
LEMMA PageReadOn ==
    ASSUME ReadInv, checkpoint \in Checkpoints, NEW page \in Pages, Accepts(page, checkpoint),
           checkpoint' = [after |-> page.next, stdout |-> NextOffset(page, checkpoint, "stdout"),
                          stderr |-> NextOffset(page, checkpoint, "stderr")],
           transcript' = transcript \o page.events
    PROVE  ReadInv' /\ checkpoint' \in Checkpoints
<1>1. PICK a \in Nat : a = checkpoint.after /\ a <= Len(Log)
  BY LogNumbers DEF ReadInv
<1>2. WellFormed(page) /\ FollowsOn(page, checkpoint)
  BY DEF Accepts
<1>3. PICK m \in Nat :
        /\ page.events \in [1..m -> DOMAIN Log] /\ page.next = a + m /\ a + m <= Len(Log)
        /\ \A k \in 1..m : page.events[k] = a + k
  BY <1>1, <1>2, PageEvents
<1>4. PICK events \in [1..m -> DOMAIN Log] : events = page.events /\ \A k \in 1..m : events[k] = a + k
  BY <1>3
<1>5. transcript' = [n \in 1..(a + m) |-> n]
  <2>1. PICK t \in [1..a -> Nat] : t = transcript /\ \A n \in 1..a : t[n] = n
    <3>1. [n \in 1..a |-> n] \in [1..a -> Nat]
      OBVIOUS
    <3> QED
      BY <1>1, <3>1 DEF ReadInv
  <2>2. events \in [1..m -> Nat]
    BY LogNumbers
  <2>3. t \in Seq(Nat) /\ events \in Seq(Nat) /\ Len(t) = a /\ Len(events) = m
    BY <2>2
  <2>4. PICK both : both = t \o events
    OBVIOUS
  <2>5. both \in Seq(Nat) /\ Len(both) = a + m /\ \A n \in 1..(a + m) : both[n] = IF n <= a THEN t[n] ELSE events[n - a]
    BY <2>3, <2>4, ConcatProperties
  <2>6. \A n \in 1..(a + m) : both[n] = n
    <3> TAKE n \in 1..(a + m)
    <3>1. CASE n <= a
      BY <2>1, <2>5, <3>1
    <3>2. CASE ~(n <= a)
      <4>1. n - a \in 1..m /\ a + (n - a) = n
        BY <3>2
      <4> QED
        BY <1>4, <2>5, <3>2, <4>1
    <3> QED
      BY <3>1, <3>2
  <2>7. DOMAIN both = 1..(a + m) /\ both = [n \in DOMAIN both |-> both[n]]
    BY <2>5, LenProperties
  <2>8. both = [n \in 1..(a + m) |-> n]
    BY <2>6, <2>7
  <2> QED
    BY <1>4, <2>1, <2>4, <2>8
<1>6. \A s \in {"stdout", "stderr"} :
        NextOffset(page, checkpoint, s) \in Nat /\ NextOffset(page, checkpoint, s) = LogBytes(Upto(a + m, s))
  <2> TAKE s \in {"stdout", "stderr"}
  <2>1. /\ PageBytes(events, OfStream(events, s)) \in Nat /\ LogBytes(Upto(a, s)) \in Nat
        /\ LogBytes(Upto(a + m, s)) = LogBytes(Upto(a, s)) + PageBytes(events, OfStream(events, s))
    BY <1>3, <1>4, PageAddsUp
  <2>2. PICK read \in Nat, more \in Nat :
          /\ read = LogBytes(Upto(a, s)) /\ more = PageBytes(events, OfStream(events, s))
          /\ LogBytes(Upto(a + m, s)) = read + more
    BY <2>1
  <2>3. checkpoint[s] = read
    BY <1>1, <2>2 DEF ReadInv, Upto
  <2> QED
    BY <1>4, <2>2, <2>3 DEF NextOffset
<1>7. /\ checkpoint'.after = a + m
      /\ checkpoint'["stdout"] = NextOffset(page, checkpoint, "stdout")
      /\ checkpoint'["stderr"] = NextOffset(page, checkpoint, "stderr")
  BY <1>3
<1>8. \A s \in {"stdout", "stderr"} : checkpoint'[s] = LogBytes({n \in 1..checkpoint'.after : Log[n].stream = s})
  BY <1>6, <1>7 DEF Upto
<1>9. checkpoint'.after \in 0..Len(Log) /\ transcript' = [n \in 1..checkpoint'.after |-> n]
  BY <1>3, <1>5, <1>7, LogNumbers
<1>10. ReadInv'
  BY <1>8, <1>9 DEF ReadInv, LogBytes
<1>11. checkpoint' \in Checkpoints
  <2>1. page.next \in Nat /\ NextOffset(page, checkpoint, "stdout") \in Nat /\ NextOffset(page, checkpoint, "stderr") \in Nat
    BY <1>3, <1>6
  <2> QED
    BY <2>1 DEF Checkpoints
<1> QED
  BY <1>10, <1>11--------------------------------------------------------------------------------
(* Every step keeps the invariant.                                          *)

\* An item whose parameters are refused was never sent.
LEMMA InvalidKeeps == ASSUME ActionInv, NEW i \in Items, Invalid(i) PROVE ActionInv'
<1>1. Turn(i) /\ Failed(i, FALSE) /\ UNCHANGED <<setting, run, requests, ran, answers, workflow, asked, link, losses>>
  BY DEF Invalid, agent
<1>2. Unsent(i) /\ item[i].pc # "setup" /\ link' \in [Channels -> Stages] /\ losses' \in 0..MaxLosses
  BY <1>1 DEF Turn, Unsent, ActionInv, Typed
<1>3. \A c \in Channels : link'[c] = link[c]
  BY <1>1
<1> QED
  BY <1>1, <1>2, <1>3, FailKeeps

\* Over REST the command leaves at once.
LEMMA RestKeeps == ASSUME ActionInv, NEW i \in Items, OverRest(i) PROVE ActionInv'
<1>1. /\ Turn(i) /\ asked' = [asked EXCEPT ![i] = checkpoint] /\ Dispatched(i)
      /\ UNCHANGED <<setting, run, ran, answers, workflow, losses, link>>
  BY DEF OverRest
<1> QED
  BY <1>1, LeavesKeeps

\* Over a socket the item waits for its connection, for the engine, or fails with it.
LEMMA SocketKeeps == ASSUME ActionInv, NEW i \in Items, OverSocket(i) PROVE ActionInv'
<1>1. PICK c \in Channels : c = plan[i].channel
  BY DEF OverSocket
<1>2. /\ Turn(i) /\ asked' = [asked EXCEPT ![i] = checkpoint]
      /\ UNCHANGED <<setting, run, requests, ran, answers, workflow, losses>>
  BY DEF OverSocket, agent
<1>3. item[i].pc = "queued" /\ item \in [Items -> States] /\ link \in [Channels -> Stages] /\ losses' \in 0..MaxLosses
  BY <1>2 DEF Turn, ActionInv, Typed
<1>4. link[c] \in {"none", "open", "down"}
  <2>1. link[c] \in Stages
    BY <1>3
  <2>2. \A k \in Items : item[k].pc # "setup"
    BY <1>2, <1>3, OnlyOne DEF ActionInv, Active
  <2>3. ~(link[c] \in {"connecting", "starting"})
    BY <2>1, <2>2 DEF ActionInv, LinkInv
  <2> QED
    BY <2>1, <2>3 DEF Stages
<1>5. CASE link[c] = "none"
  <2>1. Goes(i, "setup") /\ link' = [link EXCEPT ![c] = "connecting"]
    BY <1>1, <1>5 DEF OverSocket
  <2>2. "setup" \in Phases /\ "connecting" \in Stages
    BY DEF Phases, Stages
  <2>3. Moves(i) /\ item'[i].pc = "setup"
    BY <1>2, <1>3, <2>1, <2>2, GoesMoves
  <2> QED
    BY <1>1, <1>2, <1>3, <2>1, <2>2, <2>3, GoKeeps
<1>6. CASE link[c] = "open"
  <2>1. Goes(i, "unsent") /\ link' = link
    BY <1>1, <1>6 DEF OverSocket
  <2>2. "unsent" \in Phases /\ "open" \in Stages /\ link' = [link EXCEPT ![c] = "open"]
    BY <1>3, <1>6, <2>1 DEF Phases, Stages
  <2>3. Moves(i) /\ item'[i].pc = "unsent"
    BY <1>2, <1>3, <2>1, <2>2, GoesMoves
  <2> QED
    BY <1>1, <1>2, <1>3, <2>2, <2>3, GoKeeps
<1>7. CASE link[c] = "down"
  <2>1. Failed(i, FALSE) /\ link' = link
    BY <1>1, <1>7 DEF OverSocket
  <2>2. Unsent(i) /\ item[i].pc # "setup" /\ link' \in [Channels -> Stages] /\ \A d \in Channels : link'[d] = link[d]
    BY <1>3, <2>1 DEF Unsent
  <2> QED
    BY <1>2, <1>3, <2>1, <2>2, FailKeeps
<1> QED
  BY <1>4, <1>5, <1>6, <1>7

\* The connection is ready, or the conversation of a relay is next.
LEMMA ReadyKeeps == ASSUME ActionInv, NEW i \in Items, Ready(i) PROVE ActionInv'
<1>1. PICK c \in Channels : c = plan[i].channel
  BY DEF ActionInv, LinkInv, Ready, SettingUp
<1>2. item[i].pc = "setup" /\ UNCHANGED <<setting, run, requests, ran, answers, workflow, losses, asked>>
  BY DEF Ready, SettingUp, agent
<1>3. item \in [Items -> States] /\ "starting" \in Stages /\ "open" \in Stages /\ "unsent" \in Phases
  BY DEF ActionInv, Typed, Stages, Phases
<1>4. CASE link' = [link EXCEPT ![c] = "starting"] /\ UNCHANGED item
  <2>1. Moves(i) /\ item'[i].pc = "setup"
    BY <1>2, <1>3, <1>4, SamePlan DEF Moves
  <2> QED
    BY <1>1, <1>2, <1>3, <1>4, <2>1, GoKeeps
<1>5. CASE link' = [link EXCEPT ![c] = "open"] /\ Goes(i, "unsent")
  <2>1. Moves(i) /\ item'[i].pc = "unsent"
    BY <1>2, <1>3, <1>5, GoesMoves
  <2> QED
    BY <1>1, <1>2, <1>3, <1>5, <2>1, GoKeeps
<1> QED
  BY <1>1, <1>4, <1>5 DEF Ready

\* A connection that cannot be set up is given up, with its item.
LEMMA SetupFailKeeps == ASSUME ActionInv, NEW i \in Items, SetupFails(i) PROVE ActionInv'
<1>1. PICK c \in Channels : c = plan[i].channel
  BY DEF ActionInv, LinkInv, SetupFails, SettingUp
<1>2. item[i].pc = "setup" /\ Failed(i, FALSE) /\ UNCHANGED <<setting, run, requests, ran, answers, workflow, asked>>
  BY DEF SetupFails, SettingUp, agent
<1>3. link' = [link EXCEPT ![c] = "none"] /\ losses' \in 0..MaxLosses
  BY <1>1 DEF SetupFails, ActionInv, Typed
<1>4. link' \in [Channels -> Stages]
  <2>1. "none" \in Stages
    BY DEF Stages
  <2> QED
    BY <1>3, <2>1 DEF ActionInv, Typed
<1>5. Unsent(i) /\ Active(i)
  BY <1>2 DEF Unsent, Active
<1> QED
  BY <1>1, <1>2, <1>3, <1>4, <1>5, FailKeeps

\* A command that waits is given up: it may have had effects once it has left.
LEMMA GivenUpKeeps ==
    ASSUME ActionInv, UNCHANGED <<setting, run, requests, ran, answers, workflow, asked>>, NEW i \in Items,
           Waiting(i), Failed(i, MayHaveEffects(i)), losses' \in 0..MaxLosses, link' \in [Channels -> Stages],
           \A c \in Channels : link'[c] = link[c] \/ (link[c] = "open" /\ link'[c] = "down")
    PROVE  ActionInv'
<1>1. item[i].pc # "setup" /\ Active(i) /\ (Unsent(i) \/ item[i].pc = "sent")
  BY DEF Waiting, Active, Unsent
<1>2. CASE MayHaveEffects(i)
  <2>1. Failed(i, TRUE)
    BY <1>2
  <2> QED
    BY <1>1, <2>1, FailKeeps
<1>3. CASE ~MayHaveEffects(i)
  <2>1. Failed(i, FALSE)
    <3>1. MayHaveEffects(i) = FALSE
      BY <1>3 DEF MayHaveEffects
    <3> QED
      BY <3>1
  <2>2. Unsent(i) \/ ~Mutation(i)
    BY <1>1, <1>3 DEF MayHaveEffects
  <2> QED
    BY <1>1, <2>1, <2>2, FailKeeps
<1> QED
  BY <1>2, <1>3

\* The items stay as they are, and connections stay or are lost.
LEMMA NobodyMoves ==
    ASSUME ActionInv, UNCHANGED <<setting, run, requests, ran, answers, workflow, asked, item>>,
           losses' \in 0..MaxLosses, link' \in [Channels -> Stages],
           \A c \in Channels : link'[c] = link[c] \/ (link[c] = "open" /\ link'[c] = "down")
    PROVE  ActionInv'
<1>1. Typed /\ EffectsInv /\ AloneInv /\ LinkInv /\ ReadInv
  BY DEF ActionInv
<1>2. 0 \notin Items /\ Moves(0) /\ UNCHANGED checkpoint
  BY <1>1, ItemsAreNumbers, SamePlan DEF Moves, Typed, workflow
<1>3. asked' \in [Items -> Checkpoints]
  BY <1>1 DEF Typed
<1>4. Typed'
  BY <1>1, <1>2, <1>3, TypedStays
<1>5. EffectsInv'
  BY <1>1, <1>2, NodeIsHonest
<1>6. AloneInv'
  BY <1>1, <1>2, StaysAlone
<1>7. LinkInv'
  BY <1>1, <1>2, LinkStays
<1>8. ReadInv'
  BY <1>1, ReadStays
<1> QED
  BY <1>4, <1>5, <1>6, <1>7, <1>8 DEF ActionInv

\* A lost connection, or a frame that makes no sense, gives up the one command that waits on it.
LEMMA ChannelKeeps == ASSUME ActionInv, NEW c \in Channels, Lost(c) \/ BadFrame(c) PROVE ActionInv'
<1>1. UNCHANGED <<setting, run, requests, ran, answers, workflow, asked>> /\ FailAll(c)
  BY DEF Lost, BadFrame, agent
<1>2. link \in [Channels -> Stages] /\ losses \in 0..MaxLosses /\ "down" \in Stages
  BY DEF ActionInv, Typed, Stages
<1>3. losses' \in 0..MaxLosses
  <2>1. MaxLosses \in Nat
    BY ActionIoAssumption
  <2> QED
    BY <1>2, <2>1 DEF Lost, BadFrame
<1>4. link' \in [Channels -> Stages] /\ \A d \in Channels : link'[d] = link[d] \/ (link[d] = "open" /\ link'[d] = "down")
  BY <1>2 DEF Lost, BadFrame
<1>5. CASE OnChannel(c) = {}
  BY <1>1, <1>3, <1>4, <1>5, NobodyMoves DEF FailAll
<1>6. CASE OnChannel(c) # {}
  <2>1. PICK i \in OnChannel(c) : Failed(i, MayHaveEffects(i))
    BY <1>1, <1>6 DEF FailAll
  <2>2. i \in Items /\ Waiting(i)
    BY DEF OnChannel
  <2> QED
    BY <1>1, <1>3, <1>4, <2>1, <2>2, GivenUpKeeps
<1> QED
  BY <1>5, <1>6

\* An answer that fails the item: an error is believed where it rules effects out.
LEMMA AnswerFails ==
    ASSUME ActionInv, NEW i \in Items, NEW a \in answers, ErrorArrives(i, a) \/ MalformedArrives(i, a)
    PROVE  ActionInv'
<1>1. /\ UNCHANGED <<setting, run, requests, ran, answers, workflow, asked, link, losses>>
      /\ item[i].pc = "sent" /\ a.to = i
  BY DEF ErrorArrives, MalformedArrives, Awaits, agent
<1>2. /\ link' \in [Channels -> Stages] /\ losses' \in 0..MaxLosses /\ item[i].pc # "setup"
      /\ \A c \in Channels : link'[c] = link[c]
  BY <1>1 DEF ActionInv, Typed
<1>3. Active(i)
  BY <1>1 DEF Active
<1>4. Believed(a)
  BY DEF ActionInv, EffectsInv
<1>5. PICK unknown \in BOOLEAN : Failed(i, unknown) /\ ((Mutation(i) => unknown) \/ a.told = "none")
  <2>1. CASE ErrorArrives(i, a)
    <3>1. CASE ToldUnknown(i, a)
      <4>1. Failed(i, TRUE)
        BY <2>1, <3>1 DEF ErrorArrives
      <4> QED
        BY <4>1
    <3>2. CASE ~ToldUnknown(i, a)
      <4>1. Failed(i, FALSE) /\ (~Mutation(i) \/ a.told = "none")
        BY <2>1, <3>2 DEF ErrorArrives, ToldUnknown
      <4> QED
        BY <4>1
    <3> QED
      BY <3>1, <3>2
  <2>2. CASE MalformedArrives(i, a)
    <3>1. CASE Mutation(i)
      <4>1. Failed(i, TRUE)
        BY <2>2, <3>1 DEF MalformedArrives
      <4> QED
        BY <4>1
    <3>2. CASE ~Mutation(i)
      <4>1. Failed(i, FALSE)
        <5>1. Mutation(i) = FALSE
          BY <3>2 DEF Mutation
        <5>2. Failed(i, Mutation(i))
          BY <2>2 DEF MalformedArrives
        <5> QED
          BY <5>1, <5>2
      <4> QED
        BY <3>2, <4>1
    <3> QED
      BY <3>1, <3>2
  <2> QED
    BY <2>1, <2>2
<1>6. (Mutation(i) => unknown) \/ Untouched(i)
  BY <1>1, <1>4, <1>5 DEF Believed
<1> QED
  BY <1>1, <1>2, <1>3, <1>5, <1>6, FailKeeps

\* A result ends the item; a page that is accepted moves the checkpoint, any other fails it.
LEMMA ResultKeeps ==
    ASSUME ActionInv, NEW i \in Items, NEW a \in answers,
           ResultArrives(i, a) \/ \E page \in Pages : PageArrives(i, a, page)
    PROVE  ActionInv'
<1>1. item[i].pc = "sent" /\ UNCHANGED <<setting, run, requests, ran, answers, asked, link, losses>>
  BY DEF ResultArrives, PageArrives, Awaits, agent
<1>2. checkpoint \in Checkpoints /\ ReadInv /\ asked[i] = checkpoint /\ Active(i)
  BY <1>1 DEF ActionInv, Typed, AloneInv, Active
<1>3. CASE ResultArrives(i, a)
  <2>1. Goes(i, "done") /\ UNCHANGED workflow
    BY <1>3 DEF ResultArrives
  <2>2. ReadInv' /\ checkpoint' \in Checkpoints
    BY <1>2, <2>1, ReadStays DEF workflow
  <2> QED
    BY <1>1, <2>1, <2>2, DoneKeeps
<1>4. ASSUME NEW page \in Pages, PageArrives(i, a, page)
      PROVE  ActionInv'
  <2>1. CASE Accepts(page, asked[i])
    <3>1. /\ Goes(i, "done")
          /\ checkpoint' = [after |-> page.next, stdout |-> NextOffset(page, checkpoint, "stdout"),
                            stderr |-> NextOffset(page, checkpoint, "stderr")]
          /\ transcript' = transcript \o page.events
      BY <1>2, <1>4, <2>1 DEF PageArrives
    <3>2. Accepts(page, checkpoint)
      BY <1>2, <2>1
    <3>3. ReadInv' /\ checkpoint' \in Checkpoints
      BY <1>2, <3>1, <3>2, PageReadOn
    <3> QED
      BY <1>1, <3>1, <3>3, DoneKeeps
  <2>2. CASE ~Accepts(page, asked[i])
    <3>1. Failed(i, FALSE) /\ UNCHANGED workflow /\ ~Mutation(i)
      BY <1>4, <2>2 DEF PageArrives
    <3>2. /\ link' \in [Channels -> Stages] /\ losses' \in 0..MaxLosses /\ item[i].pc # "setup"
          /\ \A c \in Channels : link'[c] = link[c]
      BY <1>1 DEF ActionInv, Typed
    <3> QED
      BY <1>1, <1>2, <3>1, <3>2, FailKeeps
  <2> QED
    BY <2>1, <2>2
<1> QED
  BY <1>3, <1>4

\* An execution that cannot start skips its items: none of them had begun.
LEMMA NotStartedKeeps == ASSUME ActionInv, NotStarted PROVE ActionInv'
<1>1. Typed /\ EffectsInv /\ AloneInv /\ LinkInv /\ ReadInv
  BY DEF ActionInv
<1>2. UNCHANGED <<setting, run, requests, ran, answers, workflow, asked, link, losses, checkpoint>>
  BY DEF NotStarted, agent, workflow
<1>3. 0 \notin Items /\ Moves(0)
  <2>1. PICK own \in SUBSET Items :
          /\ \A i \in own : item[i].pc = "queued"
          /\ item' = [i \in Items |-> IF i \in own THEN [item[i] EXCEPT !.pc = "skipped"] ELSE item[i]]
    <3>1. {i \in Items : plan[i].run = run} \in SUBSET Items
      OBVIOUS
    <3> QED
      BY <3>1 DEF NotStarted
  <2>2. \A s \in States : [s EXCEPT !.pc = "skipped"] \in States /\ [s EXCEPT !.pc = "skipped"].pc = "skipped"
    BY DEF States, Phases
  <2>3. \A i \in Items : item[i] \in States
    BY <1>1 DEF Typed
  <2>4. \A i \in Items : item'[i] \in States /\ (item'[i] = item[i] \/ (item[i].pc = "queued" /\ item'[i].pc = "skipped"))
    <3> TAKE i \in Items
    <3>1. CASE i \in own
      BY <2>1, <2>2, <2>3, <3>1
    <3>2. CASE i \notin own
      BY <2>1, <2>3, <3>2
    <3> QED
      BY <3>1, <3>2
  <2>5. item' \in [Items -> States]
    BY <2>1, <2>4
  <2> QED
    BY <1>1, <1>2, <2>4, <2>5, ItemsAreNumbers, SamePlan DEF Moves, Typed
<1>4. asked' \in [Items -> Checkpoints] /\ link' \in [Channels -> Stages] /\ losses' \in 0..MaxLosses
  BY <1>1, <1>2 DEF Typed
<1>5. Typed'
  BY <1>1, <1>2, <1>3, <1>4, TypedStays
<1>6. EffectsInv'
  BY <1>1, <1>2, <1>3, NodeIsHonest
<1>7. AloneInv'
  BY <1>1, <1>2, <1>3, StaysAlone
<1>8. LinkInv'
  BY <1>1, <1>2, <1>3, LinkStays
<1>9. ReadInv'
  BY <1>1, <1>2, ReadStays
<1> QED
  BY <1>5, <1>6, <1>7, <1>8, <1>9 DEF ActionInv

\* When an execution has ended nothing is being executed, and its connections are gone.
LEMMA ReturnsKeeps == ASSUME ActionInv, Returns PROVE ActionInv'
<1>1. UNCHANGED <<setting, item, asked, requests, ran, answers, workflow, losses, checkpoint>> /\ run' = run + 1 /\ link' = LinkAfter
  BY DEF Returns, agent, workflow
<1>2. plan' = plan /\ Items' = Items
  BY <1>1, SamePlan
<1>3. \A c \in Channels : link'[c] = "none"
  BY <1>1 DEF LinkAfter
<1>4. link' \in [Channels -> Stages]
  <2>1. "none" \in Stages
    BY DEF Stages
  <2> QED
    BY <1>1, <2>1 DEF LinkAfter
<1>5. Typed'
  BY <1>1, <1>2, <1>4 DEF ActionInv, Typed
<1>6. EffectsInv'
  BY <1>1, <1>2 DEF ActionInv, EffectsInv, Honest, Believed, Unsent, Untouched, Excluded, Mutation
<1>7. \A i \in Items : ~Active(i)
  BY DEF ActionInv, AloneInv, Returns, Active, Ended
<1>8. AloneInv'
  BY <1>1, <1>2, <1>7 DEF AloneInv, Active
<1>9. LinkInv'
  <2>1. \A i \in Items : item[i].pc # "setup"
    BY <1>7 DEF Active
  <2> QED
    BY <1>1, <1>2, <1>3, <2>1 DEF LinkInv, Channels
<1>10. ReadInv'
  BY <1>1, ReadStays DEF ActionInv
<1> QED
  BY <1>5, <1>6, <1>8, <1>9, <1>10 DEF ActionInv--------------------------------------------------------------------------------
(* The invariant holds from the start.                                      *)

\* Nothing has been sent, connected or read.
LEMMA ActionInvInit == ASSUME Init PROVE ActionInv
<1>1. Items = DOMAIN plan /\ plan \in Plans
  BY DEF Init, Items
<1>2. PICK queued : queued = [pc |-> "queued", unknown |-> FALSE]
  OBVIOUS
<1>3. queued \in States /\ queued.pc = "queued"
  BY <1>2 DEF States, Phases
<1>4. item = [i \in Items |-> queued]
  BY <1>2 DEF Init
<1>5. Start \in Checkpoints /\ Start.after = 0 /\ Start["stdout"] = 0 /\ Start["stderr"] = 0
  BY DEF Start, Checkpoints
<1>6. asked = [i \in Items |-> Start] /\ checkpoint = Start
  BY DEF Init
<1>7. "none" \in Stages /\ link = [c \in Channels |-> "none"] /\ MaxLosses \in Nat
  BY ActionIoAssumption DEF Init, Stages
<1>8. requests = {} /\ ran = [i \in Items |-> 0] /\ answers = {} /\ transcript = <<>> /\ losses = 0 /\ run = 1
  BY DEF Init
<1>9. Typed
  BY <1>1, <1>3, <1>4, <1>5, <1>6, <1>7, <1>8 DEF Typed
<1>10. EffectsInv
  BY <1>3, <1>4, <1>8 DEF EffectsInv, Honest, Unsent, Excluded, Untouched
<1>11. \A i \in Items : item[i].pc = "queued"
  BY <1>3, <1>4
<1>12. AloneInv
  BY <1>11 DEF AloneInv, Active
<1>13. LinkInv
  BY <1>7, <1>11 DEF LinkInv
<1>14. ReadInv
  <2>1. checkpoint.after = 0 /\ Len(Log) \in Nat
    BY <1>5, <1>6, LogNumbers
  <2>2. \A s : {n \in 1..checkpoint.after : Log[n].stream = s} = {}
    BY <2>1
  <2>3. LogBytes({}) = 0
    BY SumEmpty DEF LogBytes
  <2>4. \A s \in {"stdout", "stderr"} : checkpoint[s] = LogBytes({n \in 1..checkpoint.after : Log[n].stream = s})
    BY <1>5, <1>6, <2>2, <2>3
  <2>5. transcript = [n \in 1..checkpoint.after |-> n]
    BY <1>8, <2>1
  <2> QED
    BY <2>1, <2>4, <2>5 DEF ReadInv
<1> QED
  BY <1>9, <1>10, <1>12, <1>13, <1>14 DEF ActionInv

\* The agent runs a command or refuses it.
LEMMA AgentKeeps == ASSUME ActionInv, NEW i \in Items, Runs(i) \/ Refuses(i) PROVE ActionInv'
<1>1. UNCHANGED <<setting, plan, item, asked, link, run, workflow, losses, checkpoint>> /\ Items' = Items
  BY SamePlan DEF Runs, Refuses, workflow
<1>2. EffectsInv' /\ requests' \subseteq Items /\ ran' \in [Items -> Nat]
  BY AgentIsHonest DEF ActionInv
<1>3. Typed'
  BY <1>1, <1>2 DEF ActionInv, Typed
<1>4. AloneInv'
  BY <1>1 DEF ActionInv, AloneInv, Active, Ended
<1>5. LinkInv'
  BY <1>1 DEF ActionInv, LinkInv
<1>6. ReadInv'
  BY <1>1, ReadStays DEF ActionInv
<1> QED
  BY <1>2, <1>3, <1>4, <1>5, <1>6 DEF ActionInv

\* Every step of the node, the hub and the agent keeps the invariant.
LEMMA ActionInductive == Spec => []ActionInv
<1>1. Init => ActionInv
  BY ActionInvInit
<1>2. ActionInv /\ [Next]_vars => ActionInv'
  <2> SUFFICES ASSUME ActionInv, [Next]_vars PROVE ActionInv'
    OBVIOUS
  <2>1. ASSUME NEW i \in Items, Own(i) PROVE ActionInv'
    <3>1. CASE TimesOut(i)
      <4>1. /\ UNCHANGED <<setting, run, requests, ran, answers, workflow, asked, link, losses>>
            /\ Waiting(i) /\ Failed(i, MayHaveEffects(i))
        BY <3>1 DEF TimesOut, Timed, agent
      <4>2. losses' \in 0..MaxLosses /\ link' \in [Channels -> Stages] /\ \A c \in Channels : link'[c] = link[c]
        BY <4>1 DEF ActionInv, Typed
      <4> QED
        BY <4>1, <4>2, GivenUpKeeps
    <3> QED
      BY <2>1, <3>1, InvalidKeeps, RestKeeps, SocketKeeps, SetupFailKeeps DEF Own
  <2>2. ASSUME NEW i \in Items, Flush(i) PROVE ActionInv'
    BY <2>2, LeavesKeeps DEF Flush
  <2>3. ASSUME NEW i \in Items, Hub(i) PROVE ActionInv'
    BY <2>3, AgentKeeps, AnswerFails, ResultKeeps DEF Hub
  <2>4. CASE UNCHANGED vars
    <3>1. /\ UNCHANGED <<setting, run, requests, ran, answers, workflow, asked, item, link, losses>>
      BY <2>4 DEF vars, agent
    <3>2. losses' \in 0..MaxLosses /\ link' \in [Channels -> Stages] /\ \A c \in Channels : link'[c] = link[c]
      BY <3>1 DEF ActionInv, Typed
    <3> QED
      BY <3>1, <3>2, NobodyMoves
  <2> QED
    BY <2>1, <2>2, <2>3, <2>4, ReadyKeeps, ChannelKeeps, NotStartedKeeps, ReturnsKeeps DEF Next
<1> QED
  BY <1>1, <1>2, PTL DEF Spec

\* An error that rules effects out is true whatever was lost, late or doubled: the agent has
\* not run the mutation and never will; and no command is sent twice.
THEOREM ErrorsAreTrue == Spec => []EffectsTold
<1>1. ActionInv => EffectsTold
  <2> SUFFICES ASSUME ActionInv PROVE EffectsTold
    OBVIOUS
  <2>1. TypeOK
    <3>1. transcript \in Seq(DOMAIN Log)
      <4>1. PICK a \in 0..Len(Log) : a = checkpoint.after
        BY DEF ActionInv, ReadInv
      <4>2. Len(Log) \in Nat /\ DOMAIN Log = 1..Len(Log)
        BY LogNumbers
      <4>3. transcript = [n \in 1..a |-> n] /\ a \in Nat
        BY <4>1, <4>2 DEF ActionInv, ReadInv
      <4>4. transcript \in [1..a -> DOMAIN Log]
        BY <4>1, <4>2, <4>3
      <4> QED
        BY <4>3, <4>4
    <3>2. /\ item \in [Items -> [pc : Phases, unknown : BOOLEAN]] /\ link \in [Channels -> Stages]
          /\ run \in Nat /\ requests \subseteq Items /\ ran \in [Items -> Nat]
          /\ checkpoint \in Checkpoints /\ losses \in 0..MaxLosses
      BY DEF ActionInv, Typed, States
    <3> QED
      BY <3>1, <3>2 DEF TypeOK, Phases, Stages, Checkpoints
  <2>2. ASSUME NEW i \in Items
        PROVE  /\ ran[i] + (IF i \in requests THEN 1 ELSE 0) <= 1
               /\ item[i].pc = "error" /\ Mutation(i) /\ ~item[i].unknown => ran[i] = 0 /\ i \notin requests
               /\ item[i].pc = "skipped" => ran[i] = 0 /\ i \notin requests
    <3>1. Honest(i)
      BY DEF ActionInv, EffectsInv
    <3>2. ran[i] + (IF i \in requests THEN 1 ELSE 0) <= 1
      BY <3>1 DEF Honest
    <3> QED
      BY <3>1, <3>2 DEF Honest, Unsent, Excluded, Untouched
  <2> QED
    BY <2>1, <2>2 DEF EffectsTold
<1> QED
  BY <1>1, ActionInductive, PTL

\* What the workflow has read over several executions is the output of the action from its
\* start, without a gap and without an event twice, its checkpoint stands where that ends,
\* and no connection outlives its execution.
THEOREM ReadsAreWhole == Spec => []ExecutionsApart
<1>1. ActionInv => ExecutionsApart
  BY DEF ActionInv, ReadInv, LinkInv, ExecutionsApart
<1> QED
  BY <1>1, ActionInductive, PTL
================================================================================
