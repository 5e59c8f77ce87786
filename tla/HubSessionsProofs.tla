-------------------------- MODULE HubSessionsProofs --------------------------
(***************************************************************************)
(* Proofs about HubSessions, for any number of sessions, nodes and tasks:  *)
(* a lease is released only by the teardown of its owner, and a quiet Hub  *)
(* has told every ready session the current directory.                     *)
(***************************************************************************)
EXTENDS HubSessions, TLAPS

(* Some task has x among the steps it has still to take. *)
Pending(x) == \E t \in Tasks : \E i \in DOMAIN todo[t] : todo[t][i] = x

(* A broadcast to s is on its way: a list still names it, or a session is    *)
(* about to become ready and will broadcast to the whole table.              *)
ListPending(s) ==
  \/ \E to \in SUBSET SessionIds : s \in to /\ Pending(Broadcast(to))
  \/ \E r \in SessionIds : Pending(Do("ready", r))

TodoType ==
  /\ todo \in [Tasks -> Seq(Step)]
  /\ events \in [SessionIds -> Seq(Kinds)]

TableType ==
  /\ opened \in 0 .. Len(NodeOf)
  /\ table \subseteq 1 .. opened
  /\ closed \subseteq 1 .. opened
  /\ table \cap closed = {}
  /\ state \in [SessionIds -> {"offline", "binding", "ready", "closed"}]

RegistryType ==
  /\ lease \in [Nodes -> SessionIds \cup {Nobody}]
  /\ revision \in Nat
  /\ newest \in [SessionIds -> Nat]

(* A teardown reaches the registry only after the closed flag is set. *)
ClosedFirst ==
  \A s \in SessionIds : Pending(Do("unregister", s)) => s \in closed

(* A ready session has the current directory, or will be sent it. *)
WillBeTold ==
  \A s \in table :
    state[s] = "ready" => newest[s] = revision \/ ListPending(s)

HubInv == TodoType /\ TableType /\ RegistryType /\ ClosedFirst /\ WillBeTold
-----------------------------------------------------------------------------
(* What replacing a task's current step by others does to the pending steps: *)
(* the new ones appear, the current one may go, the rest stay.               *)
LEMMA ThenSteps ==
  ASSUME TodoType, NEW t \in Tasks, todo[t] # <<>>,
         NEW more \in Seq(Step), Then(t, more)
  PROVE  /\ todo' \in [Tasks -> Seq(Step)]
         /\ \A x : Pending(x)' =>
                 Pending(x) \/ \E i \in DOMAIN more : more[i] = x
         /\ \A x : Pending(x) /\ x # Head(todo[t]) => Pending(x)'
         /\ \A i \in DOMAIN more : Pending(more[i])'
<1> DEFINE old  == todo[t]
           rest == Tail(todo[t])
           new  == more \o rest
<1>1. old \in Seq(Step) /\ old # <<>> /\ rest \in Seq(Step)
  BY DEF TodoType
<1>2. /\ todo' = [todo EXCEPT ![t] = new]
      /\ new \in Seq(Step)
  BY <1>1 DEF Then, TodoType
<1>3. /\ todo' \in [Tasks -> Seq(Step)]
      /\ todo'[t] = new
      /\ \A u \in Tasks \ {t} : todo'[u] = todo[u]
  BY <1>2 DEF TodoType
<1>4. /\ Len(new) = Len(more) + Len(rest)
      /\ Len(rest) = Len(old) - 1
      /\ \A i \in 1 .. Len(rest) : rest[i] = old[i + 1]
      /\ \A i \in 1 .. Len(more) : new[i] = more[i]
      /\ \A i \in 1 .. Len(rest) : new[Len(more) + i] = rest[i]
      /\ Len(more) \in Nat /\ Len(old) \in Nat \ {0}
      /\ old[1] = Head(old)
  BY <1>1
<1>5. /\ DOMAIN new = 1 .. Len(new)
      /\ DOMAIN old = 1 .. Len(old)
      /\ DOMAIN more = 1 .. Len(more)
  BY <1>1, <1>2
<1> HIDE DEF old, rest, new
<1>6. ASSUME NEW x, Pending(x)'
      PROVE  Pending(x) \/ \E i \in DOMAIN more : more[i] = x
  <2>1. PICK u \in Tasks : \E i \in DOMAIN todo'[u] : todo'[u][i] = x
    BY <1>6 DEF Pending
  <2>2. CASE u # t
    BY <2>1, <2>2, <1>3 DEF Pending
  <2>3. CASE u = t
    <3>1. PICK i \in 1 .. Len(new) : new[i] = x
      BY <2>1, <2>3, <1>3, <1>5
    <3>2. CASE i <= Len(more)
      <4>1. i \in 1 .. Len(more)
        BY <3>2, <1>4
      <4>2. more[i] = x
        BY <3>1, <4>1, <1>4
      <4> QED BY <4>1, <4>2, <1>5
    <3>3. CASE i > Len(more)
      <4>1. i - Len(more) \in 1 .. Len(rest)
        BY <3>3, <1>4
      <4>2. new[Len(more) + (i - Len(more))] = old[(i - Len(more)) + 1]
        BY <4>1, <1>4, Zenon
      <4>3. i - Len(more) + 1 \in DOMAIN old /\ old[i - Len(more) + 1] = x
        BY <4>1, <4>2, <3>1, <1>4, <1>5
      <4> QED BY <4>3 DEF Pending, old
    <3> QED BY <3>2, <3>3, <1>4
  <2> QED BY <2>2, <2>3
<1>7. ASSUME NEW x, Pending(x), x # Head(todo[t])
      PROVE  Pending(x)'
  <2>1. PICK u \in Tasks : \E i \in DOMAIN todo[u] : todo[u][i] = x
    BY <1>7 DEF Pending
  <2>2. CASE u # t
    BY <2>1, <2>2, <1>3 DEF Pending
  <2>3. CASE u = t
    <3>1. PICK i \in 1 .. Len(old) : old[i] = x
      BY <2>1, <2>3, <1>5 DEF old
    <3>2. i # 1
      BY <3>1, <1>4, <1>7 DEF old
    <3>3. i - 1 \in 1 .. Len(rest)
      BY <3>2, <1>4
    <3>4. new[Len(more) + (i - 1)] = old[(i - 1) + 1]
      BY <3>3, <1>4, Zenon
    <3>5. /\ Len(more) + (i - 1) \in DOMAIN new
          /\ new[Len(more) + (i - 1)] = x
      BY <3>1, <3>3, <3>4, <1>4, <1>5
    <3> QED BY <3>5, <1>3 DEF Pending
  <2> QED BY <2>2, <2>3
<1>8. ASSUME NEW i \in DOMAIN more
      PROVE  Pending(more[i])'
  <2>1. i \in DOMAIN new /\ new[i] = more[i]
    BY <1>4, <1>5, <1>1
  <2> QED BY <2>1, <1>3 DEF Pending
<1> QED BY <1>3, <1>6, <1>7, <1>8

(* The fields of a step, by its kind. *)
LEMMA StepFields ==
  ASSUME NEW x \in Step
  PROVE  /\ x.op # "list" => x.s \in SessionIds
         /\ x.op = "pump" => x.left \in 1 .. MaxPumpRounds
         /\ x.op = "list" => x.to \in SUBSET SessionIds /\ x = Broadcast(x.to)
         /\ x.op \in {"ready", "unregister"} => x = Do(x.op, x.s)
<1>1. CASE x \in [op : Kinds \cup {"close", "ready", "unregister"}, s : SessionIds]
  BY <1>1 DEF Kinds, Do
<1>2. CASE x \in [op : {"pump"}, s : SessionIds, left : 1 .. MaxPumpRounds]
  BY <1>2 DEF Kinds
<1>3. CASE x \in [op : {"list"}, to : SUBSET SessionIds]
  BY <1>3 DEF Kinds, Broadcast
<1> QED BY <1>1, <1>2, <1>3 DEF Step

(* A step a task is at is a step it holds. *)
LEMMA AtStep ==
  ASSUME TodoType, NEW t \in Tasks, NEW op, At(t, op)
  PROVE  todo[t] # <<>> /\ Cur(t) \in Step /\ Cur(t).op = op /\ Pending(Cur(t))
<1>1. todo[t] \in Seq(Step) /\ todo[t] # <<>>
  BY DEF TodoType, At
<1>2. Head(todo[t]) \in Step /\ 1 \in DOMAIN todo[t] /\ todo[t][1] = Head(todo[t])
  BY <1>1
<1> QED BY <1>1, <1>2 DEF At, Cur, Pending

(* The steps that replace the current one are steps. *)
LEMMA MoreSteps ==
  /\ \A to \in SUBSET SessionIds : Broadcast(to) \in Step
  /\ \A s \in SessionIds, op \in {"close", "ready", "unregister"} :
       Do(op, s) \in Step
<1>1. \A to \in SUBSET SessionIds : Broadcast(to) \in Step
  BY DEF Step, Broadcast
<1>2. \A s \in SessionIds, op \in {"close", "ready", "unregister"} :
        Do(op, s) \in Step
  BY DEF Step, Do
<1> QED BY <1>1, <1>2

(* The same for one step in place of the current one, and for none. *)
LEMMA ThenOne ==
  ASSUME TodoType, NEW t \in Tasks, todo[t] # <<>>, NEW y \in Step, Then(t, <<y>>)
  PROVE  /\ todo' \in [Tasks -> Seq(Step)]
         /\ \A x : Pending(x)' => Pending(x) \/ x = y
         /\ \A x : Pending(x) /\ x # Cur(t) => Pending(x)'
         /\ Pending(y)'
<1>1. <<y>> \in Seq(Step) /\ DOMAIN <<y>> = {1} /\ <<y>>[1] = y
  OBVIOUS
<1>2. /\ todo' \in [Tasks -> Seq(Step)]
      /\ \A x : Pending(x)' =>
              Pending(x) \/ \E i \in DOMAIN <<y>> : <<y>>[i] = x
      /\ \A x : Pending(x) /\ x # Head(todo[t]) => Pending(x)'
      /\ \A i \in DOMAIN <<y>> : Pending(<<y>>[i])'
  BY <1>1, ThenSteps, Zenon
<1> QED BY <1>1, <1>2 DEF Cur

LEMMA ThenNone ==
  ASSUME TodoType, NEW t \in Tasks, todo[t] # <<>>, Then(t, <<>>)
  PROVE  /\ todo' \in [Tasks -> Seq(Step)]
         /\ \A x : Pending(x)' => Pending(x)
         /\ \A x : Pending(x) /\ x # Cur(t) => Pending(x)'
<1>1. <<>> \in Seq(Step) /\ DOMAIN <<>> = {}
  OBVIOUS
<1>2. /\ todo' \in [Tasks -> Seq(Step)]
      /\ \A x : Pending(x)' =>
              Pending(x) \/ \E i \in DOMAIN <<>> : <<>>[i] = x
      /\ \A x : Pending(x) /\ x # Head(todo[t]) => Pending(x)'
  BY <1>1, ThenSteps, Zenon
<1> QED BY <1>1, <1>2 DEF Cur

(* Steps of different kinds are different steps. *)
LEMMA StepsDiffer ==
  /\ \A to, op, s : op # "list" => Broadcast(to) # Do(op, s)
  /\ \A op, s, op2, s2 : Do(op, s) = Do(op2, s2) => op = op2 /\ s = s2
  /\ \A to, to2 : Broadcast(to) = Broadcast(to2) => to = to2
<1>1. \A op, s : Do(op, s).op = op /\ Do(op, s).s = s
  BY DEF Do
<1>2. \A to : Broadcast(to).op = "list" /\ Broadcast(to).to = to
  BY DEF Broadcast
<1>3. ASSUME NEW to, NEW op, NEW s, op # "list"
      PROVE  Broadcast(to) # Do(op, s)
  BY <1>1, <1>2, <1>3
<1>4. ASSUME NEW op, NEW s, NEW op2, NEW s2, Do(op, s) = Do(op2, s2)
      PROVE  op = op2 /\ s = s2
  BY <1>1, <1>4
<1>5. ASSUME NEW to, NEW to2, Broadcast(to) = Broadcast(to2)
      PROVE  to = to2
  BY <1>2, <1>5
<1> QED BY <1>3, <1>4, <1>5

-----------------------------------------------------------------------------
LEMMA HubInit == Init => HubInv
<1> SUFFICES ASSUME Init PROVE HubInv
  OBVIOUS
<1>1. Len(NodeOf) \in Nat
  BY HubAssumption
<1>2. todo \in [Tasks -> Seq(Step)] /\ events \in [SessionIds -> Seq(Kinds)]
  BY DEF Init
<1>3. \A x : ~Pending(x)
  BY DEF Init, Pending
<1> QED BY <1>1, <1>2, <1>3
     DEF Init, HubInv, TodoType, TableType, RegistryType, ClosedFirst,
         WillBeTold, Nobody, SessionIds

(* A step that adds no pending teardown and keeps the closed sessions keeps  *)
(* ClosedFirst.                                                              *)
LEMMA KeepsClosedFirst ==
  ASSUME ClosedFirst, closed \subseteq closed',
         \A s \in SessionIds :
           Pending(Do("unregister", s))' => Pending(Do("unregister", s)) \/ s \in closed'
  PROVE  ClosedFirst'
BY DEF ClosedFirst

(* A step that keeps the revision, the lists sent and every pending          *)
(* broadcast, and makes no session ready, keeps WillBeTold.                  *)
LEMMA KeepsWillBeTold ==
  ASSUME WillBeTold, revision' = revision, newest' = newest,
         \A s \in table' : state'[s] = "ready" => s \in table /\ state[s] = "ready",
         \A to : Pending(Broadcast(to)) => Pending(Broadcast(to))',
         \A r : Pending(Do("ready", r)) => Pending(Do("ready", r))'
  PROVE  WillBeTold'
<1> SUFFICES ASSUME NEW s \in table', state'[s] = "ready"
             PROVE  newest'[s] = revision' \/ ListPending(s)'
  BY DEF WillBeTold
<1>1. newest[s] = revision \/ ListPending(s)
  BY DEF WillBeTold
<1>2. ListPending(s) => ListPending(s)'
  BY DEF ListPending
<1> QED BY <1>1, <1>2

(* An idle task that starts on x leaves every pending step pending. *)
LEMMA StartSteps ==
  ASSUME TodoType, NEW t \in Tasks, Idle(t), NEW x \in Step,
         todo' = [todo EXCEPT ![t] = <<x>>]
  PROVE  /\ todo' \in [Tasks -> Seq(Step)]
         /\ \A y : Pending(y)' => Pending(y) \/ y = x
         /\ \A y : Pending(y) => Pending(y)'
<1>1. /\ todo' \in [Tasks -> Seq(Step)]
      /\ todo'[t] = <<x>> /\ todo[t] = <<>>
      /\ \A u \in Tasks \ {t} : todo'[u] = todo[u]
  BY DEF TodoType, Idle
<1>2. DOMAIN <<x>> = {1} /\ <<x>>[1] = x /\ DOMAIN todo[t] = {}
  BY <1>1
<1> QED BY <1>1, <1>2 DEF Pending

(* Each step of a task keeps the invariant. *)
LEMMA HandleStep ==
  ASSUME HubInv, NEW t \in Tasks, Handle(t)
  PROVE  HubInv'
<1> USE DEF HubInv
<1>0. Len(NodeOf) \in Nat
  BY HubAssumption
<1>s. PICK s : s = Cur(t).s
  OBVIOUS
<1>b. PICK live : live = table
  OBVIOUS
<1>1. CASE Pump(t)
  <2>1. /\ todo[t] # <<>> /\ Cur(t) \in Step /\ Cur(t).op = "pump"
        /\ s \in SessionIds /\ Cur(t).left \in 1 .. MaxPumpRounds
    BY <1>1, <1>s, AtStep, StepFields DEF Pump
  <2> DEFINE handle == [i \in DOMAIN events[s] |-> Do(events[s][i], s)]
             again == IF events[s] = <<>> \/ Cur(t).left = 1 THEN <<>>
                      ELSE <<PumpOf(s, Cur(t).left - 1)>>
             more == handle \o again
  <2>2. Then(t, more) /\ events' = [events EXCEPT ![s] = <<>>]
    BY <1>1, <1>s DEF Pump
  <2>3. events[s] \in Seq(Kinds)
    BY <2>1 DEF TodoType
  <2>4. \A i \in DOMAIN events[s] :
          /\ handle[i] \in Step
          /\ handle[i].op \in Kinds
    <3> TAKE i \in DOMAIN events[s]
    <3>1. events[s][i] \in Kinds
      BY <2>3
    <3>2. handle[i] = [op |-> events[s][i], s |-> s]
      BY DEF Do
    <3> HIDE DEF handle
    <3> QED BY <2>1, <3>1, <3>2 DEF Step
  <2>5. handle \in Seq(Step) /\ DOMAIN handle = 1 .. Len(events[s])
        /\ Len(handle) = Len(events[s])
    <3>1. DOMAIN events[s] = 1 .. Len(events[s]) /\ Len(events[s]) \in Nat
      BY <2>3
    <3>2. handle \in [1 .. Len(events[s]) -> Step]
      BY <3>1, <2>4, Zenon
    <3> HIDE DEF handle
    <3> QED BY <3>1, <3>2
  <2>6. again \in Seq(Step) /\ \A i \in DOMAIN again : again[i].op = "pump"
    <3>1. CASE events[s] = <<>> \/ Cur(t).left = 1
      BY <3>1
    <3>2. CASE ~(events[s] = <<>> \/ Cur(t).left = 1)
      <4>1. Cur(t).left - 1 \in 1 .. MaxPumpRounds
        BY <2>1, <3>2, HubAssumption
      <4>2. PumpOf(s, Cur(t).left - 1) \in Step
            /\ PumpOf(s, Cur(t).left - 1).op = "pump"
        BY <4>1, <2>1 DEF PumpOf, Step
      <4>3. again = <<PumpOf(s, Cur(t).left - 1)>>
        BY <3>2
      <4> HIDE DEF again
      <4> QED BY <4>2, <4>3
    <3> QED BY <3>1, <3>2
  <2> HIDE DEF handle, again
  <2>7. more \in Seq(Step) /\ \A i \in DOMAIN more : more[i].op \in Kinds \cup {"pump"}
    <3>a. handle \in Seq(Step) /\ again \in Seq(Step)
      BY <2>5, <2>6
    <3>b. /\ Len(handle) \in Nat /\ Len(again) \in Nat
          /\ DOMAIN again = 1 .. Len(again)
      BY <3>a
    <3>c. /\ more \in Seq(Step)
          /\ Len(more) = Len(handle) + Len(again)
          /\ DOMAIN more = 1 .. Len(more)
      BY <3>a
    <3>d. \A i \in 1 .. Len(handle) : more[i] = handle[i]
      BY <3>a
    <3>e. \A i \in 1 .. Len(again) : more[Len(handle) + i] = again[i]
      BY <3>a
    <3> HIDE DEF more
    <3>1. /\ more \in Seq(Step)
          /\ Len(more) = Len(handle) + Len(again)
          /\ DOMAIN more = 1 .. Len(more)
          /\ Len(handle) \in Nat /\ Len(again) \in Nat
          /\ \A i \in 1 .. Len(handle) : more[i] = handle[i]
          /\ \A i \in 1 .. Len(again) : more[Len(handle) + i] = again[i]
          /\ DOMAIN again = 1 .. Len(again)
      BY <3>b, <3>c, <3>d, <3>e
    <3>2. ASSUME NEW i \in DOMAIN more
          PROVE  more[i].op \in Kinds \cup {"pump"}
      <4>1. CASE i <= Len(handle)
        <5>1. i \in 1 .. Len(handle) /\ more[i] = handle[i]
          BY <4>1, <3>1
        <5>2. i \in DOMAIN events[s]
          BY <5>1, <2>5, <2>3
        <5> QED BY <5>1, <5>2, <2>4
      <4>2. CASE i > Len(handle)
        <5>1. i - Len(handle) \in 1 .. Len(again)
          BY <4>2, <3>1
        <5>2. more[Len(handle) + (i - Len(handle))] = again[i - Len(handle)]
          BY <5>1, <3>1
        <5>3. Len(handle) + (i - Len(handle)) = i
          BY <3>1
        <5>4. again[i - Len(handle)].op = "pump"
          BY <5>1, <2>6, <3>1
        <5> QED BY <5>2, <5>3, <5>4
      <4> QED BY <4>1, <4>2, <3>1
    <3> QED BY <3>1, <3>2
  <2> HIDE DEF more
  <2>8. /\ todo' \in [Tasks -> Seq(Step)]
        /\ \A x : Pending(x)' => Pending(x) \/ \E i \in DOMAIN more : more[i] = x
        /\ \A x : Pending(x) /\ x # Cur(t) => Pending(x)'
    BY <2>1, <2>2, <2>7, ThenSteps DEF Cur
  <2>9. /\ \A to : Broadcast(to).op = "list"
        /\ \A op, r : Do(op, r).op = op
    BY DEF Broadcast, Do
  <2>10. \A r : Pending(Do("unregister", r))' => Pending(Do("unregister", r))
    BY <2>7, <2>8, <2>9 DEF Kinds
  <2>11. /\ \A to : Pending(Broadcast(to)) => Pending(Broadcast(to))'
         /\ \A r : Pending(Do("ready", r)) => Pending(Do("ready", r))'
    BY <2>1, <2>8, <2>9
  <2>12. TodoType' /\ TableType' /\ RegistryType'
    <3>1. UNCHANGED <<opened, table, closed, state, registry, newest>>
      BY <1>1 DEF Pump
    <3>2. events' \in [SessionIds -> Seq(Kinds)]
      BY <2>1, <2>2 DEF TodoType
    <3> QED BY <3>1, <3>2, <2>8 DEF TodoType, TableType, RegistryType, registry
  <2>13. ClosedFirst'
    BY <1>1, <2>10, KeepsClosedFirst DEF Pump
  <2>14. WillBeTold'
    BY <1>1, <2>11, KeepsWillBeTold DEF Pump, registry
  <2> QED BY <2>12, <2>13, <2>14
<1>2. CASE HelloRegister(t)
  <2>1. /\ todo[t] # <<>> /\ Cur(t) \in Step /\ Cur(t).op = "hello"
        /\ s \in SessionIds
    BY <1>2, <1>s, AtStep, StepFields DEF HelloRegister
  <2>2. Do("ready", s) \in Step
    BY <2>1, MoreSteps
  <2>3. /\ todo' \in [Tasks -> Seq(Step)]
        /\ \A x : Pending(x)' => Pending(x) \/ x = Do("ready", s)
        /\ Pending(Do("ready", s))'
    BY <1>2, <1>s, <2>1, <2>2, ThenOne DEF HelloRegister
  <2>4. TodoType' /\ TableType'
    BY <1>2, <2>3 DEF HelloRegister, TodoType, TableType
  <2>5. RegistryType'
    <3>1. NodeOf[s] \in Nodes
      BY <2>1, HubAssumption DEF SessionIds
    <3> QED BY <1>2, <1>s, <2>1, <3>1 DEF HelloRegister, RegistryType
  <2>6. \A r : Pending(Do("unregister", r))' => Pending(Do("unregister", r))
    BY <2>3, StepsDiffer
  <2>7. ClosedFirst'
    BY <1>2, <2>6, KeepsClosedFirst DEF HelloRegister
  <2>8. WillBeTold'
    BY <2>1, <2>3 DEF WillBeTold, ListPending
  <2> QED BY <2>4, <2>5, <2>7, <2>8
<1>3. CASE HelloReady(t)
  <2>1. /\ todo[t] # <<>> /\ Cur(t) \in Step /\ Cur(t).op = "ready"
        /\ s \in SessionIds
    BY <1>3, <1>s, AtStep, StepFields DEF HelloReady
  <2>2. live \in SUBSET SessionIds /\ Broadcast(live) \in Step
    BY <1>0, <1>b, MoreSteps DEF TableType, SessionIds
  <2>3. /\ todo' \in [Tasks -> Seq(Step)]
        /\ \A x : Pending(x)' => Pending(x) \/ x = Broadcast(live)
        /\ Pending(Broadcast(live))'
    BY <1>3, <1>b, <2>1, <2>2, ThenOne DEF HelloReady
  <2>4. TodoType' /\ TableType' /\ RegistryType'
    BY <1>3, <1>s, <2>1, <2>3
       DEF HelloReady, TodoType, TableType, RegistryType, registry
  <2>5. \A r : Pending(Do("unregister", r))' => Pending(Do("unregister", r))
    BY <2>3, StepsDiffer
  <2>6. ClosedFirst'
    BY <1>3, <2>5, KeepsClosedFirst DEF HelloReady
  <2>7. WillBeTold'
    <3>1. table' = live
      BY <1>3, <1>b DEF HelloReady
    <3>2. \A r \in table' : ListPending(r)'
      BY <3>1, <2>2, <2>3 DEF ListPending
    <3> QED BY <3>2 DEF WillBeTold
  <2> QED BY <2>4, <2>6, <2>7
<1>4. CASE RefuseHello(t)
  <2>1. /\ todo[t] # <<>> /\ Cur(t) \in Step /\ Cur(t).op = "hello_unsupported"
        /\ s \in SessionIds
    BY <1>4, <1>s, AtStep, StepFields DEF RefuseHello
  <2>2. Do("close", s) \in Step
    BY <2>1, MoreSteps
  <2>3. /\ todo' \in [Tasks -> Seq(Step)]
        /\ \A x : Pending(x)' => Pending(x) \/ x = Do("close", s)
        /\ \A x : Pending(x) /\ x # Cur(t) => Pending(x)'
    BY <1>4, <1>s, <2>1, <2>2, ThenOne DEF RefuseHello
  <2>4. /\ \A to : Broadcast(to).op = "list"
        /\ \A op, r : Do(op, r).op = op
    BY DEF Broadcast, Do
  <2>5. /\ \A to : Pending(Broadcast(to)) => Pending(Broadcast(to))'
        /\ \A r : Pending(Do("ready", r)) => Pending(Do("ready", r))'
    BY <2>1, <2>3, <2>4
  <2>6. \A r : Pending(Do("unregister", r))' => Pending(Do("unregister", r))
    BY <2>3, StepsDiffer
  <2>7. TodoType' /\ TableType' /\ RegistryType'
    BY <1>4, <1>s, <2>1, <2>3
       DEF RefuseHello, TodoType, TableType, RegistryType, registry
  <2>8. \A r \in table' : state'[r] = "ready" => r \in table /\ state[r] = "ready"
    BY <1>4, <1>0, <1>s DEF RefuseHello, TableType, SessionIds
  <2>9. ClosedFirst'
    BY <1>4, <2>6, KeepsClosedFirst DEF RefuseHello
  <2>10. WillBeTold'
    BY <1>4, <2>5, <2>8, KeepsWillBeTold DEF RefuseHello, registry
  <2> QED BY <2>7, <2>9, <2>10
<1>5. CASE CloseRemove(t)
  <2>1. /\ todo[t] # <<>> /\ Cur(t) \in Step /\ Cur(t).op \in {"close", "bye"}
        /\ s \in SessionIds
    BY <1>5, <1>s, AtStep, StepFields DEF CloseRemove
  <2>2. Do("unregister", s) \in Step
    BY <2>1, MoreSteps
  <2>3. /\ \A to : Broadcast(to).op = "list"
        /\ \A op, r : Do(op, r).op = op
    BY DEF Broadcast, Do
  <2>4. CASE s \in table
    <3>1. /\ table' = table \ {s} /\ closed' = closed \cup {s}
          /\ state' = [state EXCEPT ![s] = "closed"]
          /\ Then(t, <<Do("unregister", s)>>)
          /\ UNCHANGED <<opened, events, registry, newest>>
      BY <1>5, <1>s, <2>4 DEF CloseRemove
    <3>2. /\ todo' \in [Tasks -> Seq(Step)]
          /\ \A x : Pending(x)' => Pending(x) \/ x = Do("unregister", s)
          /\ \A x : Pending(x) /\ x # Cur(t) => Pending(x)'
      BY <3>1, <2>1, <2>2, ThenOne
    <3>3. TodoType' /\ TableType' /\ RegistryType'
      BY <3>1, <3>2, <2>1, <2>4 DEF TodoType, TableType, RegistryType, registry
    <3>4. ClosedFirst'
      <4>1. \A r : Pending(Do("unregister", r))' =>
                     Pending(Do("unregister", r)) \/ r = s
        BY <3>2, StepsDiffer
      <4> QED BY <3>1, <4>1, KeepsClosedFirst
    <3>5. /\ \A to : Pending(Broadcast(to)) => Pending(Broadcast(to))'
          /\ \A r : Pending(Do("ready", r)) => Pending(Do("ready", r))'
      BY <2>1, <3>2, <2>3
    <3>6. \A r \in table' : state'[r] = "ready" => r \in table /\ state[r] = "ready"
      BY <3>1, <1>0 DEF TableType, SessionIds
    <3>7. WillBeTold'
      BY <3>1, <3>5, <3>6, KeepsWillBeTold DEF registry
    <3> QED BY <3>3, <3>4, <3>7
  <2>5. CASE s \notin table
    <3>1. Then(t, <<>>) /\ UNCHANGED <<opened, table, closed, state, events, registry, newest>>
      BY <1>5, <1>s, <2>5 DEF CloseRemove
    <3>2. /\ todo' \in [Tasks -> Seq(Step)]
          /\ \A x : Pending(x)' => Pending(x)
          /\ \A x : Pending(x) /\ x # Cur(t) => Pending(x)'
      BY <3>1, <2>1, ThenNone, SMTT(120)
    <3>3. TodoType' /\ TableType' /\ RegistryType'
      BY <3>1, <3>2 DEF TodoType, TableType, RegistryType, registry
    <3>4. ClosedFirst'
      BY <3>1, <3>2, KeepsClosedFirst
    <3>5. /\ \A to : Pending(Broadcast(to)) => Pending(Broadcast(to))'
          /\ \A r : Pending(Do("ready", r)) => Pending(Do("ready", r))'
      BY <2>1, <3>2, <2>3
    <3>6. WillBeTold'
      BY <3>1, <3>5, KeepsWillBeTold DEF registry
    <3> QED BY <3>3, <3>4, <3>6
  <2> QED BY <2>4, <2>5
<1>6. CASE Unregister(t)
  <2>1. /\ todo[t] # <<>> /\ Cur(t) \in Step /\ Cur(t).op = "unregister"
        /\ s \in SessionIds
    BY <1>6, <1>s, AtStep, StepFields DEF Unregister
  <2>2. live \in SUBSET SessionIds /\ Broadcast(live) \in Step
    BY <1>0, <1>b, MoreSteps DEF TableType, SessionIds
  <2>3. NodeOf[s] \in Nodes
    BY <2>1, HubAssumption DEF SessionIds
  <2>4. CASE Owns(NodeOf[s], s)
    <3>1. /\ lease' = [lease EXCEPT ![NodeOf[s]] = Nobody]
          /\ revision' = revision + 1
          /\ Then(t, <<Broadcast(live)>>)
          /\ UNCHANGED <<opened, table, closed, state, events, newest>>
      BY <1>6, <1>s, <1>b, <2>4, SMTT(120) DEF Unregister
    <3>2. /\ todo' \in [Tasks -> Seq(Step)]
          /\ \A x : Pending(x)' => Pending(x) \/ x = Broadcast(live)
          /\ Pending(Broadcast(live))'
      BY <3>1, <2>1, <2>2, ThenOne, SMTT(120)
    <3>3. TodoType' /\ TableType' /\ RegistryType'
      BY <3>1, <3>2, <2>3, SMTT(120) DEF TodoType, TableType, RegistryType, Nobody
    <3>4. \A r : Pending(Do("unregister", r))' => Pending(Do("unregister", r))
      BY <3>2, StepsDiffer
    <3>5. ClosedFirst'
      BY <3>1, <3>4, KeepsClosedFirst
    <3>6. \A r \in table' : ListPending(r)'
      BY <3>1, <1>b, <2>2, <3>2 DEF ListPending
    <3>7. WillBeTold'
      BY <3>6 DEF WillBeTold
    <3> QED BY <3>3, <3>5, <3>7
  <2>5. CASE ~Owns(NodeOf[s], s)
    <3>1. Then(t, <<>>) /\ UNCHANGED <<opened, table, closed, state, events, registry, newest>>
      BY <1>6, <1>s, <2>5 DEF Unregister
    <3>2. /\ todo' \in [Tasks -> Seq(Step)]
          /\ \A x : Pending(x)' => Pending(x)
          /\ \A x : Pending(x) /\ x # Cur(t) => Pending(x)'
      BY <3>1, <2>1, ThenNone
    <3>3. TodoType' /\ TableType' /\ RegistryType'
      BY <3>1, <3>2 DEF TodoType, TableType, RegistryType, registry
    <3>4. ClosedFirst'
      BY <3>1, <3>2, KeepsClosedFirst
    <3>5. /\ \A to : Pending(Broadcast(to)) => Pending(Broadcast(to))'
          /\ \A r : Pending(Do("ready", r)) => Pending(Do("ready", r))'
      <4>1. /\ \A to : Broadcast(to).op = "list"
            /\ \A op, r : Do(op, r).op = op
        BY DEF Broadcast, Do
      <4> QED BY <2>1, <3>2, <4>1
    <3>6. WillBeTold'
      BY <3>1, <3>5, KeepsWillBeTold DEF registry
    <3> QED BY <3>3, <3>4, <3>6
  <2> QED BY <2>4, <2>5
<1>7. CASE SendPeerList(t)
  <2>1. /\ todo[t] # <<>> /\ Cur(t) \in Step /\ Cur(t).op = "list"
        /\ Cur(t).to \in SUBSET SessionIds /\ Cur(t) = Broadcast(Cur(t).to)
    BY <1>7, AtStep, StepFields, Zenon DEF SendPeerList
  <2>2. PICK to : to = Cur(t).to
    OBVIOUS
  <2>3. CASE to = {} /\ Then(t, <<>>) /\ UNCHANGED newest
    <3>1. /\ todo' \in [Tasks -> Seq(Step)]
          /\ \A x : Pending(x)' => Pending(x)
          /\ \A x : Pending(x) /\ x # Cur(t) => Pending(x)'
      BY <2>1, <2>3, ThenNone, SMTT(120)
    <3>2. TodoType' /\ TableType' /\ RegistryType'
      BY <1>7, <2>3, <3>1, Zenon
         DEF SendPeerList, TodoType, TableType, RegistryType, registry
    <3>3. ClosedFirst'
      BY <1>7, <3>1, KeepsClosedFirst, Zenon DEF SendPeerList
    <3>4. \A r \in SessionIds : ListPending(r) => ListPending(r)'
      <4>1. \A q : Pending(Do("ready", q)) => Pending(Do("ready", q))'
        BY <2>1, <3>1, StepsDiffer, Zenon
      <4>2. \A q : Pending(Broadcast(q)) /\ q # {} => Pending(Broadcast(q))'
        BY <2>1, <2>2, <2>3, <3>1, StepsDiffer, Zenon
      <4> QED BY <4>1, <4>2 DEF ListPending
    <3>5. /\ table' = table /\ state' = state /\ revision' = revision
          /\ table \subseteq SessionIds
      BY <1>7, <1>0 DEF SendPeerList, registry, TableType, SessionIds
    <3>6. WillBeTold'
      BY <2>3, <3>4, <3>5, Zenon DEF WillBeTold
    <3> QED BY <3>2, <3>3, <3>6
  <2>4. ASSUME NEW r \in to, Then(t, <<Broadcast(to \ {r})>>),
               newest' = IF r \in closed THEN newest
                         ELSE [newest EXCEPT ![r] = revision]
        PROVE  HubInv'
    <3>0. Broadcast(to \ {r}) \in Step /\ r \in SessionIds /\ to \in SUBSET SessionIds
      BY <2>1, <2>2, MoreSteps, SMTT(120)
    <3>1. /\ todo' \in [Tasks -> Seq(Step)]
          /\ \A x : Pending(x)' => Pending(x) \/ x = Broadcast(to \ {r})
          /\ \A x : Pending(x) /\ x # Cur(t) => Pending(x)'
          /\ Pending(Broadcast(to \ {r}))'
      BY <2>1, <2>4, <3>0, ThenOne, Zenon
    <3>2. /\ table' = table /\ state' = state /\ revision' = revision
          /\ closed' = closed /\ table \subseteq SessionIds
      BY <1>7, <1>0, SMTT(120) DEF SendPeerList, registry, TableType, SessionIds
    <3>3. TodoType' /\ TableType' /\ RegistryType'
      BY <1>7, <2>4, <3>0, <3>1, Zenon
         DEF SendPeerList, TodoType, TableType, RegistryType, registry
    <3>4. ClosedFirst'
      <4>1. \A q : Pending(Do("unregister", q))' => Pending(Do("unregister", q))
        BY <3>1, StepsDiffer
      <4> QED BY <4>1, <3>2, KeepsClosedFirst
    <3>5. \A q \in SessionIds \ {r} : ListPending(q) => ListPending(q)'
      <4> TAKE q \in SessionIds \ {r}
      <4>1. \A p : Pending(Do("ready", p)) => Pending(Do("ready", p))'
        BY <2>1, <3>1, StepsDiffer, SMTT(120)
      <4>2. \A p : Pending(Broadcast(p)) /\ p # to => Pending(Broadcast(p))'
        BY <2>1, <2>2, <3>1, StepsDiffer, Zenon
      <4>3. q \in to => q \in to \ {r}
        OBVIOUS
      <4> QED BY <3>0, <3>1, <4>1, <4>2, <4>3 DEF ListPending
    <3>6. ASSUME NEW q \in table', state'[q] = "ready"
          PROVE  newest'[q] = revision' \/ ListPending(q)'
      <4>1. CASE q = r
        <5>1. r \notin closed
          BY <4>1, <3>2, <3>6, SMTT(120) DEF TableType
        <5> QED BY <5>1, <4>1, <2>4, <3>0, <3>2 DEF RegistryType
      <4>2. CASE q # r
        <5>1. newest'[q] = newest[q] /\ q \in SessionIds
          BY <4>2, <2>4, <3>0, <3>2, <3>6 DEF RegistryType
        <5>2. newest[q] = revision \/ ListPending(q)
          BY <3>2, <3>6, Zenon DEF WillBeTold
        <5> QED BY <5>1, <5>2, <4>2, <3>2, <3>5, Zenon
      <4> QED BY <4>1, <4>2
    <3> QED BY <3>3, <3>4, <3>6, Zenon DEF WillBeTold
  <2> QED BY <1>7, <2>2, <2>3, <2>4, Zenon DEF SendPeerList
<1> QED BY <1>1, <1>2, <1>3, <1>4, <1>5, <1>6, <1>7 DEF Handle

(* Every step of the Hub keeps the invariant. *)
LEMMA HubStep == HubInv /\ [Next]_vars => HubInv'
<1> SUFFICES ASSUME HubInv, [Next]_vars PROVE HubInv'
  OBVIOUS
<1> USE DEF HubInv
<1>0. Len(NodeOf) \in Nat /\ MaxPumpRounds \in 1 .. MaxPumpRounds
  BY HubAssumption
<1>1. CASE Authenticate
  <2>1. \A x : Pending(x)' <=> Pending(x)
    BY <1>1 DEF Authenticate, Pending
  <2>2. TodoType' /\ RegistryType'
    BY <1>1 DEF Authenticate, TodoType, RegistryType, registry
  <2>3. TableType' /\ opened' \in SessionIds
    BY <1>1, <1>0 DEF Authenticate, TableType, SessionIds
  <2>4. \A s \in table' : state'[s] = "ready" => s \in table /\ state[s] = "ready"
    BY <1>1, <2>3 DEF Authenticate, TableType
  <2>5. ClosedFirst'
    BY <1>1, <2>1, KeepsClosedFirst DEF Authenticate
  <2>6. WillBeTold'
    BY <1>1, <2>1, <2>4, KeepsWillBeTold DEF Authenticate, registry
  <2> QED BY <2>2, <2>3, <2>5, <2>6
<1>2. ASSUME NEW t \in Tasks, NEW s \in SessionIds, CloseSession(t, s)
      PROVE  HubInv'
  <2>1. Do("close", s) \in Step
    BY MoreSteps
  <2>2. /\ todo' \in [Tasks -> Seq(Step)]
        /\ \A y : Pending(y)' => Pending(y) \/ y = Do("close", s)
        /\ \A y : Pending(y) => Pending(y)'
    BY <1>2, <2>1, StartSteps, Zenon DEF CloseSession
  <2>3. \A r \in SessionIds : Do("unregister", r) # Do("close", s)
    BY StepsDiffer
  <2>4. TodoType' /\ TableType' /\ RegistryType'
    BY <1>2, <2>2, SMTT(120) DEF CloseSession, TodoType, TableType, RegistryType, registry
  <2>5. ClosedFirst'
    BY <1>2, <2>2, <2>3, KeepsClosedFirst DEF CloseSession
  <2>6. WillBeTold'
    BY <1>2, <2>2, KeepsWillBeTold DEF CloseSession, registry
  <2> QED BY <2>4, <2>5, <2>6
<1>3. ASSUME NEW t \in Tasks, NEW s \in SessionIds, NEW kind \in Kinds,
             Feed(t, s, kind)
      PROVE  HubInv'
  <2>1. PumpOf(s, MaxPumpRounds) \in Step
    BY <1>0, Zenon DEF PumpOf, Step
  <2>2. /\ todo' \in [Tasks -> Seq(Step)]
        /\ \A y : Pending(y)' => Pending(y) \/ y = PumpOf(s, MaxPumpRounds)
        /\ \A y : Pending(y) => Pending(y)'
    BY <1>3, <2>1, StartSteps, Zenon DEF Feed
  <2>3. \A r \in SessionIds : Do("unregister", r) # PumpOf(s, MaxPumpRounds)
    <3>1. PumpOf(s, MaxPumpRounds).op = "pump"
      BY DEF PumpOf
    <3>2. \A r \in SessionIds : Do("unregister", r).op = "unregister"
      BY DEF Do
    <3> QED BY <3>1, <3>2
  <2>4. events' \in [SessionIds -> Seq(Kinds)]
    <3>1. Append(events[s], kind) \in Seq(Kinds)
      BY DEF TodoType
    <3> QED BY <1>3, <3>1 DEF Feed, TodoType
  <2>5. TodoType' /\ TableType' /\ RegistryType'
    BY <1>3, <2>2, <2>4, Zenon DEF Feed, TodoType, TableType, RegistryType, registry
  <2>6. \A r \in table' : state'[r] = "ready" => r \in table /\ state[r] = "ready"
    BY <1>3, <1>0, SMTT(120) DEF Feed, TableType, SessionIds
  <2>7. ClosedFirst'
    BY <1>3, <2>2, <2>3, KeepsClosedFirst, SMTT(120) DEF Feed
  <2>8. WillBeTold'
    BY <1>3, <2>2, <2>6, KeepsWillBeTold, SMTT(120) DEF Feed, registry
  <2> QED BY <2>5, <2>7, <2>8
<1>4. CASE UNCHANGED vars
  BY <1>4, Zenon DEF vars, TodoType, TableType, RegistryType, ClosedFirst,
     WillBeTold, ListPending, Pending, registry
<1>5. ASSUME NEW t \in Tasks, Handle(t)
      PROVE  HubInv'
  BY <1>5, HandleStep
<1> QED BY <1>1, <1>2, <1>3, <1>4, <1>5 DEF Next

-----------------------------------------------------------------------------
(* The invariant of the session table: well-formed work lists, a table       *)
(* disjoint from the closed sessions, teardowns that close before they       *)
(* unregister, and a directory that reaches every ready session.             *)
THEOREM HubInvariant == Spec => []HubInv
<1>1. Init => HubInv
  BY HubInit
<1>2. HubInv /\ [Next]_vars => HubInv'
  BY HubStep
<1> QED BY <1>1, <1>2, PTL DEF Spec

(* Once no handler is running, every ready session of the table has been     *)
(* sent the current directory (broadcast_peer_lists after on_hello and       *)
(* close_session), however the handlers interleaved.                         *)
THEOREM DirectoryReachesEveryone == Spec => []DirectoryIsCurrent
<1>1. HubInv => DirectoryIsCurrent
  <2> SUFFICES ASSUME HubInv, Quiet, NEW s \in table, state[s] = "ready"
               PROVE  newest[s] = revision
    BY SMTT(120) DEF DirectoryIsCurrent
  <2>1. \A t \in Tasks : DOMAIN todo[t] = {}
    <3>1. DOMAIN <<>> = {}
      OBVIOUS
    <3> QED BY <3>1, Zenon DEF Quiet, Idle
  <2>2. ~ListPending(s)
    BY <2>1 DEF ListPending, Pending
  <2> QED BY <2>2, SMTT(120) DEF HubInv, WillBeTold
<1> QED BY <1>1, HubInvariant, PTL

(* The (session_id, epoch) guard of Registry::unregister: a lease disappears *)
(* only in the teardown of the session that owns it.                         *)
THEOREM LeaseSafety == Spec => LeaseReleasedByOwnerOnly
<1>1. ASSUME HubInv, [Next]_vars
      PROVE  [\A n \in Nodes :
                lease[n] # Nobody /\ lease'[n] = Nobody => lease[n] \in closed]_vars
  <2> SUFFICES ASSUME NEW n \in Nodes, lease[n] # Nobody, lease'[n] = Nobody
               PROVE  lease[n] \in closed
    OBVIOUS
  <2> USE <1>1 DEF HubInv
  <2>1. ASSUME NEW t \in Tasks, HelloRegister(t)
        PROVE  FALSE
    <3>1. Cur(t).s \in SessionIds
      BY <2>1, AtStep, StepFields, Zenon DEF HelloRegister
    <3>2. lease' = [lease EXCEPT ![NodeOf[Cur(t).s]] = Cur(t).s]
      BY <2>1, SMTT(120) DEF HelloRegister
    <3>3. Cur(t).s # Nobody
      BY <3>1 DEF SessionIds, Nobody
    <3> QED BY <3>2, <3>3, SMTT(120) DEF RegistryType
  <2>2. ASSUME NEW t \in Tasks, Unregister(t)
        PROVE  lease[n] \in closed
    <3>1. /\ Cur(t).s \in SessionIds /\ Cur(t) = Do("unregister", Cur(t).s)
          /\ Pending(Cur(t))
      BY <2>2, AtStep, StepFields, Zenon DEF Unregister
    <3>2. Cur(t).s \in closed
      BY <3>1 DEF ClosedFirst
    <3>3. /\ Owns(NodeOf[Cur(t).s], Cur(t).s)
          /\ lease' = [lease EXCEPT ![NodeOf[Cur(t).s]] = Nobody]
      BY <2>2, Zenon DEF Unregister, registry
    <3>4. n = NodeOf[Cur(t).s]
      BY <3>3 DEF RegistryType
    <3> QED BY <3>2, <3>3, <3>4 DEF Owns
  <2>3. ASSUME lease' = lease
        PROVE  FALSE
    BY <2>3
  <2>4. ASSUME NEW t \in Tasks, Handle(t)
        PROVE  lease[n] \in closed
    BY <2>1, <2>2, <2>3, <2>4, Zenon
       DEF Handle, Pump, HelloReady, RefuseHello, CloseRemove, SendPeerList,
           registry
  <2>5. CASE UNCHANGED vars
    BY <2>3, <2>5, SMTT(120) DEF vars, registry
  <2> QED BY <2>3, <2>4, <2>5, Zenon
       DEF Next, Authenticate, CloseSession, Feed, registry
<1> QED BY <1>1, HubInvariant, PTL DEF Spec, LeaseReleasedByOwnerOnly
=============================================================================
