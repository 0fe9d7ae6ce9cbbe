------------------------ MODULE ModelCallBroker_proofs ------------------------
(***************************************************************************)
(* Safety of the model-call ledger for every number of brokers, every plan *)
(* and every mix of calls.                                                 *)
(*                                                                         *)
(* Place ties a broker's step to the lines it has written and to its model *)
(* process; the histories are legal, and every budget is counted right,    *)
(* because of it.                                                          *)
(***************************************************************************)
EXTENDS ModelCallBroker, SequenceTheorems, FiniteSetTheorems, TLAPS

ReservedOnly == <<"reserved">>
Running == <<"reserved", "running">>
Settled(f) == <<"reserved", "running", f>>

Shapes == {<<>>, ReservedOnly, Running} \cup {Settled(f) : f \in FinalStates}

\* Concatenations of two short sequences, element by element.
LEMMA Concatenation ==
  ASSUME NEW s \in Seq(ReservationStates), NEW t \in Seq(ReservationStates),
         NEW v \in Seq(ReservationStates),
         Len(v) = Len(s) + Len(t),
         \A i \in 1..Len(s) : v[i] = s[i],
         \A i \in 1..Len(t) : v[Len(s) + i] = t[i]
  PROVE  s \o t = v
<1>1. /\ s \o t \in Seq(ReservationStates)
      /\ Len(s \o t) = Len(s) + Len(t)
      /\ \A i \in 1 .. Len(s) + Len(t) : (s \o t)[i] = IF i <= Len(s) THEN s[i] ELSE t[i - Len(s)]
  BY ConcatProperties
<1>2. Len(s) \in Nat /\ Len(t) \in Nat
  OBVIOUS
<1>3. ASSUME NEW i \in 1 .. Len(s \o t) PROVE (s \o t)[i] = v[i]
  <2>1. CASE i <= Len(s)
    BY <1>1, <1>2, <1>3, <2>1
  <2>2. CASE i > Len(s)
    <3>1. i - Len(s) \in 1..Len(t) /\ Len(s) + (i - Len(s)) = i
      BY <1>1, <1>2, <1>3, <2>2
    <3>2. (s \o t)[i] = t[i - Len(s)]
      BY <1>1, <1>2, <1>3, <2>2
    <3>3. v[Len(s) + (i - Len(s))] = t[i - Len(s)]
      BY <3>1
    <3> QED BY <3>1, <3>2, <3>3
  <2> QED BY <1>1, <1>2, <2>1, <2>2
<1> QED BY <1>1, <1>3, SeqEqual

\* The ledger lines a broker appends, as concatenations.
LEMMA Lines ==
  ASSUME NEW x \in ReservationStates, NEW y \in ReservationStates, NEW z \in ReservationStates
  PROVE  /\ <<x>> \o <<y>> = <<x, y>>
         /\ <<x, y>> \o <<z>> = <<x, y, z>>
         /\ <<x>> \o <<y, z>> = <<x, y, z>>
<1> DEFINE one == <<x>>
           last == <<y>>
           two == <<x, y>>
           end == <<z>>
           tail == <<y, z>>
           all == <<x, y, z>>
<1>1. /\ one \in Seq(ReservationStates) /\ last \in Seq(ReservationStates)
      /\ two \in Seq(ReservationStates) /\ end \in Seq(ReservationStates)
      /\ tail \in Seq(ReservationStates) /\ all \in Seq(ReservationStates)
      /\ Len(one) = 1 /\ Len(last) = 1 /\ Len(two) = 2 /\ Len(end) = 1
      /\ Len(tail) = 2 /\ Len(all) = 3
      /\ one[1] = x /\ last[1] = y /\ two[1] = x /\ two[2] = y /\ end[1] = z
      /\ tail[1] = y /\ tail[2] = z /\ all[1] = x /\ all[2] = y /\ all[3] = z
  OBVIOUS
<1> HIDE DEF one, last, two, end, tail, all
<1>2. one \o last = two
  <2>1. /\ \A i \in 1..Len(one) : two[i] = one[i]
        /\ \A i \in 1..Len(last) : two[Len(one) + i] = last[i]
    BY <1>1
  <2>2. Len(two) = Len(one) + Len(last)
    BY <1>1
  <2>3. /\ one \in Seq(ReservationStates) /\ last \in Seq(ReservationStates)
        /\ two \in Seq(ReservationStates)
    BY <1>1
  <2> QED BY <2>1, <2>2, <2>3, Concatenation
<1>3. two \o end = all
  <2>1. /\ \A i \in 1..Len(two) : all[i] = two[i]
        /\ \A i \in 1..Len(end) : all[Len(two) + i] = end[i]
    BY <1>1
  <2>2. Len(all) = Len(two) + Len(end)
    BY <1>1
  <2>3. /\ two \in Seq(ReservationStates) /\ end \in Seq(ReservationStates)
        /\ all \in Seq(ReservationStates)
    BY <1>1
  <2> QED BY <2>1, <2>2, <2>3, Concatenation
<1>4. one \o tail = all
  <2>1. /\ \A i \in 1..Len(one) : all[i] = one[i]
        /\ \A i \in 1..Len(tail) : all[Len(one) + i] = tail[i]
    BY <1>1
  <2>2. Len(all) = Len(one) + Len(tail)
    BY <1>1
  <2>3. /\ one \in Seq(ReservationStates) /\ tail \in Seq(ReservationStates)
        /\ all \in Seq(ReservationStates)
    BY <1>1
  <2> QED BY <2>1, <2>2, <2>3, Concatenation
<1> QED BY <1>2, <1>3, <1>4 DEF one, last, two, end, tail, all

\* The last state of each shape, and that the shapes differ.
LEMMA ShapeFacts ==
  /\ Len(ReservedOnly) = 1 /\ ReservedOnly[1] = "reserved"
  /\ Len(Running) = 2 /\ Running[2] = "running"
  /\ ReservedOnly # <<>> /\ Running # <<>> /\ Running # ReservedOnly
  /\ \A f \in FinalStates :
       /\ Len(Settled(f)) = 3 /\ Settled(f)[3] = f
       /\ Settled(f) # <<>> /\ Settled(f) # ReservedOnly /\ Settled(f) # Running
BY DEF ReservedOnly, Running, Settled, FinalStates

\* Appending the next line gives the next shape.
LEMMA ShapeSteps ==
  /\ <<>> \o <<"reserved">> = ReservedOnly
  /\ ReservedOnly \o <<"running">> = Running
  /\ \A f \in FinalStates :
       /\ Running \o <<f>> = Settled(f)
       /\ ReservedOnly \o <<"running", f>> = Settled(f)
       /\ Settled(f) \o <<>> = Settled(f)
<1>1. <<>> \o <<"reserved">> = <<"reserved">>
  OBVIOUS
<1>2. ASSUME NEW f PROVE <<"reserved", "running", f>> \o <<>> = <<"reserved", "running", f>>
  OBVIOUS
<1>3. /\ "reserved" \in ReservationStates /\ "running" \in ReservationStates
      /\ FinalStates \subseteq ReservationStates
  BY DEF ReservationStates, ConsumingStates, RetryableStates, FinalStates
<1>4. <<"reserved">> \o <<"running">> = <<"reserved", "running">>
  BY <1>3, Lines
<1>5. ASSUME NEW f \in FinalStates
      PROVE  /\ <<"reserved", "running">> \o <<f>> = <<"reserved", "running", f>>
             /\ <<"reserved">> \o <<"running", f>> = <<"reserved", "running", f>>
  BY <1>3, <1>5, Lines
<1> QED BY <1>1, <1>2, <1>4, <1>5 DEF ReservedOnly, Running, Settled

\* The shapes are sequences of states, and validate_ledger_history accepts them.
LEMMA ShapesAreLegal == \A h \in Shapes : h \in Seq(ReservationStates) /\ LegalHistory(h)
<1>1. <<>> \in Seq(ReservationStates) /\ LegalHistory(<<>>)
  BY DEF LegalHistory
<1>2. <<"reserved">> \in Seq(ReservationStates) /\ LegalHistory(<<"reserved">>)
  BY DEF LegalHistory, ReservationStates, ConsumingStates
<1>3. /\ <<"reserved", "running">> \in Seq(ReservationStates)
      /\ LegalHistory(<<"reserved", "running">>)
  BY DEF LegalHistory, ValidTransitions, ReservationStates, ConsumingStates
<1>4. ASSUME NEW f \in FinalStates
      PROVE  /\ <<"reserved", "running", f>> \in Seq(ReservationStates)
             /\ LegalHistory(<<"reserved", "running", f>>)
  <2> DEFINE h == <<"reserved", "running", f>>
  <2>1. /\ h \in Seq(ReservationStates)
        /\ h[1] = "reserved" /\ h[2] = "running" /\ h[3] = f /\ Len(h) = 3
    BY DEF ReservationStates, ConsumingStates, RetryableStates, FinalStates
  <2>2. ASSUME NEW i \in 1..2 PROVE <<h[i], h[i + 1]>> \in ValidTransitions
    <3>1. CASE i = 1
      BY <2>1, <3>1 DEF ValidTransitions
    <3>2. CASE i = 2
      BY <2>1, <3>2 DEF ValidTransitions, FinalStates
    <3> QED BY <3>1, <3>2
  <2> HIDE DEF h
  <2>3. LegalHistory(h)
    BY <2>1, <2>2 DEF LegalHistory
  <2> QED BY <2>1, <2>3 DEF h
<1> QED BY <1>1, <1>2, <1>3, <1>4 DEF Shapes, ReservedOnly, Running, Settled

-----------------------------------------------------------------------------
\* What a broker's lines h and its model process k are while it is at a step.
PlaceOf(h, step, k) ==
  /\ step \in {"start", "denied"} => h = <<>>
  /\ step \in {"reserved", "assigned"} => h = ReservedOnly
  /\ step \in {"launch", "wait", "finish"} => h = Running
  /\ step \in {"recorded", "done"} => \E f \in FinalStates : h = Settled(f)
  /\ step \in Handling => h # <<>>
  /\ k = "alive" => step \in {"wait", "killed"} /\ h = Running
  /\ step = "wait" => k = "alive"
  /\ h = Settled("succeeded") => k = "zero"

Place(c) == PlaceOf(history[c], pc[c], child[c])

PlaceInv ==
  /\ history \in [Calls -> Shapes]
  /\ torn \in BOOLEAN
  /\ lock \in Calls \cup {None}
  /\ pc \in [Calls -> BrokerSteps]
  /\ call \in [Calls -> Profiles]
  /\ child \in [Calls -> {"none", "alive", "zero", "nonzero"}]
  /\ \A c \in Calls : Place(c)

\* The state a reservation is in tells its shape.
LEMMA LatestOfShape ==
  ASSUME NEW c \in Calls, history[c] \in Shapes
  PROVE  /\ Latest(c) = "none" <=> history[c] = <<>>
         /\ Latest(c) = "reserved" <=> history[c] = ReservedOnly
         /\ Latest(c) = "running" <=> history[c] = Running
         /\ \A f \in FinalStates : Latest(c) = f <=> history[c] = Settled(f)
<1>1. CASE history[c] = <<>>
  BY <1>1, ShapeFacts DEF Latest, FinalStates
<1>2. CASE history[c] = ReservedOnly
  BY <1>2, ShapeFacts DEF Latest, FinalStates
<1>3. CASE history[c] = Running
  BY <1>3, ShapeFacts DEF Latest, FinalStates
<1>4. ASSUME NEW f \in FinalStates, history[c] = Settled(f)
      PROVE  /\ Latest(c) = f /\ Latest(c) \notin {"none", "reserved", "running"}
             /\ history[c] \notin {<<>>, ReservedOnly, Running}
  BY <1>4, ShapeFacts DEF Latest, FinalStates
<1> QED BY <1>1, <1>2, <1>3, <1>4 DEF Shapes

\* The effect of a step on the ledger: nothing, one reservation admitted, or
\* the next lines of a reservation that is on its way.
Admits(c) ==
  /\ pc[c] = "start" /\ history[c] = <<>>
  /\ Admissible(call[c])
  /\ history' = [history EXCEPT ![c] = ReservedOnly]
  /\ position' = [position EXCEPT ![c] = Cardinality(Reserved) + 1]
Proceeds(c) ==
  /\ history[c] \in {ReservedOnly, Running}
  /\ \E h \in Shapes \ {<<>>, ReservedOnly} : history' = [history EXCEPT ![c] = h]
  /\ UNCHANGED position

\* Every step of one broker keeps the places, changes no call, and either adds
\* the first line of c, adds later lines of c, or leaves the ledger as it is.
LEMMA BrokerStep ==
  ASSUME PlaceInv, NEW c \in Calls,
         Broker(c) \/ Interrupt(c) \/ InterruptForGood(c) \/ Kill(c)
  PROVE  /\ PlaceInv'
         /\ UNCHANGED call
         /\ Admits(c) \/ Proceeds(c) \/ UNCHANGED <<history, position>>
<1> USE DEF Goto, AppendLines, ledger
<1> DEFINE children == {"none", "alive", "zero", "nonzero"}
           Becomes(t) == history' = [history EXCEPT ![c] = t]
           Step(t) == pc' = [pc EXCEPT ![c] = t]
           Child(t) == child' = [child EXCEPT ![c] = t]
<1>1. /\ history \in [Calls -> Shapes] /\ pc \in [Calls -> BrokerSteps]
      /\ child \in [Calls -> children] /\ torn \in BOOLEAN /\ lock \in Calls \cup {None}
      /\ call \in [Calls -> Profiles]
      /\ history[c] \in Shapes /\ child[c] \in children
      /\ PlaceOf(history[c], pc[c], child[c])
      /\ \A d \in Calls : PlaceOf(history[d], pc[d], child[d])
  BY DEF PlaceInv, Place
<1>2. /\ UNCHANGED history => Becomes(history[c])
      /\ UNCHANGED child => Child(child[c])
  BY <1>1
<1>3. /\ <<>> \in Shapes /\ ReservedOnly \in Shapes /\ Running \in Shapes
      /\ \A f \in FinalStates : Settled(f) \in Shapes
  BY DEF Shapes
<1>4. ASSUME UNCHANGED call, torn' \in BOOLEAN, lock' \in {lock, c, None},
             NEW h \in Shapes, Becomes(h), NEW k \in children, Child(k),
             NEW step \in BrokerSteps, Step(step), PlaceOf(h, step, k)
      PROVE  PlaceInv'
  <2>1. ASSUME NEW d \in Calls PROVE PlaceOf(history'[d], pc'[d], child'[d])
    <3>1. CASE d = c
      <4>1. history'[d] = h /\ pc'[d] = step /\ child'[d] = k
        BY <1>1, <1>4, <3>1
      <4> QED BY <1>4, <4>1
    <3>2. CASE d # c
      <4>1. history'[d] = history[d] /\ pc'[d] = pc[d] /\ child'[d] = child[d]
        BY <1>1, <1>4, <3>2
      <4> QED BY <1>1, <4>1
    <3> QED BY <3>1, <3>2
  <2>2. /\ history' \in [Calls -> Shapes] /\ pc' \in [Calls -> BrokerSteps]
        /\ child' \in [Calls -> children]
    BY <1>1, <1>4
  <2> QED BY <1>1, <1>4, <2>1, <2>2 DEF PlaceInv, Place
<1> HIDE DEF Becomes, Step, Child
<1>5. CASE Admit(c)
  <2>1. history[c] = <<>>
    BY <1>1, <1>5 DEF Admit, PlaceOf
  <2>2. Becomes(ReservedOnly) /\ Step("reserved") /\ Child(child[c])
    BY <1>2, <1>5, <2>1, ShapeSteps DEF Admit, Becomes, Step
  <2>3. child[c] # "alive"
    BY <1>1, <1>5 DEF Admit, PlaceOf
  <2>4. PlaceOf(ReservedOnly, "reserved", child[c])
    BY <2>3, ShapeFacts DEF PlaceOf, Handling, FinalStates
  <2>5. PlaceInv'
    BY <1>1, <1>3, <1>4, <1>5, <2>2, <2>4 DEF Admit, BrokerSteps
  <2> QED BY <1>5, <2>1, <2>2, <2>5 DEF Admit, Admits, FirstLine, Becomes
<1>6. CASE Deny(c)
  <2>1. Becomes(history[c]) /\ Step("denied") /\ Child(child[c])
    BY <1>2, <1>6 DEF Deny, Step
  <2>2. PlaceOf(history[c], "denied", child[c])
    BY <1>1, <1>6 DEF Deny, PlaceOf, Handling
  <2> QED BY <1>1, <1>4, <1>6, <2>1, <2>2 DEF Deny, BrokerSteps
<1>7. CASE AssignRunning(c)
  <2>1. Becomes(history[c]) /\ Step("assigned") /\ Child(child[c])
    BY <1>2, <1>7 DEF AssignRunning, Step
  <2>2. PlaceOf(history[c], "assigned", child[c])
    BY <1>1, <1>7 DEF AssignRunning, PlaceOf, Handling
  <2> QED BY <1>1, <1>4, <1>7, <2>1, <2>2 DEF AssignRunning, BrokerSteps
<1>8. CASE AppendRunning(c)
  <2>1. history[c] = ReservedOnly /\ child[c] # "alive"
    BY <1>1, <1>8 DEF AppendRunning, PlaceOf
  <2>2. Becomes(Running) /\ Step("launch") /\ Child(child[c])
    BY <1>2, <1>8, <2>1, ShapeSteps DEF AppendRunning, Becomes, Step
  <2>3. PlaceOf(Running, "launch", child[c])
    BY <2>1, ShapeFacts DEF PlaceOf, Handling, FinalStates
  <2>4. PlaceInv'
    BY <1>1, <1>3, <1>4, <1>8, <2>2, <2>3 DEF AppendRunning, BrokerSteps
  <2> QED BY <1>3, <1>8, <2>1, <2>2, <2>4, ShapeFacts DEF AppendRunning, Proceeds, Becomes
<1>9. CASE Launch(c)
  <2>1. history[c] = Running
    BY <1>1, <1>9 DEF Launch, PlaceOf
  <2>2. Becomes(history[c]) /\ Step("wait") /\ Child("alive")
    BY <1>2, <1>9 DEF Launch, Step, Child
  <2>3. PlaceOf(history[c], "wait", "alive")
    BY <2>1, ShapeFacts DEF PlaceOf, Handling, FinalStates
  <2> QED BY <1>1, <1>4, <1>9, <2>2, <2>3 DEF Launch, BrokerSteps
<1>10. CASE LaunchFailed(c)
  <2>1. history[c] = Running /\ child[c] # "alive"
    BY <1>1, <1>10 DEF LaunchFailed, PlaceOf
  <2>2. Becomes(history[c]) /\ Step("failed") /\ Child(child[c])
    BY <1>2, <1>10 DEF LaunchFailed, Step
  <2>3. PlaceOf(history[c], "failed", child[c])
    BY <2>1, ShapeFacts DEF PlaceOf, Handling, FinalStates
  <2> QED BY <1>1, <1>4, <1>10, <2>2, <2>3 DEF LaunchFailed, BrokerSteps, Handling
<1>11. CASE ChildExit(c)
  <2>1. history[c] = Running /\ pc[c] \in {"wait", "killed"}
    BY <1>1, <1>11 DEF ChildExit, PlaceOf
  <2>2. PICK code \in {"zero", "nonzero"} : Child(code)
    BY <1>11 DEF ChildExit, Child
  <2>3. PICK step \in {"finish", "killed"} : Step(step)
    BY <1>11, <2>1 DEF ChildExit, Step
  <2>4. PlaceOf(history[c], step, code)
    BY <2>1, ShapeFacts DEF PlaceOf, Handling, FinalStates
  <2>5. Becomes(history[c])
    BY <1>2, <1>11 DEF ChildExit
  <2> QED BY <1>1, <1>4, <1>11, <2>2, <2>3, <2>4, <2>5 DEF ChildExit, BrokerSteps
<1>12. CASE ChildTimeout(c)
  <2>1. history[c] = Running
    BY <1>1, <1>12 DEF ChildTimeout, PlaceOf
  <2>2. Becomes(history[c]) /\ Step("failed") /\ Child("nonzero")
    BY <1>2, <1>12 DEF ChildTimeout, Step, Child
  <2>3. PlaceOf(history[c], "failed", "nonzero")
    BY <2>1, ShapeFacts DEF PlaceOf, Handling, FinalStates
  <2> QED BY <1>1, <1>4, <1>12, <2>2, <2>3 DEF ChildTimeout, BrokerSteps, Handling
<1>13. CASE Finish(c)
  <2>1. history[c] = Running /\ child[c] # "alive"
    BY <1>1, <1>13 DEF Finish, PlaceOf
  <2>2. PICK f \in FinalStates : /\ history' = [history EXCEPT ![c] = @ \o <<f>>]
                                 /\ f = "succeeded" => child[c] = "zero"
    BY <1>13 DEF Finish, FinalStates
  <2>3. Becomes(Settled(f)) /\ Step("recorded") /\ Child(child[c])
    BY <1>2, <1>13, <2>1, <2>2, ShapeSteps DEF Finish, Becomes, Step
  <2>4. PlaceOf(Settled(f), "recorded", child[c])
    BY <2>1, <2>2, ShapeFacts DEF PlaceOf, Handling, FinalStates
  <2>5. PlaceInv'
    BY <1>1, <1>3, <1>4, <1>13, <2>3, <2>4 DEF Finish, BrokerSteps
  <2> QED BY <1>3, <1>13, <2>1, <2>3, <2>5, ShapeFacts DEF Finish, Proceeds, Becomes
<1>14. CASE AppendFailed(c)
  <2>1. history[c] # <<>> /\ child[c] # "alive"
    BY <1>1, <1>14, ShapeFacts DEF AppendFailed, PlaceOf
  <2>2. Becomes(history[c]) /\ Step("failed") /\ Child(child[c])
    BY <1>2, <1>14 DEF AppendFailed, Step
  <2>3. PlaceOf(history[c], "failed", child[c])
    BY <1>1, <2>1 DEF PlaceOf, Handling
  <2> QED BY <1>1, <1>4, <1>14, <2>2, <2>3 DEF AppendFailed, ReleaseLock, BrokerSteps, Handling
<1>15. CASE Return(c)
  <2>1. Becomes(history[c]) /\ Step("done") /\ Child(child[c])
    BY <1>2, <1>15 DEF Return, Step
  <2>2. PlaceOf(history[c], "done", child[c])
    BY <1>1, <1>15 DEF Return, PlaceOf, Handling
  <2> QED BY <1>1, <1>4, <1>15, <2>1, <2>2 DEF Return, BrokerSteps
<1>16. CASE Repair(c)
  <2>1. /\ history[c] # <<>> /\ child[c] # "alive" /\ pc[c] \in {"failed", "cancelled"}
        /\ history[c] = Settled("succeeded") => child[c] = "zero"
    BY <1>1, <1>16 DEF Repair, PlaceOf, Handling
  <2>2. PICK f \in FinalStates :
          /\ history[c] \o RepairLines(c) = Settled(f)
          /\ f = "succeeded" => child[c] = "zero"
          /\ history[c] \in {ReservedOnly, Running} \/ history[c] \o RepairLines(c) = history[c]
    <3> USE LatestOfShape DEF RepairLines
    <3>1. CASE history[c] = ReservedOnly
      <4>1. RepairLines(c) = <<"running", pc[c]>> /\ pc[c] \in FinalStates
        BY <2>1, <3>1, <1>1 DEF FinalStates
      <4> QED BY <2>1, <3>1, <4>1, ShapeSteps
    <3>2. CASE history[c] = Running
      <4>1. RepairLines(c) = <<pc[c]>> /\ pc[c] \in FinalStates
        BY <2>1, <3>2, <1>1, ShapeFacts DEF FinalStates
      <4> QED BY <2>1, <3>2, <4>1, ShapeSteps
    <3>3. CASE \E f \in FinalStates : history[c] = Settled(f)
      <4>1. PICK f \in FinalStates : history[c] = Settled(f)
        BY <3>3
      <4>2. Latest(c) \notin {"reserved", "running"}
        BY <1>1, <4>1, ShapeFacts
      <4>3. RepairLines(c) = <<>>
        BY <4>2
      <4> QED BY <2>1, <4>1, <4>3, ShapeSteps
    <3> QED BY <1>1, <2>1, <3>1, <3>2, <3>3 DEF Shapes
  <2>3. Becomes(Settled(f)) /\ Step("done") /\ Child(child[c])
    BY <1>2, <1>16, <2>2 DEF Repair, Becomes, Step
  <2>4. PlaceOf(Settled(f), "done", child[c])
    BY <2>1, <2>2, ShapeFacts DEF PlaceOf, Handling, FinalStates
  <2>5. PlaceInv'
    BY <1>1, <1>3, <1>4, <1>16, <2>3, <2>4 DEF Repair, BrokerSteps
  <2>6. CASE history[c] \in {ReservedOnly, Running}
    BY <1>3, <1>16, <2>3, <2>5, <2>6, ShapeFacts DEF Repair, Proceeds, Becomes
  <2>7. CASE history[c] \o RepairLines(c) = history[c]
    <3>1. UNCHANGED history
      BY <1>1, <1>16, <2>7 DEF Repair
    <3> QED BY <1>16, <2>5, <3>1 DEF Repair
  <2> QED BY <2>2, <2>6, <2>7
<1>17. CASE RepairRefused(c)
  <2>1. Becomes(history[c]) /\ Step("abandoned") /\ Child(child[c])
    BY <1>2, <1>17 DEF RepairRefused, Step
  <2>2. PlaceOf(history[c], "abandoned", child[c])
    BY <1>1, <1>17 DEF RepairRefused, PlaceOf, Handling
  <2> QED BY <1>1, <1>4, <1>17, <2>1, <2>2 DEF RepairRefused, BrokerSteps
<1>18. CASE Interrupt(c)
  <2>1. history[c] # <<>> /\ (history[c] = Settled("succeeded") => child[c] = "zero")
    BY <1>1, <1>18, ShapeFacts DEF Interrupt, PlaceOf
  <2>2. PICK k \in children : Child(k) /\ k # "alive" /\ (child[c] = "zero" => k = "zero")
    BY <1>1, <1>18 DEF Interrupt, StopChild, Child
  <2>3. Becomes(history[c]) /\ Step("cancelled")
    BY <1>2, <1>18 DEF Interrupt, Step
  <2>4. PlaceOf(history[c], "cancelled", k)
    BY <2>1, <2>2 DEF PlaceOf, Handling
  <2> QED BY <1>1, <1>4, <1>18, <2>2, <2>3, <2>4 DEF Interrupt, ReleaseLock, BrokerSteps, Handling
<1>19. CASE InterruptForGood(c)
  <2>1. Becomes(history[c]) /\ Step("abandoned") /\ Child(child[c])
    BY <1>2, <1>19 DEF InterruptForGood, Step
  <2>2. PlaceOf(history[c], "abandoned", child[c])
    BY <1>1, <1>19 DEF InterruptForGood, PlaceOf, Handling
  <2> QED BY <1>1, <1>4, <1>19, <2>1, <2>2 DEF InterruptForGood, ReleaseLock, BrokerSteps
<1>20. CASE Kill(c)
  <2>1. Becomes(history[c]) /\ Step("killed") /\ Child(child[c]) /\ torn' \in BOOLEAN
    BY <1>1, <1>2, <1>20 DEF Kill, Step
  <2>2. PlaceOf(history[c], "killed", child[c])
    BY <1>1, <1>20 DEF Kill, PlaceOf, Handling
  <2> QED BY <1>1, <1>4, <1>20, <2>1, <2>2 DEF Kill, ReleaseLock, BrokerSteps
<1> QED
  BY <1>5, <1>6, <1>7, <1>8, <1>9, <1>10, <1>11, <1>12, <1>13, <1>14, <1>15,
     <1>16, <1>17, <1>18, <1>19, <1>20 DEF Broker

-----------------------------------------------------------------------------
\* The effect of any step of the program.
LedgerMoves == (\E c \in Calls : Admits(c) \/ Proceeds(c)) \/ UNCHANGED <<history, position>>

\* Before any call, every broker is where its empty history says it is.
LEMMA PlaceInit == Init => PlaceInv
<1> SUFFICES ASSUME Init PROVE PlaceInv
  OBVIOUS
<1>1. ASSUME NEW c \in Calls PROVE PlaceOf(<<>>, "start", "none")
  BY ShapeFacts DEF PlaceOf, Handling, FinalStates
<1>2. <<>> \in Shapes /\ "start" \in BrokerSteps
  BY DEF Shapes, BrokerSteps
<1> QED BY <1>1, <1>2 DEF Init, PlaceInv, Place

\* Every step of the program keeps the places and calls, and moves the ledger by
\* one admission, by further lines of one reservation, or not at all.
LEMMA PlaceStep ==
  ASSUME PlaceInv, [Next]_vars
  PROVE  PlaceInv' /\ UNCHANGED call /\ LedgerMoves
<1>1. CASE Next
  <2>1. PICK c \in Calls : Broker(c) \/ Interrupt(c) \/ InterruptForGood(c) \/ Kill(c)
    BY <1>1 DEF Next
  <2>2. PlaceInv' /\ UNCHANGED call
    BY <2>1, BrokerStep
  <2>3. Admits(c) \/ Proceeds(c) \/ UNCHANGED <<history, position>>
    BY <2>1, BrokerStep
  <2> QED BY <2>2, <2>3 DEF LedgerMoves
<1>2. CASE UNCHANGED vars
  BY <1>2 DEF vars, ledger, PlaceInv, Place, PlaceOf, LedgerMoves
<1> QED BY <1>1, <1>2

\* In every reachable state each reservation's lines are one of the five shapes,
\* and the shape, the broker's step and its model process fit together: the
\* inductive invariant the other theorems rest on.
THEOREM PlaceCorrect == Spec => []PlaceInv
<1>1. PlaceInv /\ [Next]_vars => PlaceInv'
  BY PlaceStep
<1> QED BY <1>1, PlaceInit, PTL DEF Spec

\* However many brokers share the ledger, and wherever each of them is
\* interrupted or killed, validate_ledger_history accepts it.
THEOREM HistoriesStayLegal == Spec => []HistoriesAreLegal
<1>1. PlaceInv => HistoriesAreLegal
  BY ShapesAreLegal DEF PlaceInv, HistoriesAreLegal
<1> QED BY <1>1, PlaceCorrect, PTL

\* A model process that runs is on record as running.
THEOREM LiveCallsAreCounted == Spec => []LiveCallIsCounted
<1>1. PlaceInv => LiveCallIsCounted
  <2> SUFFICES ASSUME PlaceInv, NEW c \in Calls, child[c] = "alive" PROVE Latest(c) = "running"
    BY DEF LiveCallIsCounted
  <2>1. history[c] = Running /\ history[c] \in Shapes
    BY DEF PlaceInv, Place, PlaceOf
  <2> QED BY <2>1, LatestOfShape
<1> QED BY <1>1, PlaceCorrect, PTL

\* A broker that returned has recorded how its call ended.
THEOREM ReturnedCallsAreSettled == Spec => []ReturnedCallIsSettled
<1>1. PlaceInv => ReturnedCallIsSettled
  <2> SUFFICES ASSUME PlaceInv, NEW c \in Calls
               PROVE  /\ pc[c] = "done" => Latest(c) \in FinalStates
                      /\ Latest(c) = "succeeded" => child[c] = "zero"
    BY DEF ReturnedCallIsSettled
  <2>1. PlaceOf(history[c], pc[c], child[c]) /\ history[c] \in Shapes
    BY DEF PlaceInv, Place
  <2>2. ASSUME pc[c] = "done" PROVE Latest(c) \in FinalStates
    <3>1. PICK f \in FinalStates : history[c] = Settled(f)
      BY <2>1, <2>2 DEF PlaceOf
    <3> QED BY <2>1, <3>1, LatestOfShape
  <2>3. ASSUME Latest(c) = "succeeded" PROVE child[c] = "zero"
    <3>1. "succeeded" \in FinalStates
      BY DEF FinalStates
    <3>2. history[c] = Settled("succeeded")
      BY <2>1, <2>3, <3>1, LatestOfShape
    <3> QED BY <2>1, <3>2 DEF PlaceOf
  <2> QED BY <2>2, <2>3
<1> QED BY <1>1, PlaceCorrect, PTL

-----------------------------------------------------------------------------
\* What an admission and a further line of a reservation change for the
\* readers of the ledger.
LEMMA AdmissionEffect ==
  ASSUME PlaceInv, PlaceInv', UNCHANGED call, NEW c \in Calls, Admits(c)
  PROVE  /\ c \notin Reserved /\ Reserved' = Reserved \cup {c}
         /\ Latest(c)' = "reserved"
         /\ \A d \in Calls : d # c => Latest(d)' = Latest(d)
<1>1. history \in [Calls -> Shapes] /\ history[c] = <<>>
  BY DEF PlaceInv, Admits
<1>2. history'[c] = ReservedOnly /\ \A d \in Calls : d # c => history'[d] = history[d]
  BY <1>1 DEF Admits
<1>3. Latest(c)' = "reserved"
  BY <1>2, ShapeFacts DEF Latest
<1>4. ASSUME NEW d \in Calls, d # c PROVE Latest(d)' = Latest(d)
  BY <1>2, <1>4 DEF Latest
<1>5. c \notin Reserved /\ Reserved' = Reserved \cup {c}
  BY <1>1, <1>2, ShapeFacts DEF Reserved
<1> QED BY <1>3, <1>4, <1>5

\* Further lines of a live reservation change neither the set of reservations
\* nor the state of another one.
LEMMA ProgressEffect ==
  ASSUME PlaceInv, PlaceInv', UNCHANGED call, NEW c \in Calls, Proceeds(c)
  PROVE  /\ Reserved' = Reserved
         /\ Latest(c) \in {"reserved", "running"}
         /\ \A d \in Calls : d # c => Latest(d)' = Latest(d)
<1>1. history \in [Calls -> Shapes] /\ history[c] \in {ReservedOnly, Running}
  BY DEF PlaceInv, Proceeds
<1>2. history'[c] # <<>> /\ \A d \in Calls : d # c => history'[d] = history[d]
  BY <1>1 DEF Proceeds
<1>3. Latest(c) \in {"reserved", "running"}
  BY <1>1, LatestOfShape
<1>4. ASSUME NEW d \in Calls, d # c PROVE Latest(d)' = Latest(d)
  BY <1>2, <1>4 DEF Latest
<1>5. Reserved' = Reserved
  BY <1>1, <1>2, ShapeFacts DEF Reserved
<1> QED BY <1>3, <1>4, <1>5

\* A step that leaves the ledger alone changes nothing its readers see.
LEMMA QuietEffect ==
  ASSUME UNCHANGED <<history, position>>
  PROVE  Reserved' = Reserved /\ \A d \in Calls : Latest(d)' = Latest(d)
BY DEF Reserved, Latest

-----------------------------------------------------------------------------
(* Budgets *)

\* What the checks count is finite.
LEMMA Finiteness ==
  /\ IsFiniteSet(Reserved)
  /\ \A r : /\ IsFiniteSet(Consumed(r)) /\ IsFiniteSet(ConsumedOther(r))
            /\ IsFiniteSet(ConsumedReserved(r))
<1>1. IsFiniteSet(Calls)
  BY CallsAssumption
<1>2. /\ Reserved \subseteq Calls
      /\ \A r : /\ Consumed(r) \subseteq Calls /\ ConsumedOther(r) \subseteq Calls
                /\ ConsumedReserved(r) \subseteq Calls
  BY DEF Reserved, Consumed, ConsumedOther, ConsumedReserved
<1> QED BY <1>1, <1>2, FS_Subset

\* No step but an admission adds a call to a role's counted calls.
LEMMA CountedCalls ==
  ASSUME PlaceInv, PlaceInv', UNCHANGED call, NEW r, NEW c \in Calls, Proceeds(c)
  PROVE  /\ ConsumedOther(r)' \subseteq ConsumedOther(r)
         /\ ConsumedReserved(r)' \subseteq ConsumedReserved(r)
<1>1. ASSUME NEW d \in Calls, Latest(d)' \in ConsumingStates PROVE Latest(d) \in ConsumingStates
  <2>1. CASE d = c
    BY <2>1, ProgressEffect DEF ConsumingStates
  <2>2. CASE d # c
    BY <1>1, <2>2, ProgressEffect
  <2> QED BY <2>1, <2>2
<1> QED BY <1>1 DEF Consumed, ConsumedOther, ConsumedReserved

\* No step takes a role over its budgets: an admission was checked against the
\* same ledger it is appended to, and every other step counts no further call.
LEMMA BudgetStep ==
  ASSUME PlaceInv, PlaceInv', UNCHANGED call, LedgerMoves, BudgetBound
  PROVE  BudgetBound'
<1> SUFFICES ASSUME NEW r \in Roles
             PROVE  /\ Cardinality(ConsumedOther(r)') <= UnreservedBudget(r)
                    /\ Cardinality(ConsumedReserved(r)') <= MaxCalls[r]
  BY DEF BudgetBound, UnreservedBudget
<1>1. /\ Cardinality(ConsumedOther(r)) \in Nat /\ Cardinality(ConsumedReserved(r)) \in Nat
      /\ Cardinality(Consumed(r)) \in Nat
      /\ Cardinality(ConsumedReserved(r)) <= Cardinality(Consumed(r))
  BY Finiteness, FS_CardinalityType, FS_Subset DEF ConsumedReserved
<1>2. MaxCalls[r] \in Nat /\ UnreservedBudget(r) \in Nat
  BY MaxCallsAssumption, ReservedForAssumption, FS_CardinalityType DEF UnreservedBudget
<1>3. /\ Cardinality(ConsumedOther(r)) <= UnreservedBudget(r)
      /\ Cardinality(ConsumedReserved(r)) <= MaxCalls[r]
  BY DEF BudgetBound
<1>4. ASSUME NEW c \in Calls, Admits(c)
      PROVE  /\ Cardinality(ConsumedOther(r)') <= UnreservedBudget(r)
             /\ Cardinality(ConsumedReserved(r)') <= MaxCalls[r]
  <2>1. /\ Latest(c)' = "reserved" /\ Latest(c) = "none"
        /\ \A d \in Calls : d # c => Latest(d)' = Latest(d)
    BY <1>4, AdmissionEffect DEF Admits, Latest
  <2>2. CheckBudget(call[c])
    BY <1>4 DEF Admits, Admissible
  <2>3. CASE call[c].role # r
    <3>1. ConsumedOther(r)' = ConsumedOther(r) /\ ConsumedReserved(r)' = ConsumedReserved(r)
      BY <2>1, <2>3 DEF Consumed, ConsumedOther, ConsumedReserved, ConsumingStates
    <3> QED BY <1>3, <3>1
  <2>4. CASE call[c].role = r /\ call[c].stage \in ReservedFor
    <3>1. /\ ConsumedOther(r)' = ConsumedOther(r)
          /\ ConsumedReserved(r)' = ConsumedReserved(r) \cup {c} /\ c \notin ConsumedReserved(r)
      BY <2>1, <2>4 DEF Consumed, ConsumedOther, ConsumedReserved, ConsumingStates
    <3>2. Cardinality(ConsumedReserved(r)') = Cardinality(ConsumedReserved(r)) + 1
      BY <3>1, Finiteness, FS_AddElement
    <3>3. Cardinality((ReservedFor \ UsedStages(r)) \ {call[c].stage}) \in Nat
      BY ReservedForAssumption, FS_Subset, FS_CardinalityType
    <3>4. Cardinality(Consumed(r)) <
            MaxCalls[r] - Cardinality((ReservedFor \ UsedStages(r)) \ {call[c].stage})
      BY <2>2, <2>4 DEF CheckBudget
    <3> QED BY <1>1, <1>2, <1>3, <3>1, <3>2, <3>3, <3>4
  <2>5. CASE call[c].role = r /\ call[c].stage \notin ReservedFor
    <3>1. /\ ConsumedReserved(r)' = ConsumedReserved(r)
          /\ ConsumedOther(r)' = ConsumedOther(r) \cup {c} /\ c \notin ConsumedOther(r)
      BY <2>1, <2>5 DEF Consumed, ConsumedOther, ConsumedReserved, ConsumingStates
    <3>2. Cardinality(ConsumedOther(r)') = Cardinality(ConsumedOther(r)) + 1
      BY <3>1, Finiteness, FS_AddElement
    <3>3. Cardinality(ConsumedOther(r)) < UnreservedBudget(r)
      BY <2>2, <2>5 DEF CheckBudget
    <3> QED BY <1>1, <1>2, <1>3, <3>1, <3>2, <3>3
  <2> QED BY <2>3, <2>4, <2>5
<1>5. ASSUME NEW c \in Calls, Proceeds(c)
      PROVE  /\ Cardinality(ConsumedOther(r)') <= UnreservedBudget(r)
             /\ Cardinality(ConsumedReserved(r)') <= MaxCalls[r]
  <2>1. /\ ConsumedOther(r)' \subseteq ConsumedOther(r)
        /\ ConsumedReserved(r)' \subseteq ConsumedReserved(r)
    BY <1>5, CountedCalls
  <2>2. /\ Cardinality(ConsumedOther(r)') <= Cardinality(ConsumedOther(r))
        /\ Cardinality(ConsumedReserved(r)') <= Cardinality(ConsumedReserved(r))
        /\ Cardinality(ConsumedOther(r)') \in Nat /\ Cardinality(ConsumedReserved(r)') \in Nat
    BY <2>1, Finiteness, FS_Subset, FS_CardinalityType
  <2> QED BY <1>1, <1>2, <1>3, <2>2
<1>6. CASE UNCHANGED <<history, position>>
  <2>1. ConsumedOther(r)' = ConsumedOther(r) /\ ConsumedReserved(r)' = ConsumedReserved(r)
    BY <1>6, QuietEffect DEF Consumed, ConsumedOther, ConsumedReserved
  <2> QED BY <1>3, <2>1
<1> QED BY <1>4, <1>5, <1>6 DEF LedgerMoves

\* Concurrent brokers never exceed what check_budget leaves them.
THEOREM BudgetsHold == Spec => []BudgetBound
<1>1. Init => BudgetBound
  <2> SUFFICES ASSUME Init, NEW r \in Roles
               PROVE  /\ Cardinality(ConsumedOther(r)) <= UnreservedBudget(r)
                      /\ Cardinality(ConsumedReserved(r)) <= MaxCalls[r]
    BY DEF BudgetBound
  <2>1. ConsumedOther(r) = {} /\ ConsumedReserved(r) = {}
    BY DEF Init, ConsumedOther, ConsumedReserved, Consumed, Latest, ConsumingStates
  <2>2. MaxCalls[r] \in Nat /\ UnreservedBudget(r) \in Nat
    BY MaxCallsAssumption, ReservedForAssumption, FS_CardinalityType DEF UnreservedBudget
  <2> QED BY <2>1, <2>2, FS_EmptySet
<1>2. PlaceInv /\ BudgetBound /\ [Next]_vars => BudgetBound'
  BY PlaceStep, BudgetStep
<1> QED BY <1>1, <1>2, PlaceCorrect, PTL DEF Spec

-----------------------------------------------------------------------------
(* Requests *)

OfRequest(q) == {d \in Reserved : call[d].request = q}

\* No step gives a request more calls than --call-cap.
LEMMA RequestStep ==
  ASSUME PlaceInv, PlaceInv', UNCHANGED call, LedgerMoves, RequestCapHolds
  PROVE  RequestCapHolds'
<1> SUFFICES ASSUME NEW b \in Calls, call[b].request # None
             PROVE  Cardinality(OfRequest(call[b].request)') <= CallCap
  BY DEF RequestCapHolds, OfRequest
<1> DEFINE q == call[b].request
<1>1. Cardinality(OfRequest(q)) <= CallCap
  BY DEF RequestCapHolds, OfRequest
<1>2. IsFiniteSet(OfRequest(q)) /\ Cardinality(OfRequest(q)) \in Nat /\ CallCap \in Nat
  BY Finiteness, FS_Subset, FS_CardinalityType, CallCapAssumption DEF OfRequest
<1>3. ASSUME NEW c \in Calls, Admits(c) PROVE Cardinality(OfRequest(q)') <= CallCap
  <2>1. c \notin Reserved /\ Reserved' = Reserved \cup {c}
    BY <1>3, AdmissionEffect
  <2>2. CASE call[c].request = q
    <3>1. OfRequest(q)' = OfRequest(q) \cup {c} /\ c \notin OfRequest(q)
      BY <2>1, <2>2 DEF OfRequest
    <3>2. Cardinality(OfRequest(q)') = Cardinality(OfRequest(q)) + 1
      BY <1>2, <3>1, FS_AddElement
    <3>3. Cardinality(OfRequest(q)) < CallCap
      BY <1>3, <2>2 DEF Admits, Admissible, CheckRequest, OfRequest
    <3> QED BY <1>2, <3>2, <3>3
  <2>3. CASE call[c].request # q
    <3>1. OfRequest(q)' = OfRequest(q)
      BY <2>1, <2>3 DEF OfRequest
    <3> QED BY <1>1, <3>1
  <2> QED BY <2>2, <2>3
<1>4. ASSUME Reserved' = Reserved PROVE Cardinality(OfRequest(q)') <= CallCap
  <2>1. OfRequest(q)' = OfRequest(q)
    BY <1>4 DEF OfRequest
  <2> QED BY <1>1, <2>1
<1> QED BY <1>3, <1>4, ProgressEffect, QuietEffect DEF LedgerMoves

\* A request is given at most --call-cap calls over all roles.
THEOREM RequestsAreCapped == Spec => []RequestCapHolds
<1>1. Init => RequestCapHolds
  <2> SUFFICES ASSUME Init, NEW b \in Calls
               PROVE  Cardinality({d \in Reserved : call[d].request = call[b].request}) <= CallCap
    BY DEF RequestCapHolds
  <2>1. {d \in Reserved : call[d].request = call[b].request} = {}
    BY DEF Init, Reserved
  <2> QED BY <2>1, FS_EmptySet, CallCapAssumption
<1>2. PlaceInv /\ RequestCapHolds /\ [Next]_vars => RequestCapHolds'
  BY PlaceStep, RequestStep
<1> QED BY <1>1, <1>2, PlaceCorrect, PTL DEF Spec

-----------------------------------------------------------------------------
(* The order of the ledger *)

\* Every first line comes behind the first lines that are there before it.
PositionInv ==
  /\ position \in [Calls -> Nat]
  /\ \A c \in Calls : position[c] <= Cardinality(Reserved)

\* No step puts a reservation after the last one.
LEMMA PositionStep ==
  ASSUME PlaceInv, PlaceInv', UNCHANGED call, LedgerMoves, PositionInv
  PROVE  PositionInv'
<1>1. /\ position \in [Calls -> Nat] /\ IsFiniteSet(Reserved) /\ Cardinality(Reserved) \in Nat
      /\ \A d \in Calls : position[d] <= Cardinality(Reserved)
  BY Finiteness, FS_CardinalityType DEF PositionInv
<1>2. ASSUME NEW c \in Calls, Admits(c) PROVE PositionInv'
  <2>1. c \notin Reserved /\ Reserved' = Reserved \cup {c}
    BY <1>2, AdmissionEffect
  <2>2. Cardinality(Reserved') = Cardinality(Reserved) + 1
    BY <1>1, <2>1, FS_AddElement
  <2>3. position' = [position EXCEPT ![c] = Cardinality(Reserved) + 1]
    BY <1>2 DEF Admits
  <2> QED BY <1>1, <2>2, <2>3 DEF PositionInv
<1>3. ASSUME Reserved' = Reserved, UNCHANGED position PROVE PositionInv'
  BY <1>1, <1>3 DEF PositionInv
<1>4. ASSUME NEW c \in Calls, Proceeds(c) PROVE Reserved' = Reserved /\ UNCHANGED position
  BY <1>4, ProgressEffect DEF Proceeds
<1> QED BY <1>2, <1>3, <1>4, QuietEffect DEF LedgerMoves

\* Positions are numbers, and none exceeds the number of reservations, so the
\* next reservation comes after all others.
THEOREM PositionsCorrect == Spec => []PositionInv
<1>1. Init => PositionInv
  <2> SUFFICES ASSUME Init PROVE PositionInv
    OBVIOUS
  <2>1. Cardinality(Reserved) \in Nat
    BY Finiteness, FS_CardinalityType
  <2> QED BY <2>1 DEF Init, PositionInv
<1>2. PlaceInv /\ PositionInv /\ [Next]_vars => PositionInv'
  BY PlaceStep, PositionStep
<1> QED BY <1>1, <1>2, PlaceCorrect, PTL DEF Spec

\* All state of the ledger and of the brokers is well-typed.
THEOREM TypeCorrect == Spec => []TypeOK
<1>1. PlaceInv /\ PositionInv => TypeOK
  <2> SUFFICES ASSUME PlaceInv, PositionInv PROVE TypeOK
    OBVIOUS
  <2>1. Cardinality(Reserved) <= Cardinality(Calls)
    BY CallsAssumption, FS_Subset DEF Reserved
  <2>2. Cardinality(Reserved) \in Nat /\ Cardinality(Calls) \in Nat
    BY CallsAssumption, Finiteness, FS_CardinalityType
  <2>3. position \in [Calls -> 0..Cardinality(Calls)]
    BY <2>1, <2>2 DEF PositionInv
  <2>4. history \in [Calls -> Seq(ReservationStates)]
    BY ShapesAreLegal DEF PlaceInv
  <2> QED BY <2>3, <2>4 DEF PlaceInv, TypeOK
<1> QED BY <1>1, PlaceCorrect, PositionsCorrect, PTL

-----------------------------------------------------------------------------
(* Evidence *)

SameKey(c, d) == call[c].role = call[d].role /\ call[c].evidence = call[d].evidence
IsFirst(c) == c \in Reserved /\ \A e \in Reserved : SameKey(c, e) => position[c] <= position[e]

\* The property, with the first reservation of some evidence named.
LEMMA EvidenceInTermsOfFirst ==
  OnlyFailedEvidenceIsRetried <=>
    \A c, d \in Reserved : IsFirst(c) /\ SameKey(c, d) /\ c # d => Latest(c) \in RetryableStates
BY DEF OnlyFailedEvidenceIsRetried, SameEvidence, SameKey, IsFirst

\* No step admits a second call behind a first one that did not fail, and a
\* first call that failed stays failed.
LEMMA EvidenceStep ==
  ASSUME PlaceInv, PlaceInv', UNCHANGED call, LedgerMoves, PositionInv,
         OnlyFailedEvidenceIsRetried
  PROVE  OnlyFailedEvidenceIsRetried'
<1> DEFINE Retried == \A c, d \in Reserved :
                        IsFirst(c) /\ SameKey(c, d) /\ c # d => Latest(c) \in RetryableStates
<1>1. Retried
  BY EvidenceInTermsOfFirst
<1>2. OnlyFailedEvidenceIsRetried' <=> Retried'
  BY EvidenceInTermsOfFirst, PTL
<1>3. SUFFICES ASSUME NEW c \in Reserved', NEW d \in Reserved',
                      IsFirst(c)', SameKey(c, d), c # d
               PROVE  Latest(c)' \in RetryableStates
  BY <1>2 DEF SameKey
<1>4. Reserved \subseteq Calls
  BY DEF Reserved
<1>5. ASSUME Reserved' = Reserved, UNCHANGED position PROVE Latest(c) \in RetryableStates
  BY <1>1, <1>3, <1>5 DEF IsFirst, SameKey
<1>6. ASSUME NEW b \in Calls, Admits(b) PROVE Latest(c)' \in RetryableStates
  <2>1. /\ b \notin Reserved /\ Reserved' = Reserved \cup {b}
        /\ \A e \in Calls : e # b => Latest(e)' = Latest(e)
    BY <1>6, AdmissionEffect
  <2>2. /\ position'[b] = Cardinality(Reserved) + 1 /\ Cardinality(Reserved) \in Nat
        /\ \A e \in Calls : e # b => position'[e] = position[e]
        /\ \A e \in Calls : position[e] \in Nat /\ position[e] <= Cardinality(Reserved)
    BY <1>6, Finiteness, FS_CardinalityType DEF Admits, PositionInv
  <2>3. ASSUME c = b PROVE FALSE
    <3>1. d \in Reserved /\ d # b
      BY <1>3, <2>1, <2>3
    <3>2. position'[c] <= position'[d]
      BY <1>3 DEF IsFirst, SameKey
    <3> QED BY <1>4, <2>2, <2>3, <3>1, <3>2
  <2>4. c \in Reserved /\ c # b /\ IsFirst(c)
    BY <1>3, <1>4, <2>1, <2>2, <2>3 DEF IsFirst, SameKey
  <2>5. CASE d # b
    <3>1. Latest(c) \in RetryableStates
      BY <1>1, <1>3, <2>1, <2>4, <2>5
    <3> QED BY <1>4, <2>1, <2>4, <3>1
  <2>6. CASE d = b
    <3>1. CheckDuplicate(call[b])
      BY <1>6 DEF Admits, Admissible
    <3>2. c \in SameEvidence(call[b]) /\ \A e \in SameEvidence(call[b]) : position[c] <= position[e]
      BY <1>3, <2>4, <2>6 DEF SameEvidence, IsFirst, SameKey
    <3>3. Latest(c) \in RetryableStates
      BY <3>1, <3>2 DEF CheckDuplicate
    <3> QED BY <1>4, <2>1, <2>4, <3>3
  <2> QED BY <2>5, <2>6
<1>7. ASSUME NEW b \in Calls, Proceeds(b) PROVE Latest(c)' \in RetryableStates
  <2>1. /\ Reserved' = Reserved /\ UNCHANGED position /\ Latest(b) \in {"reserved", "running"}
        /\ \A e \in Calls : e # b => Latest(e)' = Latest(e)
    BY <1>7, ProgressEffect DEF Proceeds
  <2>2. Latest(c) \in RetryableStates
    BY <1>5, <2>1
  <2> QED BY <1>3, <1>4, <2>1, <2>2 DEF RetryableStates
<1>8. CASE UNCHANGED <<history, position>>
  <2>1. Reserved' = Reserved /\ UNCHANGED position /\ \A e \in Calls : Latest(e)' = Latest(e)
    BY <1>8, QuietEffect
  <2> QED BY <1>3, <1>4, <1>5, <2>1
<1> QED BY <1>6, <1>7, <1>8 DEF LedgerMoves

\* The first call with some evidence is tried again only after it failed or was
\* cancelled, by however many brokers at once.
THEOREM RetriesFollowFailures == Spec => []OnlyFailedEvidenceIsRetried
<1>1. Init => OnlyFailedEvidenceIsRetried
  BY DEF Init, Reserved, OnlyFailedEvidenceIsRetried
<1>2. PlaceInv /\ PositionInv /\ OnlyFailedEvidenceIsRetried /\ [Next]_vars
        => OnlyFailedEvidenceIsRetried'
  BY PlaceStep, EvidenceStep
<1> QED BY <1>1, <1>2, PlaceCorrect, PositionsCorrect, PTL DEF Spec

=============================================================================
