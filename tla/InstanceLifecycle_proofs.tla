----------------------- MODULE InstanceLifecycle_proofs -----------------------
(***************************************************************************)
(* Proofs about InstanceLifecycle, for any sets of callers and instances.  *)
(***************************************************************************)
EXTENDS InstanceLifecycle, TLAPS

(* A call that moves on keeps its verb and its instance; no other call     *)
(* changes (Move, the intermediate steps of every verb).                   *)
LEMMA MoveKeeps ==
  ASSUME TypeOK, NEW c \in Callers, NEW place \in Places, NEW r \in Rows,
         Move(c, place, r)
  PROVE  /\ call' \in [Callers -> Calls]
         /\ call'[c].verb = call[c].verb
         /\ call'[c].inst = call[c].inst
         /\ call'[c].at = place
         /\ call'[c].copy = r
         /\ \A d \in Callers \ {c} : call'[d] = call[d]
<1>1. call[c] \in Calls
  BY DEF TypeOK
<1>2. [verb |-> call[c].verb, inst |-> call[c].inst, at |-> place, copy |-> r] \in Calls
  BY <1>1 DEF Calls
<1>3. QED
  BY <1>2 DEF Move, TypeOK

(* A call that returns leaves its caller idle and no other call changed.   *)
LEMMA ReturnKeeps ==
  ASSUME TypeOK, NEW c \in Callers, Return(c)
  PROVE  /\ call' \in [Callers -> Calls]
         /\ call'[c] = Idle
         /\ \A d \in Callers \ {c} : call'[d] = call[d]
<1>1. Idle \in Calls
  BY DEF Idle, Calls, Places, Absent, Rows
<1>2. QED
  BY <1>1 DEF Return, TypeOK

(* Idle is idle (the fields an idle caller shows the other definitions).   *)
LEMMA IdleFields ==
  /\ Idle.at = "idle"
  /\ Idle.verb = "none"
  /\ Idle.copy.state = "absent"
BY DEF Idle, Absent

(* store.Update never creates or drops a row, and stays within the table.  *)
LEMMA WriteKeeps ==
  ASSUME TypeOK, NEW i \in Instances, NEW r \in Rows, r.state # "absent",
         Write(i, r)
  PROVE  /\ row' \in [Instances -> Rows]
         /\ \A j \in Instances : Present(j)' <=> Present(j)
         /\ \A j \in Instances : row'[j] = row[j] \/ row'[j] = r
BY DEF Write, Present, TypeOK, Rows

(* History accumulates (Note), but for what Recall takes back.             *)
LEMMA NoteKeeps ==
  ASSUME TypeOK, NEW i \in Instances, NEW fault \in Faults, Note(i, fault)
  PROVE  /\ history' \in [Instances -> SUBSET Faults]
         /\ fault \in history'[i]
         /\ \A j \in Instances : (history[j] \ {"woken"}) \subseteq history'[j]
         /\ fault # "kept" => \A j \in Instances : "kept" \in history'[j] => "kept" \in history[j]
BY DEF Note, TypeOK

(* The two ways a caller leaves a place both keep the calls well typed.     *)
CallsTyped ==
    /\ call \in [Callers -> Calls]
    /\ \A c \in Callers : call[c].at # "idle" => call[c].inst \in Instances

(* Moving on, or returning, leaves every call in flight on an instance.    *)
LEMMA CallsStayTyped ==
  ASSUME TypeOK, NEW c \in Callers,
         \/ Return(c)
         \/ call[c].inst \in Instances /\ \E place \in Places, r \in Rows : Move(c, place, r)
  PROVE  CallsTyped'
<1>1. CASE Return(c)
  BY <1>1, ReturnKeeps, IdleFields DEF CallsTyped, TypeOK
<1>2. ASSUME NEW place \in Places, NEW r \in Rows, Move(c, place, r), call[c].inst \in Instances
      PROVE  CallsTyped'
  BY <1>2, MoveKeeps DEF CallsTyped, TypeOK
<1>3. QED
  BY <1>1, <1>2

(* A provider's answer touches the project, the history and the budget.    *)
LEMMA AskKeeps ==
  ASSUME TypeOK, NEW c \in Callers, call[c].inst \in Instances, NEW verb,
         NEW ok \in BOOLEAN, NEW after \in Powers, Ask(c, verb, ok, after)
  PROVE  /\ backend' = [backend EXCEPT ![call[c].inst] = after]
         /\ backend' \in [Instances -> Powers]
         /\ history' \in [Instances -> SUBSET Faults]
         /\ \A j \in Instances : (history[j] \ {"woken"}) \subseteq history'[j]
         /\ \A j \in Instances : "kept" \in history'[j] => "kept" \in history[j]
         /\ mishaps' \in Nat
         /\ UNCHANGED <<row, registered, minted, deletions>>
<1>1. mishaps' \in Nat
  BY DEF Ask, Provider, TypeOK
<1>2. history' \in [Instances -> SUBSET Faults] /\ \A j \in Instances : (history[j] \ {"woken"}) \subseteq history'[j]
  BY DEF Ask, Recall, Faults, TypeOK
<1>3. \A j \in Instances : "kept" \in history'[j] => "kept" \in history[j]
  BY DEF Ask, Recall, TypeOK
<1>4. QED
  BY <1>1, <1>2, <1>3 DEF Ask, TypeOK

(* A call to the provider keeps the types once the calls are seen to.      *)
LEMMA AskTypes ==
  ASSUME TypeOK, CallsTyped', NEW c \in Callers, call[c].inst \in Instances, NEW verb,
         NEW ok \in BOOLEAN, NEW after \in Powers, Ask(c, verb, ok, after)
  PROVE  TypeOK'
<1>1. /\ backend' \in [Instances -> Powers]
      /\ history' \in [Instances -> SUBSET Faults]
      /\ mishaps' \in Nat
      /\ UNCHANGED <<row, registered, minted, deletions>>
  BY AskKeeps
<1>2. QED
  BY <1>1 DEF CallsTyped, TypeOK

(* Once the row is loaded, the call works on a minted instance's ID.       *)
LEMMA BusyCall ==
  ASSUME TypeOK, NEW c \in Callers, call[c].at # "idle"
  PROVE  call[c].inst \in Instances /\ call[c].copy \in Rows /\ call[c] # Idle
BY IdleFields DEF TypeOK, Calls

LEMMA InitType == Init => TypeOK
BY LifecycleAssumption DEF Init, TypeOK, Rows, Absent, States, Powers, Calls, Idle, Places

(* Every step keeps the tables and the calls within their types.           *)
LEMMA TypeStep == TypeOK /\ [Next]_vars => TypeOK'
<1> SUFFICES ASSUME TypeOK, [Next]_vars PROVE TypeOK'
  OBVIOUS
<1> USE DEF Places, Verbs, States, Faults
<1>1. ASSUME NEW c \in Callers, NEW i \in Instances, NEW verb \in Verbs, Load(c, verb, i)
      PROVE  TypeOK'
  BY <1>1 DEF Load, TypeOK, Calls
<1>2. ASSUME NEW c \in Callers, NEW i \in Instances, CreateInsert(c, i)
      PROVE  TypeOK'
  BY <1>2 DEF CreateInsert, TypeOK, Calls, Rows
<1>3. ASSUME NEW c \in Callers, CreateProvision(c)
      PROVE  TypeOK'
  <2>1. PICK ok \in BOOLEAN, after \in Powers :
           /\ Ask(c, "Provision", ok, after)
           /\ IF ok THEN Goto(c, "acted", "Running") ELSE Goto(c, "failing", "Failed")
    BY <1>3 DEF CreateProvision
  <2>2. call[c].inst \in Instances /\ call[c].copy \in Rows
    BY <1>3, BusyCall DEF CreateProvision, At
  <2>3. \E place \in Places, r \in Rows : Move(c, place, r)
    BY <2>1, <2>2 DEF Goto, InState, Rows
  <2>4. CallsTyped'
    BY <2>2, <2>3, CallsStayTyped
  <2>5. QED
    BY <2>1, <2>2, <2>4, AskTypes
<1>4. ASSUME NEW c \in Callers, NEW verb, NEW s \in States, Mark(c, verb, s)
      PROVE  TypeOK'
  <2>1. call[c].inst \in Instances /\ call[c].copy \in Rows
    BY <1>4, BusyCall DEF Mark, At
  <2>2. InState(call[c].copy, s) \in Rows /\ InState(call[c].copy, s).state = s
    BY <2>1 DEF InState, Rows
  <2>3. CASE Present(call[c].inst)
    BY <1>4, <2>1, <2>2, <2>3, WriteKeeps, MoveKeeps DEF Mark, Goto, TypeOK
  <2>4. CASE ~Present(call[c].inst)
    BY <1>4, <2>4, ReturnKeeps, IdleFields DEF Mark, TypeOK
  <2>5. QED
    BY <2>3, <2>4
<1>5. ASSUME NEW c \in Callers, NEW verb, NEW goal \in States, RunVerb(c, verb, goal),
             call[c].at # "idle"
      PROVE  TypeOK'
  <2>1. PICK ok \in BOOLEAN, after \in Powers :
           /\ Ask(c, verb, ok, after)
           /\ IF ok THEN Goto(c, "acted", goal) ELSE Goto(c, "failing", "Failed")
    BY <1>5 DEF RunVerb
  <2>2. call[c].inst \in Instances /\ call[c].copy \in Rows
    BY <1>5, BusyCall
  <2>3. \E place \in Places, r \in Rows : Move(c, place, r)
    BY <2>1, <2>2 DEF Goto, InState, Rows
  <2>4. CallsTyped'
    BY <2>2, <2>3, CallsStayTyped
  <2>5. QED
    BY <2>1, <2>2, <2>4, AskTypes
<1>6. ASSUME NEW c \in Callers, NEW verb, NEW r \in Rows, RunOrReturn(c, verb, r)
      PROVE  TypeOK'
  <2>1. PICK ok \in BOOLEAN, after \in Powers :
           /\ Ask(c, verb, ok, after)
           /\ IF ok THEN Move(c, "acted", r) ELSE Return(c)
    BY <1>6 DEF RunOrReturn
  <2>2. call[c].inst \in Instances
    BY <1>6, BusyCall DEF RunOrReturn, At
  <2>3. CallsTyped'
    BY <2>1, <2>2, CallsStayTyped
  <2>4. QED
    BY <2>1, <2>2, <2>3, AskTypes
<1>7. ASSUME NEW c \in Callers, LookupFails(c)
      PROVE  TypeOK'
  <2>1. call[c].inst \in Instances
    BY <1>7, BusyCall DEF LookupFails, At
  <2>2. QED
    BY <1>7, <2>1, NoteKeeps, ReturnKeeps, IdleFields DEF LookupFails, TypeOK
<1>8. ASSUME NEW c \in Callers, NoProvider(c)
      PROVE  TypeOK'
  BY <1>8, ReturnKeeps, IdleFields DEF NoProvider, TypeOK
<1>9. ASSUME NEW c \in Callers, NEW r \in Rows, Write(call[c].inst, r), Return(c),
             call[c].at # "idle", r = call[c].copy \/ r.state # "absent",
             UNCHANGED <<backend, registered, minted, deletions, history, mishaps>>
      PROVE  TypeOK'
  <2>1. call[c].inst \in Instances
    BY <1>9, BusyCall
  <2>2. row' \in [Instances -> Rows]
    BY <1>9, <2>1 DEF Write, TypeOK
  <2>3. QED
    BY <1>9, <2>2, ReturnKeeps, IdleFields DEF TypeOK
<1>10. ASSUME NEW c \in Callers, DeleteMark(c)
       PROVE  TypeOK'
  <2>1. call[c].inst \in Instances /\ call[c].copy \in Rows
    BY <1>10, BusyCall DEF DeleteMark, At
  <2>2. PICK place \in {"drop", "marked"}, s \in States : Goto(c, place, s)
    BY <1>10 DEF DeleteMark
  <2>3. InState(call[c].copy, s) \in Rows /\ InState(call[c].copy, "Destroying") \in Rows
        /\ InState(call[c].copy, "Destroying").state # "absent"
    BY <2>1 DEF InState, Rows
  <2>4. row' \in [Instances -> Rows]
    BY <1>10, <2>1, <2>3, WriteKeeps DEF DeleteMark, TypeOK
  <2>5. mishaps' \in Nat
    BY <1>10 DEF DeleteMark, TypeOK
  <2>6. QED
    BY <1>10, <2>1, <2>2, <2>3, <2>4, <2>5, MoveKeeps DEF DeleteMark, Goto, TypeOK
<1>11. ASSUME NEW c \in Callers, DeleteDeprovision(c)
       PROVE  TypeOK'
  <2>1. call[c].inst \in Instances /\ call[c].copy \in Rows
    BY <1>11, BusyCall DEF DeleteDeprovision, At
  <2>2. PICK place \in {"drop", "failing"}, s \in States : Goto(c, place, s)
    BY <1>11 DEF DeleteDeprovision
  <2>3. InState(call[c].copy, s) \in Rows
    BY <2>1 DEF InState, Rows
  <2>4. history' \in [Instances -> SUBSET Faults]
    BY <1>11, <2>1, NoteKeeps DEF DeleteDeprovision, TypeOK
  <2>5. mishaps' \in Nat /\ backend' \in [Instances -> Powers]
    BY <1>11, <2>1 DEF DeleteDeprovision, Provider, TypeOK
  <2>6. QED
    BY <1>11, <2>1, <2>2, <2>3, <2>4, <2>5, MoveKeeps DEF DeleteDeprovision, Goto, TypeOK
<1>12. ASSUME NEW c \in Callers, DeleteDisown(c)
       PROVE  TypeOK'
  <2>1. call[c].inst \in Instances
    BY <1>12, BusyCall DEF DeleteDisown, At
  <2>2. row' \in [Instances -> Rows] /\ deletions' \in [Instances -> Nat] /\ mishaps' \in Nat
    <3>1. row' \in [Instances -> Rows]
      <4>1. row' = row \/ row' = [row EXCEPT ![call[c].inst] = Absent]
        BY <1>12 DEF DeleteDisown
      <4>2. Absent \in Rows /\ row \in [Instances -> Rows]
        BY DEF Absent, Rows, TypeOK
      <4>3. QED
        BY <4>1, <4>2
    <3>2. deletions' \in [Instances -> Nat] /\ mishaps' \in Nat
      BY <1>12, <2>1 DEF DeleteDisown, TypeOK
    <3>3. QED
      BY <3>1, <3>2
  <2>3. history' \in [Instances -> SUBSET Faults]
    <3>1. PICK more \in SUBSET Faults : history' = [history EXCEPT ![call[c].inst] = @ \cup more]
      BY <1>12 DEF DeleteDisown, Note
    <3>2. QED
      BY <3>1 DEF TypeOK
  <2>4. call' \in [Callers -> Calls] /\ call'[c] = Idle /\ \A d \in Callers \ {c} : call'[d] = call[d]
    BY <1>12, ReturnKeeps DEF DeleteDisown
  <2>5. QED
    BY <1>12, <2>2, <2>3, <2>4, IdleFields DEF DeleteDisown, TypeOK
<1>13. ASSUME NEW c \in Callers, DeleteDrop(c)
       PROVE  TypeOK'
  <2>1. call[c].inst \in Instances
    BY <1>13, BusyCall DEF DeleteDrop, At
  <2>2. row' \in [Instances -> Rows]
    BY <1>13 DEF DeleteDrop, TypeOK, Absent, Rows
  <2>3. deletions' \in [Instances -> Nat]
    BY <1>13, <2>1 DEF DeleteDrop, TypeOK
  <2>4. QED
    BY <1>13, <2>2, <2>3, ReturnKeeps, IdleFields DEF DeleteDrop, TypeOK
<1>14. ASSUME NEW c \in Callers, Interrupt(c)
       PROVE  TypeOK'
  <2>1. mishaps' \in Nat
    BY <1>14 DEF Interrupt, TypeOK
  <2>2. history' \in [Instances -> SUBSET Faults]
    BY <1>14 DEF Interrupt, Note, TypeOK
  <2>3. QED
    BY <1>14, <2>1, <2>2, ReturnKeeps, IdleFields DEF Interrupt, TypeOK
<1>15. ASSUME Reboot
       PROVE  TypeOK'
  <2>1. call' \in [Callers -> Calls] /\ \A c \in Callers : call'[c].at = "idle"
    BY <1>15 DEF Reboot, Idle, Calls, Absent, Rows
  <2>2. QED
    BY <1>15, <2>1 DEF Reboot, TypeOK
<1>16. ASSUME NEW c \in Callers, Settle(c) \/ SettleFailed(c) \/ ActUpdate(c)
       PROVE  TypeOK'
  <2>1. call[c].copy \in Rows /\ call[c].at # "idle"
    BY <1>16, BusyCall DEF Settle, SettleFailed, ActUpdate, At
  <2>2. InState(call[c].copy, "Failed") \in Rows /\ InState(call[c].copy, "Failed").state # "absent"
    BY <2>1 DEF InState, Rows
  <2>3. QED
    BY <1>9, <1>16, <2>1, <2>2 DEF Settle, SettleFailed, ActUpdate
<1>17. ASSUME NEW c \in Callers, Begin(c)
       PROVE  TypeOK'
  BY <1>1, <1>2, <1>17 DEF Begin, BeginStart, BeginStop, BeginDelete, BeginUnchecked
<1>18. ASSUME NEW c \in Callers, Advance(c)
       PROVE  TypeOK'
  <2>1. ASSUME ActSuspend(c) \/ ActUnsuspend(c) \/ ActScale(c)
        PROVE  TypeOK'
    <3>1. [state |-> "Stopped", suspended |-> TRUE] \in Rows
          /\ [state |-> "Running", suspended |-> FALSE] \in Rows
          /\ call[c].copy \in Rows
      BY DEF Rows, TypeOK, Calls
    <3>2. QED
      BY <1>6, <2>1, <3>1 DEF ActSuspend, ActUnsuspend, ActScale
  <2>2. ASSUME MarkStart(c) \/ MarkStop(c)
        PROVE  TypeOK'
    BY <1>4, <2>2 DEF MarkStart, MarkStop
  <2>3. ASSUME ActStart(c) \/ ActStop(c) \/ ActRestart(c)
        PROVE  TypeOK'
    BY <1>5, <2>3 DEF ActStart, ActStop, ActRestart, At
  <2>4. QED
    BY <1>3, <1>7, <1>8, <1>10, <1>11, <1>12, <1>13, <1>16, <1>18, <2>1, <2>2, <2>3 DEF Advance
<1>19. CASE UNCHANGED vars
  BY <1>19 DEF TypeOK, vars
<1>20. QED
  BY <1>14, <1>15, <1>17, <1>18, <1>19 DEF Next

(* Type correctness: the rows, projects and calls of every behaviour.      *)
THEOREM TypeCorrect == Spec => []TypeOK
<1>1. QED
  BY InitType, TypeStep, PTL DEF Spec

-----------------------------------------------------------------------------
(* The inductive invariant.  Most steps neither create nor drop a row, and *)
(* touch one project only; they are the steps of CallerStep.  The others   *)
(* are Load, CreateInsert, DeleteDisown, DeleteDrop and Reboot.            *)

(* A verb other than Provision leaves a missing project missing.           *)
LEMMA NothingFromNothing ==
  ASSUME TypeOK, NEW i \in Instances, NEW verb, verb # "Provision", NEW ok \in BOOLEAN,
         NEW after \in Powers, Provider(verb, i, ok, after), backend[i] = "none"
  PROVE  after = "none"
<1>1. Full(verb, backend[i]) = "none"
  BY DEF Full
<1>2. Goals(verb, backend[i]) = {"none"}
  BY <1>1 DEF Goals, Wakes
<1>3. Partial(verb, backend[i]) = {"none"}
  BY <1>2 DEF Partial
<1>4. QED
  BY <1>2, <1>3 DEF Provider

(* A step of one caller on its instance i that creates and drops no row.   *)
LEMMA CallerStep ==
  ASSUME IInv, TypeOK', NEW c \in Callers, NEW i, i = call[c].inst,
         UNCHANGED <<minted, deletions>>,
         \A j \in Instances : Present(j)' <=> Present(j),
         \A j \in Instances : row'[j].state # "Destroyed",
         \A j \in Instances : (history[j] \ {"woken"}) \subseteq history'[j],
         \A j \in Instances : "kept" \in history'[j] => "kept" \in history[j],
         \A j \in Instances \ {i} : backend'[j] = backend[j],
         backend[i] = "none" => backend'[i] = "none" \/ At(c, "Create", "inserted"),
         \A d \in Callers \ {c} : call'[d] = call[d],
         \/ call'[c] = Idle
         \/ /\ call'[c].inst = i
            /\ call[c].at # "idle"
            /\ call'[c].at # "inserted"
            /\ call'[c].copy.state \notin {"absent", "Destroyed"}
            /\ call'[c].at = "drop" => Secured(i)',
         backend'[i] # backend[i] => call[c].at # "idle"
  PROVE  IInv'
<1> USE DEF IInv
<1>1. \A j \in Instances : Secured(j) => Secured(j)'
  <2> SUFFICES ASSUME NEW j \in Instances, Secured(j) PROVE Secured(j)'
    OBVIOUS
  <2>1. CASE Lost(j)
    BY <2>1 DEF Lost, Secured
  <2>2. CASE Quiet(j)
    <3>1. backend'[j] = "none"
      BY <2>2 DEF Quiet
    <3>2. ASSUME NEW d \in Callers, At(d, "Create", "inserted")' PROVE call'[d].inst # j
      BY <2>2, <3>2, IdleFields DEF Quiet, At
    <3>3. QED
      BY <3>1, <3>2 DEF Quiet, Secured
  <2>3. QED
    BY <2>1, <2>2 DEF Secured
<1>2. OnlyMinted'
  <2>1. call[c].at # "idle" => i \in minted
    BY DEF OnlyMinted
  <2>2. ASSUME NEW j \in Instances, Present(j)' \/ backend'[j] # "none" PROVE j \in minted'
    BY <2>1, <2>2 DEF OnlyMinted
  <2>3. ASSUME NEW d \in Callers, call'[d].at # "idle" PROVE call'[d].inst \in minted' /\ call'[d].copy.state # "absent"
    BY <2>1, <2>3, IdleFields DEF OnlyMinted
  <2>4. QED
    BY <2>2, <2>3 DEF OnlyMinted
<1>3. NeverDestroyed'
  BY IdleFields DEF NeverDestroyed
<1>4. DropSecured'
  <2> SUFFICES ASSUME NEW d \in Callers, At(d, "Delete", "drop")' PROVE Secured(call[d].inst)'
    BY DEF DropSecured
  <2>1. CASE d = c
    BY <2>1, IdleFields DEF At, Secured, Lost, Quiet
  <2>2. CASE d # c
    <3>1. At(d, "Delete", "drop") /\ call'[d].inst = call[d].inst /\ call[d].inst \in Instances
      BY <2>2, BusyCall DEF At
    <3>2. Secured(call[d].inst)
      BY <3>1 DEF DropSecured
    <3>3. QED
      BY <1>1, <3>1, <3>2 DEF Secured, Lost, Quiet
  <2>3. QED
    BY <2>1, <2>2
<1>5. GoneSecured'
  BY <1>1 DEF GoneSecured
<1>6. DeletedOnce'
  <2> SUFFICES ASSUME NEW j \in Instances
               PROVE  /\ deletions'[j] > 1 => "disowned" \in history'[j]
                      /\ deletions'[j] > 0 /\ Present(j)' => "kept" \in history'[j]
                      /\ deletions'[j] > 0 => j \in minted'
                      /\ "kept" \in history'[j] => "disowned" \in history'[j]
    BY DEF DeletedOnce, DeletionFinal
  <2>1. (Present(j)' <=> Present(j)) /\ deletions'[j] = deletions[j] /\ minted' = minted
    OBVIOUS
  <2>2. /\ "disowned" \in history[j] => "disowned" \in history'[j]
        /\ "kept" \in history[j] <=> "kept" \in history'[j]
    OBVIOUS
  <2>3. QED
    BY <2>1, <2>2 DEF DeletedOnce, DeletionFinal
<1>7. QED
  BY <1>2, <1>3, <1>4, <1>5, <1>6

(* A step that drops i's row, or fails to, when nothing is lost with it.   *)
LEMMA DropStep ==
  ASSUME IInv, TypeOK', NEW c \in Callers, NEW i \in Instances, i \in minted,
         UNCHANGED <<minted, backend>>,
         row' = row \/ row' = [row EXCEPT ![i] = Absent],
         DeletedOnce',
         \A j \in Instances : (history[j] \ {"woken"}) \subseteq history'[j],
         Return(c),
         Secured(i)'
  PROVE  IInv'
<1> USE DEF IInv
<1>1. /\ call'[c] = Idle
      /\ \A d \in Callers \ {c} : call'[d] = call[d]
  BY ReturnKeeps
<1>2. \A j \in Instances : Secured(j) => Secured(j)'
  BY <1>1, IdleFields DEF Secured, Lost, Quiet, At
<1>3. \A j \in Instances : (Present(j)' => Present(j)) /\ (j # i => (Present(j)' <=> Present(j)))
  BY DEF Present, Absent, TypeOK
<1>4. OnlyMinted'
  BY <1>1, <1>3, IdleFields DEF OnlyMinted
<1>5. NeverDestroyed'
  BY <1>1, IdleFields DEF NeverDestroyed, Absent, TypeOK
<1>6. DropSecured'
  <2> SUFFICES ASSUME NEW d \in Callers, At(d, "Delete", "drop")' PROVE Secured(call[d].inst)'
    BY DEF DropSecured
  <2>1. call'[d] = call[d] /\ At(d, "Delete", "drop") /\ call[d].inst \in Instances
    BY <1>1, IdleFields, BusyCall DEF At
  <2>2. Secured(call[d].inst)
    BY <2>1 DEF DropSecured
  <2>3. QED
    BY <1>2, <2>1, <2>2 DEF Secured, Lost, Quiet
<1>7. GoneSecured'
  BY <1>2, <1>3 DEF GoneSecured
<1>8. QED
  BY <1>4, <1>5, <1>6, <1>7

(* The invariant holds at the start.                                       *)
LEMMA InitInv == Init => IInv
<1> SUFFICES ASSUME Init PROVE IInv
  OBVIOUS
<1>1. TypeOK
  BY InitType
<1>2. \A c \in Callers : call[c] = Idle
  BY DEF Init
<1>3. \A i \in Instances : Present(i) <=> i \in minted
  BY DEF Init, Present, Absent
<1>4. OnlyMinted
  BY <1>2, <1>3, IdleFields DEF Init, OnlyMinted
<1>5. NeverDestroyed
  BY <1>2, IdleFields DEF Init, NeverDestroyed, Absent
<1>6. DropSecured
  BY <1>2, IdleFields DEF DropSecured, At
<1>7. GoneSecured /\ DeletedOnce
  BY <1>3 DEF Init, GoneSecured, DeletedOnce, DeletionFinal
<1>8. QED
  BY <1>1, <1>4, <1>5, <1>6, <1>7 DEF IInv

(* Asking the provider for a verb of a live instance (Create's Provision   *)
(* and every verb that cannot bring a project into being).                 *)
LEMMA AskStep ==
  ASSUME IInv, TypeOK', NEW c \in Callers, call[c].at # "idle", NEW verb,
         verb = "Provision" => At(c, "Create", "inserted"),
         NEW ok \in BOOLEAN, NEW after \in Powers, Ask(c, verb, ok, after),
         \/ Return(c)
         \/ \E place \in {"acted", "failing"}, r \in Rows :
               Move(c, place, r) /\ r.state \notin {"absent", "Destroyed"}
  PROVE  IInv'
<1> DEFINE i == call[c].inst
<1>1. TypeOK /\ i \in Instances /\ call[c].inst \in Instances
  BY BusyCall DEF IInv
<1>2. /\ backend' = [backend EXCEPT ![i] = after]
      /\ \A j \in Instances : (history[j] \ {"woken"}) \subseteq history'[j]
      /\ \A j \in Instances : "kept" \in history'[j] => "kept" \in history[j]
      /\ UNCHANGED <<row, registered, minted, deletions>>
  <2>1. /\ \A j \in Instances : (history[j] \ {"woken"}) \subseteq history'[j]
        /\ \A j \in Instances : "kept" \in history'[j] => "kept" \in history[j]
    BY <1>1, AskKeeps, Zenon
  <2>2. /\ backend' = [backend EXCEPT ![i] = after]
        /\ UNCHANGED <<row, registered, minted, deletions>>
    BY <1>1 DEF Ask
  <2>3. QED
    BY <2>1, <2>2
<1>3. backend[i] = "none" => backend'[i] = "none" \/ At(c, "Create", "inserted")
  <2>1. CASE verb # "Provision"
    BY <1>1, <1>2, <2>1, NothingFromNothing DEF Ask, TypeOK
  <2>2. QED
    BY <2>1
<1>4. /\ \A j \in Instances \ {i} : backend'[j] = backend[j]
      /\ \A j \in Instances : Present(j)' <=> Present(j)
      /\ \A j \in Instances : row'[j].state # "Destroyed"
  BY <1>1, <1>2 DEF TypeOK, Present, IInv, NeverDestroyed
<1>5. /\ \A d \in Callers \ {c} : call'[d] = call[d]
      /\ \/ call'[c] = Idle
         \/ /\ call'[c].inst = i
            /\ call'[c].at \in {"acted", "failing"}
            /\ call'[c].copy.state \notin {"absent", "Destroyed"}
  BY <1>1, ReturnKeeps, MoveKeeps DEF Places
<1>6. QED
  BY <1>2, <1>3, <1>4, <1>5, CallerStep

(* Writing the caller's row and going on, or returning.                    *)
LEMMA WriteStep ==
  ASSUME IInv, TypeOK', NEW c \in Callers, call[c].at # "idle",
         UNCHANGED <<backend, minted, deletions, history>>,
         row' = row \/ \E r \in Rows : /\ Write(call[c].inst, r)
                                      /\ r.state \notin {"absent", "Destroyed"},
         \/ Return(c)
         \/ \E r \in Rows : Move(c, "marked", r) /\ r.state \notin {"absent", "Destroyed"}
  PROVE  IInv'
<1> DEFINE i == call[c].inst
<1>1. TypeOK /\ i \in Instances
  BY BusyCall DEF IInv
<1>2. /\ \A j \in Instances : Present(j)' <=> Present(j)
      /\ \A j \in Instances : row'[j].state # "Destroyed"
  BY <1>1, WriteKeeps DEF Present, IInv, NeverDestroyed
<1>3. /\ \A d \in Callers \ {c} : call'[d] = call[d]
      /\ \/ call'[c] = Idle
         \/ /\ call'[c].inst = i
            /\ call'[c].at = "marked"
            /\ call'[c].copy.state \notin {"absent", "Destroyed"}
  BY <1>1, ReturnKeeps, MoveKeeps DEF Places
<1>4. QED
  BY <1>2, <1>3, CallerStep

(* The states a verb moves its row to are neither absent nor Destroyed.    *)
LEMMA InStateSettled ==
  ASSUME NEW r \in Rows, NEW s \in States \ {"Destroyed"}
  PROVE  InState(r, s) \in Rows /\ InState(r, s).state \notin {"absent", "Destroyed"}
BY DEF InState, Rows, States

(* Every step preserves the invariant.                                     *)
LEMMA InvStep == IInv /\ [Next]_vars => IInv'
<1> SUFFICES ASSUME IInv, [Next]_vars PROVE IInv'
  OBVIOUS
<1>1. TypeOK /\ TypeOK'
  BY TypeStep DEF IInv
<1>2. ASSUME NEW c \in Callers, NEW i \in Instances, NEW verb \in Verbs, Load(c, verb, i),
             verb # "Create"
      PROVE  IInv'
  <2>1. /\ call'[c].inst = i /\ call'[c].at = "loaded" /\ call'[c].copy = row[i]
        /\ \A d \in Callers \ {c} : call'[d] = call[d]
        /\ UNCHANGED <<row, backend, minted, deletions, history>>
    BY <1>1, <1>2 DEF Load, TypeOK
  <2>2. OnlyMinted' /\ NeverDestroyed'
    BY <1>2, <2>1 DEF Load, OnlyMinted, NeverDestroyed, Present, IInv
  <2>3. \A j \in Instances : (Secured(j) => Secured(j)') /\ (Present(j)' <=> Present(j))
    BY <2>1 DEF Secured, Lost, Quiet, At, Present
  <2>4. DropSecured'
    <3> SUFFICES ASSUME NEW d \in Callers, At(d, "Delete", "drop")' PROVE Secured(call[d].inst)'
      BY DEF DropSecured
    <3>1. call'[d] = call[d] /\ At(d, "Delete", "drop") /\ call[d].inst \in Instances
      BY <1>1, <2>1, BusyCall DEF At
    <3>2. Secured(call[d].inst)
      BY <3>1 DEF DropSecured, IInv
    <3>3. QED
      BY <2>3, <3>1, <3>2 DEF Secured, Lost, Quiet
  <2>5. GoneSecured' /\ DeletedOnce'
    BY <2>1, <2>3 DEF GoneSecured, DeletedOnce, DeletionFinal, IInv
  <2>6. QED
    BY <1>1, <2>2, <2>4, <2>5 DEF IInv
<1>3. ASSUME NEW c \in Callers, NEW i \in Instances, CreateInsert(c, i)
      PROVE  IInv'
  <2>1. /\ call'[c].inst = i /\ call'[c].at = "inserted" /\ call'[c].verb = "Create"
        /\ call'[c].copy.state = "Provisioning"
        /\ \A d \in Callers \ {c} : call'[d] = call[d]
        /\ UNCHANGED <<backend, deletions, history>>
        /\ minted' = minted \cup {i} /\ i \notin minted
        /\ row'[i].state = "Provisioning" /\ \A j \in Instances \ {i} : row'[j] = row[j]
    BY <1>1, <1>3 DEF CreateInsert, TypeOK
  <2>2. OnlyMinted' /\ NeverDestroyed'
    BY <2>1 DEF OnlyMinted, NeverDestroyed, Present, IInv
  <2>3. /\ \A j \in Instances \ {i} : Secured(j) => Secured(j)'
        /\ \A j \in Instances \ {i} : Present(j)' <=> Present(j)
        /\ Present(i)'
    BY <2>1 DEF Secured, Lost, Quiet, At, Present
  <2>4. DropSecured'
    <3> SUFFICES ASSUME NEW d \in Callers, At(d, "Delete", "drop")' PROVE Secured(call[d].inst)'
      BY DEF DropSecured
    <3>1. call'[d] = call[d] /\ At(d, "Delete", "drop") /\ call[d].inst \in minted
          /\ call[d].inst \in Instances
      BY <1>1, <2>1, BusyCall DEF At, OnlyMinted, IInv
    <3>2. Secured(call[d].inst)
      BY <3>1 DEF DropSecured, IInv
    <3>3. QED
      BY <2>1, <2>3, <3>1, <3>2 DEF Secured, Lost, Quiet
  <2>5. GoneSecured' /\ DeletedOnce'
    BY <2>1, <2>3 DEF GoneSecured, DeletedOnce, DeletionFinal, IInv
  <2>6. QED
    BY <1>1, <2>2, <2>4, <2>5 DEF IInv
<1>4. ASSUME NEW c \in Callers, Begin(c)
      PROVE  IInv'
  BY <1>2, <1>3, <1>4 DEF Begin, BeginStart, BeginStop, BeginDelete, BeginUnchecked, Verbs
<1>5. ASSUME NEW c \in Callers, CreateProvision(c)
      PROVE  IInv'
  <2>1. PICK ok \in BOOLEAN, after \in Powers :
           /\ Ask(c, "Provision", ok, after)
           /\ IF ok THEN Goto(c, "acted", "Running") ELSE Goto(c, "failing", "Failed")
    BY <1>5 DEF CreateProvision
  <2>2. call[c].at # "idle" /\ call[c].copy \in Rows /\ At(c, "Create", "inserted")
    BY <1>1, <1>5, BusyCall DEF CreateProvision, At
  <2>3. \E place \in {"acted", "failing"}, r \in Rows :
           Move(c, place, r) /\ r.state \notin {"absent", "Destroyed"}
    BY <2>1, <2>2, InStateSettled DEF Goto, States
  <2>4. QED
    BY <1>1, <2>1, <2>2, <2>3, AskStep
<1>6. ASSUME NEW c \in Callers, NEW verb, verb # "Provision", NEW goal \in States \ {"Destroyed"},
             RunVerb(c, verb, goal), call[c].at # "idle"
      PROVE  IInv'
  <2>1. PICK ok \in BOOLEAN, after \in Powers :
           /\ Ask(c, verb, ok, after)
           /\ IF ok THEN Goto(c, "acted", goal) ELSE Goto(c, "failing", "Failed")
    BY <1>6 DEF RunVerb
  <2>2. call[c].copy \in Rows
    BY <1>1, <1>6, BusyCall
  <2>3. \E place \in {"acted", "failing"}, r \in Rows :
           Move(c, place, r) /\ r.state \notin {"absent", "Destroyed"}
    BY <2>1, <2>2, InStateSettled DEF Goto, States
  <2>4. QED
    BY <1>1, <1>6, <2>1, <2>3, AskStep
<1>7. ASSUME NEW c \in Callers, NEW verb, verb # "Provision", NEW r \in Rows,
             r.state \notin {"absent", "Destroyed"}, RunOrReturn(c, verb, r)
      PROVE  IInv'
  <2>1. PICK ok \in BOOLEAN, after \in Powers :
           /\ Ask(c, verb, ok, after)
           /\ IF ok THEN Move(c, "acted", r) ELSE Return(c)
    BY <1>7 DEF RunOrReturn
  <2>2. call[c].at # "idle"
    BY <1>7 DEF RunOrReturn, At
  <2>3. QED
    BY <1>1, <1>7, <2>1, <2>2, AskStep
<1>8. ASSUME NEW c \in Callers, NEW verb, NEW s \in States \ {"Destroyed"}, Mark(c, verb, s)
      PROVE  IInv'
  <2>1. call[c].at # "idle" /\ call[c].copy \in Rows
    BY <1>1, <1>8, BusyCall DEF Mark, At
  <2>2. InState(call[c].copy, s) \in Rows /\ InState(call[c].copy, s).state \notin {"absent", "Destroyed"}
    BY <2>1, InStateSettled
  <2>3. QED
    BY <1>1, <1>8, <2>1, <2>2, WriteStep DEF Mark, Goto
<1>9. ASSUME NEW c \in Callers, Settle(c) \/ SettleFailed(c) \/ ActUpdate(c) \/ NoProvider(c)
      PROVE  IInv'
  <2>1. call[c].at # "idle" /\ call[c].copy \in Rows /\ call[c].copy.state \notin {"absent", "Destroyed"}
    BY <1>1, <1>9, BusyCall
       DEF Settle, SettleFailed, ActUpdate, NoProvider, At, IInv, OnlyMinted, NeverDestroyed
  <2>2. InState(call[c].copy, "Failed") \in Rows
        /\ InState(call[c].copy, "Failed").state \notin {"absent", "Destroyed"}
    BY <2>1, InStateSettled DEF States
  <2>3. QED
    BY <1>1, <1>9, <2>1, <2>2, WriteStep DEF Settle, SettleFailed, ActUpdate, NoProvider
<1>10. ASSUME NEW c \in Callers, LookupFails(c) \/ Interrupt(c)
       PROVE  IInv'
  <2>1. /\ call'[c] = Idle
        /\ \A d \in Callers \ {c} : call'[d] = call[d]
        /\ UNCHANGED <<row, backend, minted, deletions>>
    BY <1>1, <1>10, ReturnKeeps DEF LookupFails, Interrupt
  <2>2. /\ \A j \in Instances : (history[j] \ {"woken"}) \subseteq history'[j]
        /\ \A j \in Instances : "kept" \in history'[j] => "kept" \in history[j]
    BY <1>1, <1>10 DEF LookupFails, Interrupt, Note, TypeOK
  <2>3. QED
    BY <1>1, <2>1, <2>2, CallerStep DEF Present, IInv, NeverDestroyed
<1>11. ASSUME NEW c \in Callers, DeleteMark(c)
       PROVE  IInv'
  <2>1. call[c].at # "idle" /\ call[c].copy \in Rows /\ call[c].copy.state # "Destroyed"
    BY <1>1, <1>11, BusyCall DEF DeleteMark, At, IInv, NeverDestroyed
  <2>2. InState(call[c].copy, "Destroying") \in Rows
        /\ InState(call[c].copy, "Destroying").state \notin {"absent", "Destroyed"}
    BY <2>1, InStateSettled DEF States
  <2>3. QED
    BY <1>1, <1>11, <2>1, <2>2, WriteStep DEF DeleteMark, Goto
<1>12. ASSUME NEW c \in Callers, DeleteDeprovision(c)
       PROVE  IInv'
  <2>1. At(c, "Delete", "marked") /\ call[c].at # "idle" /\ call[c].copy \in Rows
    BY <1>1, <1>12, BusyCall DEF DeleteDeprovision, At
  <2> PICK i \in Instances : i = call[c].inst
    BY <1>1, <2>1, BusyCall
  <2>2. PICK ok \in BOOLEAN, after \in Powers :
           /\ Provider("Deprovision", i, ok, after)
           /\ backend' = [backend EXCEPT ![i] = after]
           /\ IF ok
              THEN /\ Goto(c, "drop", "Destroying")
                   /\ IF Creating(i) THEN Note(i, "overtaken") ELSE history' = history
              ELSE Goto(c, "failing", "Failed") /\ Note(i, "erred")
    BY <1>12 DEF DeleteDeprovision
  <2>3. UNCHANGED <<row, minted, deletions>>
    BY <1>12 DEF DeleteDeprovision
  <2>4. /\ \A j \in Instances : (history[j] \ {"woken"}) \subseteq history'[j]
        /\ \A j \in Instances : "kept" \in history'[j] => "kept" \in history[j]
    BY <1>1, <2>1, <2>2, NoteKeeps DEF Faults
  <2>5. \A j \in Instances \ {i} : backend'[j] = backend[j]
    BY <1>1, <2>2 DEF TypeOK
  <2>6. backend[i] = "none" => backend'[i] = "none"
    BY <1>1, <2>1, <2>2, NothingFromNothing DEF TypeOK
  <2>7. PICK place \in {"drop", "failing"}, s \in States \ {"Destroyed"} :
           Goto(c, place, s) /\ (ok <=> place = "drop")
    BY <2>2 DEF States
  <2>8. InState(call[c].copy, s) \in Rows /\ InState(call[c].copy, s).state \notin {"absent", "Destroyed"}
    BY <2>1, <2>7, InStateSettled
  <2>9. /\ call'[c].at = place /\ call'[c].inst = i /\ call'[c].verb = "Delete"
        /\ call'[c].copy.state \notin {"absent", "Destroyed"}
        /\ \A d \in Callers \ {c} : call'[d] = call[d]
    BY <1>1, <2>1, <2>7, <2>8, MoveKeeps DEF Goto, Places, At
  <2>10. ok => Secured(i)'
    <3>1. CASE ok /\ Creating(i)
      BY <1>1, <2>1, <2>2, <3>1, NoteKeeps DEF Secured, Lost, Faults
    <3>2. CASE ok /\ ~Creating(i)
      <4>1. after = "none"
        BY <2>2, <3>2 DEF Provider, Goals, Wakes, Full
      <4>2. \A d \in Callers : At(d, "Create", "inserted")' => call'[d].inst # i
        BY <2>9, <3>2 DEF Creating, At
      <4>3. QED
        BY <1>1, <2>1, <2>2, <4>1, <4>2 DEF Secured, Quiet, TypeOK
    <3>3. QED
      BY <3>1, <3>2
  <2>11. QED
    BY <1>1, <2>1, <2>3, <2>4, <2>5, <2>6, <2>7, <2>9, <2>10, CallerStep
       DEF Present, IInv, NeverDestroyed
<1>13. ASSUME NEW c \in Callers, DeleteDisown(c)
       PROVE  IInv'
  <2>1. PICK i \in Instances : i = call[c].inst /\ i \in minted
    BY <1>1, <1>13, BusyCall DEF DeleteDisown, At, IInv, OnlyMinted
  <2>2. /\ \A j \in Instances : (history[j] \ {"woken"}) \subseteq history'[j]
        /\ "disowned" \in history'[i]
        /\ \A j \in Instances \ {i} : history'[j] = history[j]
        /\ Present(i)' => "kept" \in history'[i]
        /\ "kept" \in history[i] => "kept" \in history'[i]
    BY <1>1, <1>13, <2>1 DEF DeleteDisown, Note, Present, Absent, TypeOK
  <2>3. Secured(i)'
    BY <2>2 DEF Secured, Lost
  <2>4. DeletedOnce'
    <3> SUFFICES ASSUME NEW j \in Instances
                 PROVE  /\ deletions'[j] > 1 => "disowned" \in history'[j]
                        /\ deletions'[j] > 0 /\ Present(j)' => "kept" \in history'[j]
                        /\ deletions'[j] > 0 => j \in minted'
                        /\ "kept" \in history'[j] => "disowned" \in history'[j]
      BY DEF DeletedOnce, DeletionFinal
    <3>1. CASE j = i
      BY <1>13, <2>1, <2>2, <3>1 DEF DeleteDisown
    <3>2. CASE j # i
      <4>1. (Present(j)' <=> Present(j)) /\ deletions'[j] = deletions[j] /\ minted' = minted
        BY <1>1, <1>13, <2>1, <3>2 DEF DeleteDisown, Present, TypeOK
      <4>2. QED
        BY <2>2, <3>2, <4>1 DEF IInv, DeletedOnce, DeletionFinal
    <3>3. QED
      BY <3>1, <3>2
  <2>5. UNCHANGED <<minted, backend>> /\ Return(c)
        /\ (row' = row \/ row' = [row EXCEPT ![i] = Absent])
    BY <1>13, <2>1 DEF DeleteDisown
  <2>6. QED
    BY <1>1, <2>1, <2>2, <2>3, <2>4, <2>5, DropStep
<1>14. ASSUME NEW c \in Callers, DeleteDrop(c)
       PROVE  IInv'
  <2>1. PICK i \in Instances : i = call[c].inst /\ i \in minted /\ Secured(i)
    BY <1>1, <1>14, BusyCall DEF DeleteDrop, At, IInv, OnlyMinted, DropSecured
  <2>2. Secured(i)'
    <3>1. /\ call'[c] = Idle /\ \A d \in Callers \ {c} : call'[d] = call[d]
          /\ UNCHANGED <<backend, history>>
      BY <1>1, <1>14, ReturnKeeps DEF DeleteDrop
    <3>2. QED
      BY <2>1, <3>1, IdleFields DEF Secured, Lost, Quiet, At
  <2>3. DeletedOnce'
    <3> SUFFICES ASSUME NEW j \in Instances
                 PROVE  /\ deletions'[j] > 1 => "disowned" \in history'[j]
                        /\ deletions'[j] > 0 /\ Present(j)' => "kept" \in history'[j]
                        /\ deletions'[j] > 0 => j \in minted'
                        /\ "kept" \in history'[j] => "disowned" \in history'[j]
      BY DEF DeletedOnce, DeletionFinal
    <3>1. history' = history /\ minted' = minted
      BY <1>14 DEF DeleteDrop
    <3>2. CASE j = i
      <4>1. ~Present(i)'
        BY <1>1, <1>14, <2>1 DEF DeleteDrop, Present, Absent, TypeOK
      <4>2. deletions'[i] = deletions[i] \/ (Present(i) /\ deletions'[i] = deletions[i] + 1)
        BY <1>1, <1>14, <2>1 DEF DeleteDrop, TypeOK
      <4>3. deletions[i] \in Nat
        BY <1>1 DEF TypeOK
      <4>4. deletions'[i] > 1 => "disowned" \in history[i]
        BY <4>2, <4>3 DEF IInv, DeletedOnce, DeletionFinal
      <4>5. QED
        BY <2>1, <3>1, <3>2, <4>1, <4>4 DEF IInv, DeletedOnce
    <3>3. CASE j # i
      <4>1. (Present(j)' <=> Present(j)) /\ deletions'[j] = deletions[j]
        BY <1>1, <1>14, <2>1, <3>3 DEF DeleteDrop, Present, TypeOK
      <4>2. QED
        BY <3>1, <4>1 DEF IInv, DeletedOnce, DeletionFinal
    <3>4. QED
      BY <3>2, <3>3
  <2>4. QED
    BY <1>1, <1>14, <2>1, <2>2, <2>3, DropStep DEF DeleteDrop
<1>15. ASSUME Reboot
       PROVE  IInv'
  <2>1. (\A c \in Callers : call'[c] = Idle) /\ UNCHANGED <<row, backend, minted, deletions>>
    BY <1>15 DEF Reboot
  <2>2. /\ \A j \in Instances : (history[j] \ {"woken"}) \subseteq history'[j]
        /\ \A j \in Instances : "kept" \in history'[j] => "kept" \in history[j]
    BY <1>15 DEF Reboot, IInv, TypeOK
  <2>3. \A j \in Instances : (Secured(j) => Secured(j)') /\ (Present(j)' <=> Present(j))
    BY <2>1, <2>2, IdleFields DEF Secured, Lost, Quiet, At, Present
  <2>4. OnlyMinted' /\ NeverDestroyed' /\ DropSecured'
    BY <2>1, <2>3, IdleFields DEF IInv, OnlyMinted, NeverDestroyed, DropSecured, At
  <2>5. GoneSecured' /\ DeletedOnce'
    <3>1. \A j \in Instances : "disowned" \in history[j] => "disowned" \in history'[j]
      BY <2>2
    <3>2. \A j \in Instances : "kept" \in history[j] <=> "kept" \in history'[j]
      BY <2>2
    <3>3. QED
      BY <2>1, <2>3, <3>1, <3>2 DEF GoneSecured, DeletedOnce, DeletionFinal, IInv
  <2>6. QED
    BY <1>1, <2>4, <2>5 DEF IInv
<1>16. ASSUME NEW c \in Callers, Advance(c)
       PROVE  IInv'
  <2>1. ASSUME ActSuspend(c) \/ ActUnsuspend(c) \/ ActScale(c)
        PROVE  IInv'
    <3>1. [state |-> "Stopped", suspended |-> TRUE] \in Rows
          /\ [state |-> "Running", suspended |-> FALSE] \in Rows
          /\ call[c].copy \in Rows /\ call[c].at # "idle"
      BY <1>1, <2>1 DEF Rows, States, TypeOK, Calls, ActSuspend, ActUnsuspend, ActScale,
                        RunOrReturn, At
    <3>2. call[c].copy.state \notin {"absent", "Destroyed"}
      BY <3>1 DEF IInv, OnlyMinted, NeverDestroyed
    <3>3. QED
      BY <1>7, <2>1, <3>1, <3>2 DEF ActSuspend, ActUnsuspend, ActScale
  <2>2. ASSUME MarkStart(c) \/ MarkStop(c)
        PROVE  IInv'
    BY <1>8, <2>2 DEF MarkStart, MarkStop, States
  <2>3. ASSUME ActStart(c) \/ ActStop(c) \/ ActRestart(c)
        PROVE  IInv'
    BY <1>6, <2>3 DEF ActStart, ActStop, ActRestart, At, States
  <2>4. QED
    BY <1>5, <1>9, <1>10, <1>11, <1>12, <1>13, <1>14, <1>16, <2>1, <2>2, <2>3 DEF Advance
<1>17. CASE UNCHANGED vars
  BY <1>1, <1>17
     DEF vars, IInv, OnlyMinted, NeverDestroyed, DropSecured, GoneSecured, DeletedOnce, DeletionFinal,
         Present, Secured, Lost, Quiet, At
<1>18. QED
  BY <1>4, <1>10, <1>15, <1>16, <1>17 DEF Next

(* The inductive invariant holds throughout.                               *)
LEMMA Invariance == Spec => []IInv
BY InitInv, InvStep, PTL DEF Spec

(* A project outlives its row only if Delete ran while the provider was    *)
(* unregistered, or Deprovision ran under a Create in flight.              *)
THEOREM NoProjectOrphaned == Spec => []NoOrphanProject
<1>1. IInv => NoOrphanProject
  BY DEF IInv, OnlyMinted, GoneSecured, Secured, Lost, Quiet, NoOrphanProject
<1>2. QED
  BY <1>1, Invariance, PTL

(* However many Deletes race, instance.service publishes InstanceDeleted   *)
(* once, and only for a row that is gone, unless a Delete found the        *)
(* provider unregistered: that one publishes whatever store.Delete says.   *)
THEOREM DeletedForGood == Spec => []DeletionFinal
<1>1. IInv => DeletionFinal
  BY DEF IInv, DeletedOnce
<1>2. QED
  BY <1>1, Invariance, PTL

(* No step brings the row of a minted instance back: only a Create of an   *)
(* ID never minted before inserts one, and store.Update finds no row.      *)
LEMMA NoReturn ==
  ASSUME IInv, Next, NEW i \in minted, ~Present(i)
  PROVE  ~Present(i)'
<1>1. TypeOK /\ i \in Instances
  BY DEF IInv, TypeOK
<1>2. ASSUME NEW j \in Instances, NEW r \in Rows, Write(j, r)
      PROVE  ~Present(i)'
  BY <1>1, <1>2 DEF Write, Present, TypeOK
<1>3. ASSUME NEW c \in Callers, call[c].at # "idle",
             Write(call[c].inst, call[c].copy) \/ \E s \in States : Write(call[c].inst, InState(call[c].copy, s))
      PROVE  ~Present(i)'
  <2>1. call[c].inst \in Instances /\ call[c].copy \in Rows
    BY <1>1, <1>3, BusyCall
  <2>2. \A s \in States : InState(call[c].copy, s) \in Rows
    BY <2>1 DEF InState, Rows
  <2>3. QED
    BY <1>2, <1>3, <2>1, <2>2
<1>4. CASE row' = row
  BY <1>4 DEF Present
<1>5. ASSUME NEW c \in Callers, Begin(c)
      PROVE  ~Present(i)'
  BY <1>1, <1>4, <1>5
     DEF Begin, BeginStart, BeginStop, BeginDelete, BeginUnchecked, Load, CreateInsert, Present, TypeOK
<1>6. ASSUME NEW c \in Callers, MarkStart(c) \/ MarkStop(c) \/ DeleteMark(c) \/ ActUpdate(c)
                                \/ Settle(c) \/ SettleFailed(c)
      PROVE  ~Present(i)'
  <2>1. call[c].at # "idle"
    BY <1>6 DEF MarkStart, MarkStop, Mark, DeleteMark, ActUpdate, Settle, SettleFailed, At
  <2>2. \/ row' = row
        \/ Write(call[c].inst, call[c].copy)
        \/ \E s \in States : Write(call[c].inst, InState(call[c].copy, s))
    BY <1>6 DEF MarkStart, MarkStop, Mark, DeleteMark, ActUpdate, Settle, SettleFailed, States
  <2>3. QED
    BY <1>3, <1>4, <2>1, <2>2
<1>7. ASSUME NEW c \in Callers, DeleteDisown(c) \/ DeleteDrop(c)
      PROVE  ~Present(i)'
  BY <1>1, <1>7 DEF DeleteDisown, DeleteDrop, Present, Absent, TypeOK
<1>8. ASSUME NEW c \in Callers, Advance(c)
      PROVE  ~Present(i)'
  BY <1>4, <1>6, <1>7, <1>8
     DEF Advance, CreateProvision, ActStart, ActStop, LookupFails, ActRestart, ActSuspend,
         ActUnsuspend, ActScale, NoProvider, DeleteDeprovision, RunVerb, RunOrReturn, Ask
<1>9. QED
  BY <1>4, <1>5, <1>8 DEF Next, Interrupt, Reboot

(* A verb never brings back the row of an instance deleted under it.       *)
THEOREM NeverResurrected == Spec => NoResurrection
<1>1. IInv /\ [Next]_vars =>
        [\A i \in Instances : i \in minted /\ ~Present(i) => ~Present(i)']_vars
  BY NoReturn DEF vars
<1>2. QED
  BY <1>1, Invariance, PTL DEF Spec, NoResurrection

-----------------------------------------------------------------------------
(* A row in a transitional state has a call that will settle it.           *)

\* Every verb issued ends by writing a settled state, or none: Update and Scale
\* write back the state they loaded.
Settling == \A c \in Callers : MayCall[c] \cap {"Update", "Scale"} = {}

\* From its first write on, a verb is bound to write the row once more.
Driving(c) == call[c].at \notin {"idle", "loaded"}

Permitted == \A c \in Callers : call[c].verb \in MayCall[c] \cup {"none"}

SettledGoals ==
    \A c \in Callers : call[c].at = "acted" => call[c].copy.state \notin Transitional

\* A call that was to write the row stopped short, or failed to drop it.
Stranded(i) == "cut" \in history[i] \/ "kept" \in history[i]

Driven ==
    \A i \in Instances :
        row[i].state \in Transitional =>
            Stranded(i) \/ \E c \in Callers : call[c].inst = i /\ Driving(c)

DrivenInv == TypeOK /\ Permitted /\ SettledGoals /\ Driven


\* A step of a caller on instance i that leaves i's row as it was, settled, cut
\* short, or with this caller still to write it, and touches no other row.
LEMMA DrivenStep ==
  ASSUME TypeOK, Driven, NEW c \in Callers, NEW i \in Instances,
         Driving(c) => call[c].inst = i,
         \A d \in Callers \ {c} : call'[d] = call[d],
         \A j \in Instances \ {i} : row'[j] = row[j],
         \A j \in Instances : (history[j] \ {"woken"}) \subseteq history'[j],
         \/ call'[c].inst = i /\ Driving(c)'
         \/ row'[i].state \notin Transitional
         \/ Stranded(i)'
         \/ row'[i] = row[i] /\ ~Driving(c)
  PROVE  Driven'
<1> SUFFICES ASSUME NEW j \in Instances, row'[j].state \in Transitional, ~Stranded(j)'
             PROVE  \E d \in Callers : call'[d].inst = j /\ Driving(d)'
  BY DEF Driven
<1>1. CASE j = i /\ call'[c].inst = i /\ Driving(c)'
  BY <1>1
<1>2. CASE ~(j = i /\ call'[c].inst = i /\ Driving(c)')
  <2>1. row'[j] = row[j] /\ ~Stranded(j) /\ (j = i => ~Driving(c))
    BY <1>2 DEF Stranded
  <2>2. PICK d \in Callers : call[d].inst = j /\ Driving(d)
    BY <2>1 DEF Driven
  <2>3. d # c
    BY <2>1, <2>2
  <2>4. QED
    BY <2>2, <2>3 DEF Driving
<1>3. QED
  BY <1>1, <1>2

\* A caller keeps to the verbs it may issue, and settles what it writes.
LEMMA CallKeeps ==
  ASSUME Permitted, SettledGoals, NEW c \in Callers,
         \A d \in Callers \ {c} : call'[d] = call[d],
         call'[c].verb \in {call[c].verb, "none"} \cup MayCall[c],
         call'[c].at = "acted" => call'[c].copy.state \notin Transitional
  PROVE  Permitted' /\ SettledGoals'
BY DEF Permitted, SettledGoals

LEMMA DrivenInit == Init => DrivenInv
<1> SUFFICES ASSUME Init PROVE DrivenInv
  OBVIOUS
<1>1. \A c \in Callers : call[c] = Idle
  BY DEF Init
<1>2. \A i \in Instances : row[i].state \notin Transitional
  BY DEF Init, Absent, Transitional
<1>3. QED
  BY <1>1, <1>2, InitType, IdleFields DEF DrivenInv, Permitted, SettledGoals, Driven

\* Asking the provider leaves the rows alone; the caller is then to write the row,
\* or returns without ever having written it.
LEMMA AskDrives ==
  ASSUME DrivenInv, NEW c \in Callers, call[c].at # "idle", NEW verb,
         NEW ok \in BOOLEAN, NEW after \in Powers, Ask(c, verb, ok, after),
         \/ Return(c) /\ call[c].at = "loaded"
         \/ \E place \in {"acted", "failing"}, r \in Rows :
               Move(c, place, r) /\ r.state \notin Transitional
  PROVE  Permitted' /\ SettledGoals' /\ Driven'
<1> DEFINE i == call[c].inst
<1>1. TypeOK /\ i \in Instances /\ Permitted /\ SettledGoals /\ Driven
  BY BusyCall DEF DrivenInv
<1>2. row' = row /\ \A j \in Instances : (history[j] \ {"woken"}) \subseteq history'[j]
  BY <1>1, AskKeeps
<1>3. \A d \in Callers \ {c} : call'[d] = call[d]
  BY <1>1, ReturnKeeps, MoveKeeps DEF Places
<1>4. CASE Return(c) /\ call[c].at = "loaded"
  <2>1. call'[c] = Idle /\ ~Driving(c)
    BY <1>1, <1>4, ReturnKeeps DEF Driving
  <2>2. QED
    BY <1>1, <1>2, <1>3, <2>1, DrivenStep, CallKeeps, IdleFields
<1>5. ASSUME NEW place \in {"acted", "failing"}, NEW r \in Rows,
             Move(c, place, r), r.state \notin Transitional
      PROVE  Permitted' /\ SettledGoals' /\ Driven'
  <2>1. /\ call'[c].verb = call[c].verb /\ call'[c].inst = i
        /\ call'[c].at = place /\ call'[c].copy = r
    BY <1>1, <1>5, MoveKeeps DEF Places
  <2>2. Driving(c)'
    BY <2>1 DEF Driving
  <2>3. QED
    BY <1>1, <1>2, <1>3, <1>5, <2>1, <2>2, DrivenStep, CallKeeps
<1>6. QED
  BY <1>4, <1>5

\* A caller that returns from its instance i with its row settled, gone or cut short.
LEMMA ReturnDrives ==
  ASSUME DrivenInv, NEW c \in Callers, NEW i \in Instances, i = call[c].inst, Return(c),
         \A j \in Instances \ {i} : row'[j] = row[j],
         \A j \in Instances : (history[j] \ {"woken"}) \subseteq history'[j],
         \/ row'[i].state \notin Transitional
         \/ Stranded(i)'
         \/ row'[i] = row[i] /\ ~Driving(c)
  PROVE  Permitted' /\ SettledGoals' /\ Driven'
<1>1. TypeOK /\ Permitted /\ SettledGoals /\ Driven
  BY DEF DrivenInv
<1>2. call'[c] = Idle /\ \A d \in Callers \ {c} : call'[d] = call[d]
  BY <1>1, ReturnKeeps
<1>3. QED
  BY <1>1, <1>2, DrivenStep, CallKeeps, IdleFields

\* Writing a settled state leaves the row settled, or gone.
LEMMA WriteSettles ==
  ASSUME TypeOK, NEW i \in Instances, NEW r \in Rows, Write(i, r)
  PROVE  /\ \A j \in Instances \ {i} : row'[j] = row[j]
         /\ r.state \notin Transitional => row'[i].state \notin Transitional
BY DEF Write, Present, TypeOK, Transitional

\* A caller that moves to a place where it is bound to write the row once more.
LEMMA MarkDrives ==
  ASSUME DrivenInv, NEW c \in Callers, NEW i \in Instances, i = call[c].inst,
         NEW place \in {"marked", "drop"}, NEW r \in Rows, Move(c, place, r),
         \A j \in Instances \ {i} : row'[j] = row[j], history' = history
  PROVE  Permitted' /\ SettledGoals' /\ Driven'
<1>1. TypeOK /\ Permitted /\ SettledGoals /\ Driven
  BY DEF DrivenInv
<1>2. /\ call'[c].verb = call[c].verb /\ call'[c].inst = i /\ call'[c].at = place
      /\ \A d \in Callers \ {c} : call'[d] = call[d]
  BY <1>1, MoveKeeps DEF Places
<1>3. Driving(c)'
  BY <1>2 DEF Driving
<1>4. QED
  BY <1>1, <1>2, <1>3, DrivenStep, CallKeeps

\* Whoever writes a transitional state stays bound to write the row once more.
LEMMA DrivenNext ==
  ASSUME Settling, DrivenInv, [Next]_vars
  PROVE  DrivenInv'
<1> USE DEF States
<1>1. TypeOK /\ Permitted /\ SettledGoals /\ Driven /\ TypeOK'
  BY TypeStep DEF DrivenInv
<1> DEFINE Goal == Permitted' /\ SettledGoals' /\ Driven'
<1>2. ASSUME NEW c \in Callers, NEW i \in Instances, NEW verb \in MayCall[c], Load(c, verb, i)
      PROVE  Goal
  <2>1. /\ \A d \in Callers \ {c} : call'[d] = call[d]
        /\ call'[c].verb = verb /\ call'[c].at = "loaded"
        /\ row' = row /\ history' = history /\ ~Driving(c)
    BY <1>1, <1>2, IdleFields DEF Load, TypeOK, Driving
  <2>2. QED
    BY <1>1, <2>1, DrivenStep, CallKeeps
<1>3. ASSUME NEW c \in Callers, NEW i \in Instances, CreateInsert(c, i)
      PROVE  Goal
  <2>1. /\ \A d \in Callers \ {c} : call'[d] = call[d]
        /\ call'[c].verb = "Create" /\ call'[c].at = "inserted" /\ call'[c].inst = i
        /\ \A j \in Instances \ {i} : row'[j] = row[j]
        /\ history' = history /\ ~Driving(c)
        /\ "Create" \in MayCall[c]
    BY <1>1, <1>3, IdleFields DEF CreateInsert, TypeOK, Driving
  <2>2. Driving(c)'
    BY <2>1 DEF Driving
  <2>3. QED
    BY <1>1, <2>1, <2>2, DrivenStep, CallKeeps
<1>4. ASSUME NEW c \in Callers, CreateProvision(c)
      PROVE  Goal
  <2>1. PICK ok \in BOOLEAN, after \in Powers :
           /\ Ask(c, "Provision", ok, after)
           /\ IF ok THEN Goto(c, "acted", "Running") ELSE Goto(c, "failing", "Failed")
    BY <1>4 DEF CreateProvision
  <2>2. call[c].at # "idle" /\ call[c].copy \in Rows
    BY <1>1, <1>4, BusyCall DEF CreateProvision, At
  <2>3. \E place \in {"acted", "failing"}, r \in Rows :
           Move(c, place, r) /\ r.state \notin Transitional
    BY <2>1, <2>2 DEF Goto, InState, Rows, Transitional
  <2>4. QED
    BY <2>1, <2>2, <2>3, AskDrives
<1>5. ASSUME NEW c \in Callers, NEW verb, NEW goal \in {"Running", "Stopped"},
             RunVerb(c, verb, goal), call[c].at # "idle"
      PROVE  Goal
  <2>1. PICK ok \in BOOLEAN, after \in Powers :
           /\ Ask(c, verb, ok, after)
           /\ IF ok THEN Goto(c, "acted", goal) ELSE Goto(c, "failing", "Failed")
    BY <1>5 DEF RunVerb
  <2>2. call[c].copy \in Rows
    BY <1>1, <1>5, BusyCall
  <2>3. \E place \in {"acted", "failing"}, r \in Rows :
           Move(c, place, r) /\ r.state \notin Transitional
    BY <2>1, <2>2 DEF Goto, InState, Rows, Transitional
  <2>4. QED
    BY <1>5, <2>1, <2>3, AskDrives
<1>6. ASSUME NEW c \in Callers, NEW verb, NEW r \in Rows, r.state \notin Transitional,
             RunOrReturn(c, verb, r)
      PROVE  Goal
  <2>1. PICK ok \in BOOLEAN, after \in Powers :
           Ask(c, verb, ok, after) /\ IF ok THEN Move(c, "acted", r) ELSE Return(c)
    BY <1>6 DEF RunOrReturn
  <2>2. call[c].at = "loaded"
    BY <1>6 DEF RunOrReturn, At
  <2>3. QED
    BY <1>6, <2>1, <2>2, AskDrives
<1>7. ASSUME NEW c \in Callers, NEW verb, NEW s \in States, Mark(c, verb, s)
      PROVE  Goal
  <2>1. call[c].inst \in Instances /\ call[c].copy \in Rows /\ ~Driving(c)
    BY <1>1, <1>7, BusyCall DEF Mark, At, Driving
  <2>2. InState(call[c].copy, s) \in Rows
    BY <2>1 DEF InState, Rows
  <2>3. CASE Present(call[c].inst)
    BY <1>1, <1>7, <2>1, <2>2, <2>3, WriteSettles, MarkDrives DEF Mark, Goto
  <2>4. CASE ~Present(call[c].inst)
    BY <1>1, <1>7, <2>1, <2>4, ReturnDrives DEF Mark
  <2>5. QED
    BY <2>3, <2>4
<1>8. ASSUME NEW c \in Callers, LookupFails(c) \/ Interrupt(c) \/ NoProvider(c)
      PROVE  Goal
  <2>1. call[c] = Idle /\ Interrupt(c) => call' = call /\ row' = row
    BY DEF Interrupt
  <2>2. call[c].at # "idle" => call[c].inst \in Instances
    BY <1>1, BusyCall
  <2>3. CASE call[c].at = "idle"
    <3>1. Interrupt(c) /\ call'[c] = Idle /\ \A d \in Callers \ {c} : call'[d] = call[d]
      BY <1>1, <1>8, <2>3, ReturnKeeps DEF LookupFails, NoProvider, Interrupt, At
    <3>2. row' = row /\ \A j \in Instances : (history[j] \ {"woken"}) \subseteq history'[j]
      BY <1>1, <3>1 DEF Interrupt, Note, TypeOK
    <3>3. ~Driving(c)
      BY <2>3 DEF Driving
    <3>4. \A i \in Instances : Driven'
      BY <1>1, <3>1, <3>2, <3>3, DrivenStep
    <3>5. Driven'
      BY <3>4 DEF Driven
    <3>6. QED
      BY <1>1, <3>1, <3>5, CallKeeps, IdleFields
  <2>4. CASE call[c].at # "idle" /\ ~NoProvider(c)
    <3>1. /\ Return(c) /\ row' = row /\ "cut" \in history'[call[c].inst]
          /\ \A j \in Instances : (history[j] \ {"woken"}) \subseteq history'[j]
      BY <1>1, <1>8, <2>2, <2>4, NoteKeeps DEF LookupFails, Interrupt, Faults
    <3>2. QED
      BY <1>1, <2>2, <2>4, <3>1, ReturnDrives DEF Stranded
  <2>5. CASE NoProvider(c)
    <3>1. Return(c) /\ row' = row /\ history' = history /\ call[c].at = "loaded"
      BY <2>5 DEF NoProvider, At
    <3>2. QED
      BY <2>2, <3>1, ReturnDrives DEF Driving
  <2>6. QED
    BY <2>3, <2>4, <2>5
<1>9. ASSUME NEW c \in Callers, Settle(c) \/ SettleFailed(c)
      PROVE  Goal
  <2>1. call[c].inst \in Instances /\ call[c].copy \in Rows
    BY <1>1, <1>9, BusyCall DEF Settle, SettleFailed
  <2>2. PICK r \in Rows : Write(call[c].inst, r) /\ r.state \notin Transitional
    BY <1>1, <1>9, <2>1 DEF Settle, SettleFailed, SettledGoals, InState, Rows, Transitional
  <2>3. Return(c) /\ history' = history
    BY <1>9 DEF Settle, SettleFailed
  <2>4. QED
    BY <1>1, <2>1, <2>2, <2>3, WriteSettles, ReturnDrives
<1>10. ASSUME NEW c \in Callers, DeleteMark(c)
       PROVE  Goal
  <2>1. call[c].inst \in Instances /\ call[c].copy \in Rows
    BY <1>1, <1>10, BusyCall DEF DeleteMark, At
  <2>2. PICK place \in {"drop", "marked"}, r \in Rows : Move(c, place, r)
    BY <1>10, <2>1 DEF DeleteMark, Goto, InState, Rows
  <2>3. InState(call[c].copy, "Destroying") \in Rows
    BY <2>1 DEF InState, Rows
  <2>4. \A j \in Instances \ {call[c].inst} : row'[j] = row[j]
    BY <1>1, <1>10, <2>1, <2>3, WriteSettles DEF DeleteMark
  <2>5. history' = history
    BY <1>10 DEF DeleteMark
  <2>6. QED
    BY <2>1, <2>2, <2>4, <2>5, MarkDrives
<1>11. ASSUME NEW c \in Callers, DeleteDeprovision(c)
       PROVE  Goal
  <2>1. call[c].inst \in Instances /\ call[c].copy \in Rows
    BY <1>1, <1>11, BusyCall DEF DeleteDeprovision, At
  <2>2. PICK place \in {"drop", "failing"}, r \in Rows : Move(c, place, r)
    BY <1>11, <2>1 DEF DeleteDeprovision, Goto, InState, Rows
  <2>3. /\ call'[c].verb = call[c].verb /\ call'[c].inst = call[c].inst /\ call'[c].at = place
        /\ \A d \in Callers \ {c} : call'[d] = call[d]
    BY <1>1, <2>2, MoveKeeps DEF Places
  <2>4. row' = row /\ \A j \in Instances : (history[j] \ {"woken"}) \subseteq history'[j]
    BY <1>1, <1>11, <2>1, NoteKeeps DEF DeleteDeprovision, Faults
  <2>5. Driving(c)'
    BY <2>3 DEF Driving
  <2>6. QED
    BY <1>1, <2>1, <2>3, <2>4, <2>5, DrivenStep, CallKeeps
<1>12. ASSUME NEW c \in Callers, DeleteDisown(c) \/ DeleteDrop(c)
       PROVE  Goal
  <2>1. call[c].inst \in Instances
    BY <1>1, <1>12, BusyCall DEF DeleteDisown, DeleteDrop, At
  <2> PICK i \in Instances : i = call[c].inst
    BY <2>1
  <2>2. \/ /\ row' = [row EXCEPT ![i] = Absent]
           /\ \E more \in {{}, {"disowned"}} : history' = [history EXCEPT ![i] = @ \cup more]
        \/ row' = row /\ history' = [history EXCEPT ![i] = @ \cup {"disowned", "kept"}]
    <3>1. history' = history => history' = [history EXCEPT ![i] = @ \cup {}]
      BY <1>1 DEF TypeOK
    <3>2. CASE DeleteDrop(c)
      BY <3>1, <3>2 DEF DeleteDrop
    <3>3. CASE DeleteDisown(c)
      BY <3>3 DEF DeleteDisown, Note
    <3>4. QED
      BY <1>12, <3>2, <3>3
  <2>3. \A j \in Instances \ {i} : row'[j] = row[j]
    BY <1>1, <2>2 DEF TypeOK
  <2>4. row'[i].state \notin Transitional \/ Stranded(i)'
    BY <1>1, <2>2 DEF Absent, Transitional, Stranded, TypeOK
  <2>5. \A j \in Instances : (history[j] \ {"woken"}) \subseteq history'[j]
    BY <1>1, <2>2 DEF TypeOK
  <2>6. Return(c)
    BY <1>12 DEF DeleteDisown, DeleteDrop
  <2>7. QED
    BY <2>3, <2>4, <2>5, <2>6, ReturnDrives
<1>13. ASSUME Reboot
       PROVE  Goal
  <2>1. \A c \in Callers : call'[c] = Idle
    BY <1>13 DEF Reboot
  <2>2. ASSUME NEW i \in Instances, row'[i].state \in Transitional
        PROVE  Stranded(i)'
    <3>1. Stranded(i) \/ InFlight(i)
      BY <1>1, <1>13, <2>2 DEF Reboot, Driven, InFlight
    <3>2. QED
      BY <1>1, <1>13, <3>1 DEF Reboot, TypeOK, Stranded
  <2>3. QED
    BY <2>1, <2>2, IdleFields DEF Permitted, SettledGoals, Driven
<1>14. ASSUME NEW c \in Callers, ActScale(c) \/ ActUpdate(c)
       PROVE  Goal
  BY <1>1, <1>14 DEF ActScale, ActUpdate, RunOrReturn, At, Permitted, Settling
<1>15. ASSUME NEW c \in Callers, Begin(c)
       PROVE  Goal
  BY <1>2, <1>3, <1>15 DEF Begin, BeginStart, BeginStop, BeginDelete, BeginUnchecked
<1>16. ASSUME NEW c \in Callers, Advance(c)
       PROVE  Goal
  <2>1. ASSUME MarkStart(c) \/ MarkStop(c) PROVE Goal
    BY <1>7, <2>1 DEF MarkStart, MarkStop
  <2>2. ASSUME ActStart(c) \/ ActStop(c) \/ ActRestart(c) PROVE Goal
    BY <1>5, <2>2 DEF ActStart, ActStop, ActRestart, At
  <2>3. ASSUME ActSuspend(c) \/ ActUnsuspend(c) PROVE Goal
    <3>1. /\ [state |-> "Stopped", suspended |-> TRUE] \in Rows
          /\ [state |-> "Running", suspended |-> FALSE] \in Rows
      BY DEF Rows
    <3>2. QED
      BY <1>6, <2>3, <3>1 DEF ActSuspend, ActUnsuspend, Transitional
  <2>4. QED
    BY <1>4, <1>8, <1>9, <1>10, <1>11, <1>12, <1>14, <1>16, <2>1, <2>2, <2>3 DEF Advance
<1>17. ASSUME UNCHANGED vars PROVE Goal
  BY <1>1, <1>17 DEF vars, Permitted, SettledGoals, Driven, Driving, Stranded
<1>18. Goal
  BY <1>8, <1>13, <1>15, <1>16, <1>17 DEF Next
<1>19. QED
  BY <1>1, <1>18 DEF DrivenInv

(* However verbs that settle what they write interleave, a row is left     *)
(* transitional only by a call that was cut short, or a Delete without a   *)
(* provider that failed to drop it: the last writer of a row settles it.   *)
THEOREM NeverStuck == Settling => (Spec => []NoStuckTransitional)
<1> SUFFICES ASSUME Settling PROVE Spec => []NoStuckTransitional
  OBVIOUS
<1>1. DrivenInv /\ [Next]_vars => DrivenInv'
  BY DrivenNext
<1>2. DrivenInv => NoStuckTransitional
  BY DEF DrivenInv, Driven, Stranded, NoStuckTransitional, InFlight
<1>3. QED
  BY DrivenInit, <1>1, <1>2, PTL DEF Spec



-----------------------------------------------------------------------------
(* With one call at a time, row and project tell the same.                 *)

Solo == \A c, d \in Callers : c = d

\* A stopped project that Scale woke runs under a row that says Stopped.
Told(s, power, woken) ==
    /\ power # "none"
    /\ s = "Running" => power = "running"
    /\ s = "Stopped" => power = IF woken THEN "running" ELSE "stopped"

\* A row of state s fits i's project: exactly if nothing ever failed, and at least
\* as far as Running goes if the provider refuses verbs on a missing project.
Fits(i, s) ==
    /\ "erred" \notin history[i] => Told(s, backend[i], "woken" \in history[i])
    /\ ~Lenient /\ s = "Running" => backend[i] # "none"

\* What a call on i has made sure of at each of its stages.
Assured(i, k) ==
    /\ k.at = "loaded" => Present(i) /\ k.copy = row[i] /\ Fits(i, row[i].state)
    /\ k.at = "marked" /\ k.verb # "Delete" /\ "erred" \notin history[i] => backend[i] # "none"
    /\ k.at = "marked" /\ k.verb = "Delete" => Fits(i, row[i].state)
    /\ k.at = "acted" => Fits(i, k.copy.state)
    /\ k.at = "failing" => "erred" \in history[i]

SoloInv ==
    \A i \in Instances :
        "cut" \notin history[i] =>
            /\ Present(i) /\ ~InFlight(i) => Fits(i, row[i].state)
            /\ \A c \in Callers : call[c].inst = i => Assured(i, call[c])

\* What an answer of the provider says about the project before and after it.
LEMMA AnswerFits ==
  ASSUME TypeOK, NEW i \in Instances, NEW verb, NEW ok \in BOOLEAN, NEW after \in Powers,
         Provider(verb, i, ok, after), verb # "Deprovision"
  PROVE  /\ ok /\ verb = "Provision" => after = "running"
         /\ ok /\ verb \in {"Start", "Restart", "Unsuspend"} /\ backend[i] # "none" =>
               after = "running"
         /\ ok /\ verb \in {"Stop", "Suspend"} /\ backend[i] # "none" => after = "stopped"
         /\ ok /\ verb = "Scale" =>
               after = backend[i] \/ (Wakes(verb, backend[i]) /\ after = "running")
         /\ ok /\ verb # "Provision" /\ ~Lenient => backend[i] # "none"
         /\ backend[i] # "none" => after # "none"
<1>1. /\ ok => CanSucceed(verb, backend[i]) /\ after \in Goals(verb, backend[i])
      /\ after \in Partial(verb, backend[i]) \cup {backend[i]} \cup Goals(verb, backend[i])
  BY DEF Provider
<1>0. \A p \in Goals(verb, backend[i]) :
         p = Full(verb, backend[i]) \/ (Wakes(verb, backend[i]) /\ verb = "Scale" /\ p = "running")
  BY DEF Goals, Wakes
<1>2. /\ verb = "Provision" => Full(verb, backend[i]) = "running"
      /\ verb \in {"Start", "Restart", "Unsuspend"} /\ backend[i] # "none" =>
            Full(verb, backend[i]) = "running"
      /\ verb \in {"Stop", "Suspend"} /\ backend[i] # "none" =>
            Full(verb, backend[i]) = "stopped"
      /\ verb = "Scale" => Full(verb, backend[i]) = backend[i]
      /\ backend[i] # "none" => Full(verb, backend[i]) # "none"
  BY DEF Full
<1>3. backend[i] # "none" => \A p \in Partial(verb, backend[i]) : p # "none"
  BY <1>0, <1>2 DEF Partial
<1>4. QED
  BY <1>0, <1>1, <1>2, <1>3 DEF CanSucceed

\* What a verb that succeeded leaves in the history of its instance.
LEMMA RecallSays ==
  ASSUME TypeOK, NEW i \in Instances, NEW verb, NEW after, Recall(i, verb, TRUE, after)
  PROVE  /\ "cut" \in history'[i] <=> "cut" \in history[i]
         /\ "erred" \in history'[i] <=> "erred" \in history[i]
         /\ verb \in {"Stop", "Suspend"} => "woken" \notin history'[i]
         /\ verb \notin {"Stop", "Suspend", "Scale"} =>
               ("woken" \in history'[i] <=> "woken" \in history[i])
         /\ verb = "Scale" =>
               ("woken" \in history'[i] <=>
                   "woken" \in history[i] \/ (Wakes(verb, backend[i]) /\ after = "running"))
BY DEF Recall, Wakes, TypeOK

\* With one caller, a call in flight is the only one.
LEMMA SoloFlight ==
  ASSUME Solo, TypeOK, NEW c \in Callers
  PROVE  \A j \in Instances : InFlight(j) <=> call[c].inst = j
BY DEF Solo, InFlight

\* A step of the only caller on instance i, after which i's row or the call's stage
\* is as the invariant demands; other instances are not touched.
LEMMA SoloStep ==
  ASSUME Solo, TypeOK, TypeOK', SoloInv, NEW c \in Callers, NEW i \in Instances,
         call[c] = Idle \/ call[c].inst = i,
         \A j \in Instances \ {i} : row'[j] = row[j] /\ backend'[j] = backend[j],
         \A j \in Instances : (history[j] \ {"woken"}) \subseteq history'[j],
         \A j \in Instances \ {i} : history'[j] = history[j],
         \/ /\ call'[c] = Idle
            /\ "cut" \notin history'[i] /\ Present(i)' => Fits(i, row[i].state)'
         \/ /\ call'[c].inst = i
            /\ "cut" \notin history'[i] => Assured(i, call[c])'
  PROVE  SoloInv'
<1>1. \A d \in Callers : d = c
  BY DEF Solo
<1>2. Idle.inst \notin Instances
  BY LifecycleAssumption DEF Idle
<1> SUFFICES ASSUME NEW j \in Instances, "cut" \notin history'[j]
             PROVE  /\ Present(j)' /\ ~InFlight(j)' => Fits(j, row[j].state)'
                    /\ \A d \in Callers : call'[d].inst = j => Assured(j, call[d])'
  BY DEF SoloInv
<1>3. CASE j = i
  BY <1>1, <1>2, <1>3 DEF InFlight
<1>4. CASE j # i
  <2>1. ~InFlight(j) /\ call'[c].inst # j
    BY <1>1, <1>2, <1>4 DEF InFlight
  <2>2. Present(j) => Fits(j, row[j].state)
    BY <1>4, <2>1 DEF SoloInv
  <2>3. Present(j)' => Fits(j, row[j].state)'
    BY <1>4, <2>2 DEF Present, Fits
  <2>4. QED
    BY <1>1, <2>1, <2>3
<1>5. QED
  BY <1>3, <1>4

LEMMA SoloInit == Init => SoloInv
<1> SUFFICES ASSUME Init PROVE SoloInv
  OBVIOUS
<1>1. \A c \in Callers : call[c] = Idle /\ call[c].inst \notin Instances
  BY LifecycleAssumption DEF Init, Idle
<1>2. \A i \in Instances : Present(i) => Fits(i, row[i].state)
  BY DEF Init, Present, Absent, Fits, Told
<1>3. QED
  BY <1>1, <1>2 DEF SoloInv

\* Asking the provider, whose answer is told by the state to be written next.
LEMMA AskFits ==
  ASSUME Solo, TypeOK, TypeOK', SoloInv, NEW c \in Callers, NEW i \in Instances,
         i = call[c].inst, NEW verb, NEW ok \in BOOLEAN, NEW after \in Powers,
         Ask(c, verb, ok, after),
         \/ /\ ok
            /\ \E r \in Rows : Move(c, "acted", r)
            /\ "cut" \notin history[i] => Assured(i, call[c])'
         \/ ~ok /\ \E r \in Rows : Move(c, "failing", r)
         \/ /\ ~ok /\ Return(c)
            /\ call[c].at = "loaded"
            /\ verb \notin {"Provision", "Deprovision"}
  PROVE  SoloInv'
<1>1. /\ backend' = [backend EXCEPT ![i] = after] /\ row' = row
      /\ \A j \in Instances : (history[j] \ {"woken"}) \subseteq history'[j]
  BY AskKeeps
<1>2. \A j \in Instances \ {i} : backend'[j] = backend[j] /\ history'[j] = history[j]
  BY <1>1 DEF Ask, Recall, TypeOK
<1>3. ~ok => "erred" \in history'[i]
  BY DEF Ask, Recall, TypeOK
<1>4. CASE ok
  <2>1. call'[c].inst = i
    BY <1>4, MoveKeeps DEF Places
  <2>2. "cut" \notin history'[i] => Assured(i, call[c])'
    BY <1>1, <1>4
  <2>3. QED
    BY <1>1, <1>2, <2>1, <2>2, SoloStep
<1>5. CASE ~ok /\ \E r \in Rows : Move(c, "failing", r)
  <2>1. call'[c].inst = i /\ call'[c].at = "failing"
    BY <1>5, MoveKeeps DEF Places
  <2>2. Assured(i, call[c])'
    BY <1>3, <1>5, <2>1 DEF Assured
  <2>3. QED
    BY <1>1, <1>2, <2>1, <2>2, SoloStep
<1>6. CASE ~ok /\ Return(c) /\ call[c].at = "loaded" /\ verb \notin {"Provision", "Deprovision"}
  <2>1. call'[c] = Idle
    BY <1>6, ReturnKeeps
  <2>2. "cut" \notin history[i] => Fits(i, row[i].state)
    BY <1>6 DEF SoloInv, Assured
  <2>3. backend[i] # "none" => backend'[i] # "none"
    <3>1. Provider(verb, i, ok, after)
      BY DEF Ask
    <3>2. backend[i] # "none" => after # "none"
      BY <1>6, <3>1, AnswerFits
    <3>3. backend'[i] = after
      BY <1>1 DEF TypeOK
    <3>4. QED
      BY <3>2, <3>3
  <2>4. "cut" \notin history'[i] => Fits(i, row[i].state)'
    BY <1>1, <1>3, <1>6, <2>2, <2>3 DEF Fits
  <2>5. QED
    BY <1>1, <1>2, <2>1, <2>4, SoloStep
<1>7. QED
  BY <1>4, <1>5, <1>6



\* Every verb, taken alone, keeps the row telling the truth about its project.
LEMMA SoloNext ==
  ASSUME Solo, TypeOK, [Next]_vars, SoloInv
  PROVE  SoloInv'
<1> USE DEF States
<1>1. TypeOK'
  BY TypeStep
<1>2. ASSUME NEW c \in Callers, NEW i \in Instances, NEW verb, Load(c, verb, i)
      PROVE  SoloInv'
  <2>1. /\ call[c] = Idle /\ Present(i) /\ ~InFlight(i)
        /\ UNCHANGED <<row, backend, history>>
    BY <1>2, SoloFlight, LifecycleAssumption DEF Load, Idle
  <2>2. call'[c] = [verb |-> verb, inst |-> i, at |-> "loaded", copy |-> row[i]]
    BY <1>2 DEF Load, TypeOK
  <2>3. "cut" \notin history[i] => Fits(i, row[i].state)
    BY <2>1 DEF SoloInv
  <2>4. "cut" \notin history'[i] => Assured(i, call[c])'
    BY <2>1, <2>2, <2>3 DEF Assured, Fits, Present
  <2>5. QED
    BY <1>1, <2>1, <2>2, <2>4, SoloStep
<1>3. ASSUME NEW c \in Callers, NEW i \in Instances, CreateInsert(c, i)
      PROVE  SoloInv'
  <2>1. call'[c].inst = i /\ call'[c].at = "inserted" /\ call[c] = Idle
    BY <1>3 DEF CreateInsert, TypeOK
  <2>2. Assured(i, call[c])'
    BY <2>1 DEF Assured
  <2>3. QED
    BY <1>1, <1>3, <2>1, <2>2, SoloStep DEF CreateInsert, TypeOK
<1>4. ASSUME NEW c \in Callers, CreateProvision(c)
      PROVE  SoloInv'
  <2>0. PICK i \in Instances : i = call[c].inst
    BY <1>4, BusyCall DEF CreateProvision, At
  <2>1. i \in Instances /\ call[c].copy \in Rows
    BY <2>0, <1>4, BusyCall DEF CreateProvision, At
  <2>2. PICK ok \in BOOLEAN, after \in Powers :
           /\ Ask(c, "Provision", ok, after)
           /\ IF ok THEN Goto(c, "acted", "Running") ELSE Goto(c, "failing", "Failed")
    BY <2>0, <1>4 DEF CreateProvision
  <2>3. \A s \in States : InState(call[c].copy, s) \in Rows /\ InState(call[c].copy, s).state = s
    BY <2>0, <2>1 DEF InState, Rows
  <2>4. CASE ok
    <3>1. backend'[i] = "running"
      BY <2>0, <2>1, <2>2, <2>4, AskKeeps, AnswerFits DEF Ask, TypeOK
    <3>2. call'[c].at = "acted" /\ call'[c].copy.state = "Running"
      BY <2>0, <2>2, <2>3, <2>4, MoveKeeps DEF Goto, Places
    <3>3. Assured(i, call[c])'
      BY <2>0, <3>1, <3>2 DEF Assured, Fits, Told
    <3>4. QED
      BY <2>0, <1>1, <2>1, <2>2, <2>3, <2>4, <3>3, AskFits DEF Goto
  <2>5. CASE ~ok
    BY <2>0, <1>1, <2>1, <2>2, <2>3, <2>5, AskFits DEF Goto
  <2>6. QED
    BY <2>0, <2>4, <2>5
<1>5. ASSUME NEW c \in Callers, ActStart(c) \/ ActStop(c) \/ ActRestart(c)
      PROVE  SoloInv'
  <2>0. PICK i \in Instances : i = call[c].inst
    BY <1>5, BusyCall DEF ActStart, ActStop, ActRestart, At
  <2>1. PICK goal \in States : goal = IF call[c].verb = "Stop" THEN "Stopped" ELSE "Running"
    OBVIOUS
  <2>2. /\ call[c].verb \in {"Start", "Stop", "Restart"}
        /\ call[c].at = IF call[c].verb = "Restart" THEN "loaded" ELSE "marked"
        /\ RunVerb(c, call[c].verb, goal)
    BY <2>0, <1>5, <2>1 DEF ActStart, ActStop, ActRestart, At
  <2>3. i \in Instances /\ call[c].copy \in Rows
    BY <2>0, <2>2, BusyCall
  <2>4. PICK ok \in BOOLEAN, after \in Powers :
           /\ Ask(c, call[c].verb, ok, after)
           /\ IF ok THEN Goto(c, "acted", goal) ELSE Goto(c, "failing", "Failed")
    BY <2>0, <2>2 DEF RunVerb
  <2>5. \A s \in States : InState(call[c].copy, s) \in Rows /\ InState(call[c].copy, s).state = s
    BY <2>0, <2>3 DEF InState, Rows
  <2>6. CASE ok
    <3>1. call'[c].at = "acted" /\ call'[c].copy.state = goal
      BY <2>0, <2>4, <2>5, <2>1, <2>6, MoveKeeps DEF Goto, Places
    <3>2. backend'[i] = after
      BY <2>0, <2>3, <2>4 DEF Ask, TypeOK
    <3>10. Recall(i, call[c].verb, TRUE, after)
      BY <2>0, <2>4, <2>6 DEF Ask
    <3>11. /\ "cut" \in history'[i] <=> "cut" \in history[i]
           /\ "erred" \in history'[i] <=> "erred" \in history[i]
           /\ call[c].verb = "Stop" => "woken" \notin history'[i]
      <4>1. PICK verb : verb = call[c].verb
        OBVIOUS
      <4>2. QED
        BY <2>3, <3>10, <4>1, RecallSays
    <3>3. "cut" \notin history[i] /\ "erred" \notin history[i] => backend[i] # "none"
      BY <2>0, <2>2, <2>3 DEF SoloInv, Assured, Fits, Told
    <3>4. PICK verb \in {"Start", "Stop", "Restart"} :
             verb = call[c].verb /\ Provider(verb, i, ok, after)
      BY <2>0, <2>2, <2>4 DEF Ask
    <3>5. backend[i] # "none" =>
             after = IF call[c].verb = "Stop" THEN "stopped" ELSE "running"
      BY <2>6, <3>4, AnswerFits
    <3>6. ~Lenient => backend[i] # "none" /\ after # "none"
      BY <2>6, <3>4, AnswerFits, ZenonT(60)
    <3>7. "cut" \notin history[i] => Fits(i, goal)'
      <4>1. call[c].verb = "Stop" => goal = "Stopped" /\ "woken" \notin history'[i]
        BY <2>1, <3>11
      <4>2. call[c].verb # "Stop" => goal = "Running"
        BY <2>1
      <4>3. QED
        BY <3>2, <3>3, <3>5, <3>6, <3>11, <4>1, <4>2 DEF Fits, Told
    <3>8. "cut" \notin history[i] => Assured(i, call[c])'
      BY <2>0, <3>1, <3>7 DEF Assured, Fits
    <3>9. QED
      BY <2>0, <1>1, <2>3, <2>4, <2>5, <2>1, <2>6, <3>8, AskFits DEF Goto
  <2>7. CASE ~ok
    BY <2>0, <1>1, <2>3, <2>4, <2>5, <2>7, AskFits DEF Goto
  <2>8. QED
    BY <2>0, <2>6, <2>7
<1>6. ASSUME NEW c \in Callers, NEW verb \in {"Suspend", "Unsuspend", "Scale"}, NEW r \in Rows,
             RunOrReturn(c, verb, r),
             r.state = IF verb = "Suspend" THEN "Stopped"
                       ELSE IF verb = "Unsuspend" THEN "Running" ELSE call[c].copy.state
      PROVE  SoloInv'
  <2>0. PICK i \in Instances : i = call[c].inst
    BY <1>6, BusyCall DEF RunOrReturn, At
  <2>1. i \in Instances /\ call[c].at = "loaded" /\ call[c].verb = verb
    BY <2>0, <1>6, BusyCall DEF RunOrReturn, At
  <2>2. PICK ok \in BOOLEAN, after \in Powers :
           Ask(c, verb, ok, after) /\ IF ok THEN Move(c, "acted", r) ELSE Return(c)
    BY <2>0, <1>6 DEF RunOrReturn
  <2>3. CASE ok
    <3>1. call'[c].at = "acted" /\ call'[c].copy = r
      BY <2>0, <2>2, <2>3, MoveKeeps DEF Places
    <3>2. backend'[i] = after
      BY <2>0, <2>1, <2>2 DEF Ask, TypeOK
    <3>8. /\ "cut" \in history'[i] <=> "cut" \in history[i]
          /\ "erred" \in history'[i] <=> "erred" \in history[i]
          /\ verb = "Suspend" => "woken" \notin history'[i]
          /\ verb = "Scale" =>
                ("woken" \in history'[i] <=>
                    "woken" \in history[i] \/ (Wakes(verb, backend[i]) /\ after = "running"))
      <4>1. Recall(i, verb, TRUE, after)
        BY <2>0, <2>2, <2>3 DEF Ask
      <4>2. QED
        BY <2>1, <4>1, RecallSays
    <3>3. "cut" \notin history[i] => Fits(i, call[c].copy.state)
      BY <2>0, <2>1 DEF SoloInv, Assured
    <3>4. /\ verb = "Scale" => after = backend[i] \/ (Wakes(verb, backend[i]) /\ after = "running")
          /\ backend[i] # "none" =>
                (verb = "Suspend" => after = "stopped") /\ (verb = "Unsuspend" => after = "running")
          /\ backend[i] # "none" => after # "none"
          /\ ~Lenient => backend[i] # "none" /\ after # "none"
      <4>1. Provider(verb, i, ok, after)
        BY <2>0, <2>2 DEF Ask
      <4>2. QED
        BY <2>3, <4>1, AnswerFits, ZenonT(60)
    <3>5. "cut" \notin history[i] => Fits(i, r.state)'
      <4>1. CASE verb = "Suspend"
        BY <1>6, <3>2, <3>3, <3>4, <3>8, <4>1 DEF Fits, Told
      <4>2. CASE verb = "Unsuspend"
        BY <1>6, <3>2, <3>3, <3>4, <3>8, <4>2 DEF Fits, Told
      <4>3. CASE verb = "Scale"
        <5>1. r.state = call[c].copy.state
          BY <1>6, <4>3
        <5>2. CASE after = backend[i]
          <6>1. Wakes(verb, backend[i]) => after # "running"
            BY <5>2 DEF Wakes
          <6>2. "woken" \in history'[i] <=> "woken" \in history[i]
            BY <3>8, <4>3, <6>1
          <6>3. QED
            BY <3>2, <3>3, <3>8, <5>1, <5>2, <6>2 DEF Fits
        <5>3. CASE Wakes(verb, backend[i]) /\ after = "running"
          <6>1. backend[i] = "stopped" /\ "woken" \in history'[i]
            BY <3>8, <4>3, <5>3 DEF Wakes
          <6>2. QED
            BY <3>2, <3>3, <3>8, <5>1, <5>3, <6>1 DEF Fits, Told
        <5>4. QED
          BY <3>4, <4>3, <5>2, <5>3
      <4>4. QED
        BY <1>6, <4>1, <4>2, <4>3
    <3>6. "cut" \notin history[i] => Assured(i, call[c])'
      BY <2>0, <3>1, <3>5 DEF Assured, Fits
    <3>7. QED
      BY <2>0, <1>1, <2>1, <2>2, <2>3, <3>6, AskFits
  <2>4. CASE ~ok
    BY <2>0, <1>1, <2>1, <2>2, <2>4, AskFits
  <2>5. QED
    BY <2>0, <2>3, <2>4
<1>7. ASSUME NEW c \in Callers, ActSuspend(c) \/ ActUnsuspend(c) \/ ActScale(c)
      PROVE  SoloInv'
  <2>1. /\ [state |-> "Stopped", suspended |-> TRUE] \in Rows
        /\ [state |-> "Running", suspended |-> FALSE] \in Rows
        /\ call[c].copy \in Rows
    BY DEF Rows, TypeOK, Calls
  <2>2. QED
    BY <1>6, <1>7, <2>1 DEF ActSuspend, ActUnsuspend, ActScale
<1>8. ASSUME NEW c \in Callers, MarkStart(c) \/ MarkStop(c)
      PROVE  SoloInv'
  <2>0. PICK i \in Instances : i = call[c].inst
    BY <1>8, BusyCall DEF MarkStart, MarkStop, Mark, At
  <2>1. PICK verb \in {"Start", "Stop"}, s \in States : Mark(c, verb, s)
    BY <2>0, <1>8 DEF MarkStart, MarkStop
  <2>2. i \in Instances /\ call[c].copy \in Rows /\ call[c].at = "loaded" /\ call[c].verb = verb
    BY <2>0, <2>1, BusyCall DEF Mark, At
  <2>3. UNCHANGED <<backend, history>>
    BY <2>0, <2>1 DEF Mark
  <2>4. InState(call[c].copy, s) \in Rows
    BY <2>0, <2>2 DEF InState, Rows
  <2>5. CASE Present(i)
    <3>1. Write(i, InState(call[c].copy, s)) /\ Move(c, "marked", InState(call[c].copy, s))
      BY <2>0, <2>1, <2>5 DEF Mark, Goto
    <3>2. \A j \in Instances \ {i} : row'[j] = row[j]
      BY <2>0, <2>2, <2>4, <3>1, WriteSettles
    <3>3. call'[c].inst = i /\ call'[c].at = "marked" /\ call'[c].verb = verb
      BY <2>0, <2>2, <2>4, <3>1, MoveKeeps DEF Places
    <3>4. "cut" \notin history[i] /\ "erred" \notin history[i] => backend[i] # "none"
      BY <2>0, <2>2 DEF SoloInv, Assured, Fits, Told
    <3>5. "cut" \notin history'[i] => Assured(i, call[c])'
      BY <2>0, <2>3, <3>3, <3>4 DEF Assured
    <3>6. QED
      BY <2>0, <1>1, <2>2, <2>3, <3>2, <3>3, <3>5, SoloStep
  <2>6. CASE ~Present(i)
    <3>1. call'[c] = Idle /\ row' = row
      BY <2>0, <2>1, <2>6, ReturnKeeps DEF Mark
    <3>2. QED
      BY <2>0, <1>1, <2>2, <2>3, <2>6, <3>1, SoloStep DEF Present
  <2>7. QED
    BY <2>0, <2>5, <2>6
<1>9. ASSUME NEW c \in Callers, LookupFails(c) \/ (Interrupt(c) /\ call[c].inst \in Instances)
      PROVE  SoloInv'
  <2>1. call[c].inst \in Instances
    BY <1>9, BusyCall DEF LookupFails, At
  <2>2. /\ call'[c] = Idle /\ UNCHANGED <<row, backend>>
        /\ "cut" \in history'[call[c].inst]
        /\ \A j \in Instances : (history[j] \ {"woken"}) \subseteq history'[j]
        /\ \A j \in Instances \ {call[c].inst} : history'[j] = history[j]
    BY <1>9, <2>1, ReturnKeeps DEF LookupFails, Interrupt, Note, TypeOK
  <2>3. QED
    BY <1>1, <2>1, <2>2, SoloStep
<1>10. ASSUME NEW c \in Callers, NoProvider(c) \/ ActUpdate(c)
       PROVE  SoloInv'
  <2>0. PICK i \in Instances : i = call[c].inst
    BY <1>10, BusyCall DEF NoProvider, ActUpdate, At
  <2>1. i \in Instances /\ call[c].copy \in Rows /\ call[c].at = "loaded"
    BY <2>0, <1>10, BusyCall DEF NoProvider, ActUpdate, At
  <2>2. call'[c] = Idle /\ UNCHANGED <<backend, history>>
    BY <2>0, <1>10, ReturnKeeps DEF NoProvider, ActUpdate
  <2>3. "cut" \notin history[i] => call[c].copy = row[i] /\ Fits(i, row[i].state)
    BY <2>0, <2>1 DEF SoloInv, Assured
  <2>4. \A j \in Instances \ {i} : row'[j] = row[j]
    BY <2>0, <1>10, <2>1, WriteSettles DEF NoProvider, ActUpdate
  <2>5. "cut" \notin history'[i] => row'[i] = row[i]
    BY <2>0, <1>10, <2>1, <2>2, <2>3 DEF NoProvider, ActUpdate, Write, TypeOK
  <2>6. "cut" \notin history'[i] => Fits(i, row[i].state)'
    BY <2>0, <2>2, <2>3, <2>5 DEF Fits
  <2>7. QED
    BY <2>0, <1>1, <2>1, <2>2, <2>4, <2>6, SoloStep
<1>11. ASSUME NEW c \in Callers, Settle(c) \/ SettleFailed(c)
       PROVE  SoloInv'
  <2>0. PICK i \in Instances : i = call[c].inst
    BY <1>11, BusyCall DEF Settle, SettleFailed
  <2> DEFINE r == IF call[c].at = "acted" THEN call[c].copy ELSE InState(call[c].copy, "Failed")
  <2>1. i \in Instances /\ call[c].copy \in Rows /\ call[c].at \in {"acted", "failing"}
    BY <2>0, <1>11, BusyCall DEF Settle, SettleFailed
  <2>2. r \in Rows /\ Write(i, r)
    BY <2>0, <1>11, <2>1 DEF Settle, SettleFailed, InState, Rows
  <2>3. call'[c] = Idle /\ UNCHANGED <<backend, history>>
    BY <2>0, <1>11, ReturnKeeps DEF Settle, SettleFailed
  <2>4. "cut" \notin history[i] => Fits(i, r.state)
    <3>1. CASE call[c].at = "acted"
      BY <2>0, <2>1, <3>1 DEF SoloInv, Assured
    <3>2. CASE call[c].at = "failing"
      BY <2>0, <2>1, <3>2 DEF SoloInv, Assured, Fits, InState
    <3>3. QED
      BY <2>0, <2>1, <3>1, <3>2
  <2>5. Present(i)' => row'[i] = r
    BY <2>0, <2>1, <2>2 DEF Write, Present, TypeOK
  <2>6. "cut" \notin history'[i] /\ Present(i)' => Fits(i, row[i].state)'
    BY <2>0, <2>3, <2>4, <2>5 DEF Fits
  <2>7. \A j \in Instances \ {i} : row'[j] = row[j]
    BY <2>0, <2>1, <2>2, WriteSettles
  <2>8. QED
    BY <2>0, <1>1, <2>1, <2>3, <2>6, <2>7, SoloStep
<1>12. ASSUME NEW c \in Callers, DeleteMark(c)
       PROVE  SoloInv'
  <2>0. PICK i \in Instances : i = call[c].inst
    BY <1>12, BusyCall DEF DeleteMark, At
  <2>1. i \in Instances /\ call[c].copy \in Rows /\ call[c].verb = "Delete"
    BY <2>0, <1>12, BusyCall DEF DeleteMark, At
  <2>2. PICK place \in {"drop", "marked"}, r \in Rows : Move(c, place, r)
    BY <2>0, <1>12, <2>1 DEF DeleteMark, Goto, InState, Rows
  <2>3. call'[c].inst = i /\ call'[c].at \in {"drop", "marked"} /\ call'[c].verb = "Delete"
    BY <2>0, <2>1, <2>2, MoveKeeps DEF Places
  <2>5. /\ InState(call[c].copy, "Destroying") \in Rows
        /\ InState(call[c].copy, "Destroying").state = "Destroying"
    BY <2>0, <2>1 DEF InState, Rows
  <2>6. \A j \in Instances \ {i} : row'[j] = row[j]
    BY <2>0, <1>12, <2>1, <2>5, WriteSettles DEF DeleteMark
  <2>7. UNCHANGED <<backend, history>>
    BY <2>0, <1>12 DEF DeleteMark
  <2>9. row'[i] = row[i] \/ row'[i].state = "Destroying"
    BY <2>0, <2>1, <2>5, <1>12 DEF DeleteMark, Write, TypeOK
  <2>10. "cut" \notin history[i] => Fits(i, row[i].state)
    BY <2>0, <2>1, <1>12 DEF DeleteMark, At, SoloInv, Assured
  <2>11. "cut" \notin history'[i] => Fits(i, row[i].state)'
    BY <2>7, <2>9, <2>10 DEF Fits, Told
  <2>4. "cut" \notin history'[i] => Assured(i, call[c])'
    BY <2>0, <2>3, <2>11 DEF Assured
  <2>8. QED
    BY <2>0, <1>1, <2>1, <2>3, <2>4, <2>6, <2>7, SoloStep
<1>13. ASSUME NEW c \in Callers, DeleteDeprovision(c)
       PROVE  SoloInv'
  <2>0. PICK i \in Instances : i = call[c].inst
    BY <1>13, BusyCall DEF DeleteDeprovision, At
  <2>1. i \in Instances /\ call[c].copy \in Rows
    BY <2>0, <1>13, BusyCall DEF DeleteDeprovision, At
  <2>2. PICK ok \in BOOLEAN, after \in Powers :
          /\ backend' = [backend EXCEPT ![i] = after]
          /\ IF ok
             THEN /\ Goto(c, "drop", "Destroying")
                  /\ IF Creating(i) THEN Note(i, "overtaken") ELSE history' = history
             ELSE Goto(c, "failing", "Failed") /\ Note(i, "erred")
    BY <2>0, <1>13 DEF DeleteDeprovision
  <2>3. /\ \A j \in Instances : (history[j] \ {"woken"}) \subseteq history'[j]
        /\ \A j \in Instances \ {i} : history'[j] = history[j] /\ backend'[j] = backend[j]
        /\ ~ok => "erred" \in history'[i]
    BY <2>0, <2>1, <2>2 DEF Note, TypeOK
  <2>4. \A s \in States : InState(call[c].copy, s) \in Rows
    BY <2>0, <2>1 DEF InState, Rows
  <2>5. call'[c].inst = i /\ call'[c].at = IF ok THEN "drop" ELSE "failing"
    BY <2>0, <2>1, <2>2, <2>4, MoveKeeps DEF Goto, Places
  <2>6. Assured(i, call[c])'
    BY <2>0, <2>3, <2>5 DEF Assured
  <2>7. QED
    BY <2>0, <1>1, <1>13, <2>1, <2>3, <2>5, <2>6, SoloStep DEF DeleteDeprovision
<1>14. ASSUME NEW c \in Callers, DeleteDisown(c) \/ DeleteDrop(c)
       PROVE  SoloInv'
  <2>0. PICK i \in Instances : i = call[c].inst
    BY <1>14, BusyCall DEF DeleteDisown, DeleteDrop, At
  <2>1. i \in Instances
    BY <2>0, <1>14, BusyCall DEF DeleteDisown, DeleteDrop, At
  <2>2. call'[c] = Idle /\ backend' = backend
    BY <1>14, ReturnKeeps DEF DeleteDisown, DeleteDrop
  <2>3. /\ \A j \in Instances \ {i} : row'[j] = row[j]
        /\ row'[i] = row[i] \/ ~Present(i)'
        /\ row'[i] # row[i] \/ At(c, "Delete", "marked") \/ ~Present(i)'
    BY <2>0, <1>14, <2>1 DEF DeleteDisown, DeleteDrop, Present, Absent, TypeOK
  <2>4. PICK more \in {{}, {"disowned"}, {"disowned", "kept"}} :
           history' = [history EXCEPT ![i] = @ \cup more]
    <3>1. history' = history => history' = [history EXCEPT ![i] = @ \cup {}]
      BY DEF TypeOK
    <3>2. CASE DeleteDrop(c)
      BY <3>1, <3>2 DEF DeleteDrop
    <3>3. CASE DeleteDisown(c)
      BY <2>0, <3>3 DEF DeleteDisown, Note
    <3>4. QED
      BY <1>14, <3>2, <3>3
  <2>5. /\ \A j \in Instances \ {i} : history'[j] = history[j]
        /\ \A j \in Instances : (history[j] \ {"woken"}) \subseteq history'[j]
        /\ "cut" \in history'[i] <=> "cut" \in history[i]
        /\ "erred" \in history'[i] <=> "erred" \in history[i]
        /\ "woken" \in history'[i] <=> "woken" \in history[i]
    BY <2>1, <2>4 DEF TypeOK
  <2>6. "cut" \notin history'[i] /\ Present(i)' => Fits(i, row[i].state)'
    <3> SUFFICES ASSUME "cut" \notin history'[i], Present(i)' PROVE Fits(i, row[i].state)'
      OBVIOUS
    <3>1. call[c].at = "marked" /\ call[c].verb = "Delete" /\ row'[i] = row[i]
      BY <2>3 DEF At
    <3>2. Fits(i, row[i].state)
      BY <2>0, <2>5, <3>1 DEF SoloInv, Assured
    <3>3. QED
      BY <2>2, <2>5, <3>1, <3>2 DEF Fits
  <2>7. QED
    BY <2>0, <1>1, <2>1, <2>2, <2>3, <2>5, <2>6, SoloStep
<1>15. ASSUME Reboot
       PROVE  SoloInv'
  <2>1. \A c \in Callers : call'[c] = Idle /\ Idle.inst \notin Instances
    BY <1>15, LifecycleAssumption DEF Reboot, Idle
  <2>2. ASSUME NEW i \in Instances, "cut" \notin history'[i], Present(i)'
        PROVE  Fits(i, row[i].state)'
    <3>1. ~InFlight(i) /\ "cut" \notin history[i] /\ history'[i] = history[i] /\ Present(i)
      BY <1>15, <2>2 DEF Reboot, Present, TypeOK
    <3>2. Fits(i, row[i].state)
      BY <3>1 DEF SoloInv
    <3>3. QED
      BY <1>15, <3>1, <3>2 DEF Reboot, Fits
  <2>3. QED
    BY <2>1, <2>2 DEF SoloInv
<1>16. ASSUME NEW c \in Callers, Interrupt(c), call[c].inst \notin Instances
       PROVE  SoloInv'
  <2>1. call'[c] = Idle /\ UNCHANGED <<row, backend, history>>
    BY <1>16, ReturnKeeps DEF Interrupt, Note, TypeOK
  <2>2. \A j \in Instances : ~InFlight(j)
    BY <1>16, SoloFlight
  <2>3. \A d \in Callers : call'[d].inst \notin Instances
    BY <2>1, LifecycleAssumption DEF Solo, Idle
  <2>4. ASSUME NEW j \in Instances, "cut" \notin history'[j], Present(j)'
        PROVE  Fits(j, row[j].state)'
    BY <2>1, <2>2, <2>4 DEF SoloInv, Present, Fits
  <2>5. QED
    BY <2>3, <2>4 DEF SoloInv
<1>17. ASSUME NEW c \in Callers, Begin(c)
       PROVE  SoloInv'
  BY <1>2, <1>3, <1>17 DEF Begin, BeginStart, BeginStop, BeginDelete, BeginUnchecked
<1>18. ASSUME NEW c \in Callers, Advance(c)
       PROVE  SoloInv'
  BY <1>4, <1>5, <1>7, <1>8, <1>9, <1>10, <1>11, <1>12, <1>13, <1>14, <1>18 DEF Advance
<1>19. CASE UNCHANGED vars
  BY <1>19 DEF vars, SoloInv, Present, InFlight, Fits, Assured
<1>20. QED
  BY <1>9, <1>15, <1>16, <1>17, <1>18, <1>19 DEF Next

\* The invariants of the theorems about one caller.
LEMMA SoloInvariance == Solo => (Spec => [](TypeOK /\ SoloInv))
<1> SUFFICES ASSUME Solo PROVE Spec => [](TypeOK /\ SoloInv)
  OBVIOUS
<1>1. Init => TypeOK /\ SoloInv
  BY InitType, SoloInit
<1>2. (TypeOK /\ SoloInv) /\ [Next]_vars => (TypeOK /\ SoloInv)'
  BY TypeStep, SoloNext
<1>3. QED
  BY <1>1, <1>2, PTL DEF Spec

(* With calls made one at a time, a row at rest whose calls neither failed *)
(* nor were cut short says what its project does, and the Stopped row of a *)
(* project that kubernetes' Scale woke is the one that runs (ActScale).    *)
THEOREM RowTellsTheTruth == Solo => (Spec => []RowMatchesBackend)
<1> SUFFICES ASSUME Solo PROVE Spec => []RowMatchesBackend
  OBVIOUS
<1>1. SoloInv => RowMatchesBackend
  BY DEF SoloInv, RowMatchesBackend, Fits, Told
<1>2. Spec => []SoloInv
  BY SoloInvariance, PTL
<1>3. QED
  BY <1>1, <1>2, PTL

(* With calls made one at a time and a provider that refuses verbs on a    *)
(* missing project, a row at rest says Running only if there is a project, *)
(* whatever failed.                                                        *)
THEOREM RunningIsProvisioned == Solo /\ ~Lenient => (Spec => []RunningHasProject)
<1> SUFFICES ASSUME Solo, ~Lenient PROVE Spec => []RunningHasProject
  OBVIOUS
<1>1. SoloInv => RunningHasProject
  BY DEF SoloInv, RunningHasProject, Fits, Present
<1>2. Spec => []SoloInv
  BY SoloInvariance, PTL
<1>3. QED
  BY <1>1, <1>2, PTL

=============================================================================
