------------------------ MODULE OwnerIngress_proofs ------------------------
(***************************************************************************)
(* Theorems about OwnerIngress, for any events, policies and capacities:   *)
(* its types, the ownership of deferred events by one drainer thread, that *)
(* channel, hand, spill queue and latch implement one FIFO mailbox, that a *)
(* wake is always on its way, what the latest-value buffer may give up,    *)
(* the control reserve, and that a shutdown drain loses nothing.           *)
(***************************************************************************)
EXTENDS OwnerIngress, SequenceTheorems, FunctionTheorems, FiniteSetTheorems, TLAPS

\* How the deferred side, its thread and the receiver agree.
DeferredShape ==
  /\ latched => remainingBefore <= Len(spill)
  /\ ~latched => remainingBefore = 0
  /\ ~drainerRunning => spill = <<>> /\ ~latched /\ inFlightLane = None
  /\ drainerRunning => thread # "none"
  /\ ~closed /\ thread # "none" => drainerRunning
  /\ closed => ~rxOpen /\ ~drainerRunning
  /\ thread = "sending" => hand \in Items
  /\ inFlightLane # None => thread \in {"sending", "completing", "failing"}
  /\ thread \in {"failing", "marking"} => ~rxOpen

IngressInv == DeferredTypeOK /\ DeferredShape

deferredSide == <<channel, rxOpen, stateVars, threadVars>>

LEMMA LaneOfType == \A x \in Items : LaneOf(x) \in Lanes
BY IngressAssumption DEF LaneOf, Items, Lanes

LEMMA ReserveType == ControlReserve \in Nat
BY IngressAssumption DEF ControlReserve

\* One call of admit_owned keeps the deferred side in shape.
LEMMA AdmitKeeps ==
  ASSUME IngressInv, NEW x \in Items, NEW receipt, Admit(x, receipt), UNCHANGED rxOpen
  PROVE  IngressInv'
<1> USE DEF IngressInv, DeferredTypeOK, DeferredShape, threadVars, stateVars
<1>1. CASE (closed \/ ~rxOpen) /\ MarkClosed /\ UNCHANGED <<channel, threadVars>>
  BY <1>1, EmptySeq DEF MarkClosed, ClearOpen
<1>2. CASE UNCHANGED <<channel, stateVars, threadVars>>
  BY <1>2
<1>3. CASE ~closed /\ rxOpen /\ TrySend(x) /\ UNCHANGED <<stateVars, threadVars>>
  BY <1>3 DEF TrySend
<1>4. CASE /\ ~closed /\ rxOpen
           /\ Push(x) /\ StartDrainer
           /\ UNCHANGED <<channel, latched, remainingBefore, inFlightLane>>
  BY <1>4, LaneOfType DEF Push, StartDrainer
<1>5. CASE ~closed /\ ~drainerRunning /\ ClearOpen /\ UNCHANGED <<channel, closed, threadVars>>
  BY <1>5 DEF ClearOpen
<1> QED BY <1>1, <1>2, <1>3, <1>4, <1>5 DEF Admit

LEMMA TryDirectKeeps ==
  ASSUME IngressInv, NEW e \in Events, NEW receipt, TryDirect(e, receipt), UNCHANGED rxOpen
  PROVE  IngressInv'
<1> USE DEF IngressInv, DeferredTypeOK, DeferredShape, threadVars, stateVars
<1>1. CASE (closed \/ ~rxOpen) /\ MarkClosed /\ UNCHANGED <<channel, threadVars>>
  BY <1>1, EmptySeq DEF MarkClosed, ClearOpen
<1>2. CASE UNCHANGED <<channel, stateVars, threadVars>>
  BY <1>2
<1>3. CASE ~closed /\ rxOpen /\ TrySend(e) /\ UNCHANGED <<stateVars, threadVars>>
  BY <1>3 DEF TrySend, Items
<1> QED BY <1>1, <1>2, <1>3 DEF TryDirect

LEMMA LatchWakeKeeps ==
  ASSUME IngressInv, NEW receipt, LatchWake(receipt), UNCHANGED <<channel, rxOpen>>
  PROVE  IngressInv'
<1> USE DEF IngressInv, DeferredTypeOK, DeferredShape, threadVars, stateVars
<1>1. CASE (closed \/ ~rxOpen) /\ MarkClosed /\ UNCHANGED threadVars
  BY <1>1, EmptySeq DEF MarkClosed, ClearOpen
<1>2. CASE UNCHANGED <<stateVars, threadVars>>
  BY <1>2
<1>3. CASE /\ ~closed /\ rxOpen
           /\ latched' = TRUE /\ remainingBefore' = Len(spill)
           /\ StartDrainer
           /\ UNCHANGED <<spill, inFlightLane, nonControlLen>>
  BY <1>3 DEF StartDrainer
<1>4. CASE ~closed /\ ~drainerRunning /\ ClearOpen /\ UNCHANGED <<closed, threadVars>>
  BY <1>4 DEF ClearOpen
<1> QED BY <1>1, <1>2, <1>3, <1>4 DEF LatchWake

LEMMA DrainerKeeps ==
  ASSUME IngressInv, Drainer
  PROVE  IngressInv'
<1> USE DEF IngressInv, DeferredTypeOK, DeferredShape, threadVars, stateVars
<1>1. CASE DrainerPop
  <2>1. CASE closed /\ MarkClosed /\ EndThread
    BY <1>1, <2>1, EmptySeq DEF DrainerPop, MarkClosed, ClearOpen, EndThread
  <2>2. CASE /\ ~closed /\ latched /\ remainingBefore = 0
             /\ latched' = FALSE
             /\ hand' = Wake /\ thread' = "sending"
             /\ UNCHANGED <<spill, remainingBefore, inFlightLane, nonControlLen, drainerRunning, closed>>
    BY <1>1, <2>2 DEF DrainerPop, Items
  <2>3. CASE /\ ~closed /\ ~(latched /\ remainingBefore = 0) /\ spill # <<>>
             /\ spill' = Tail(spill)
             /\ remainingBefore' = IF latched THEN remainingBefore - 1 ELSE 0
             /\ inFlightLane' = LaneOf(Head(spill))
             /\ hand' = Head(spill) /\ thread' = "sending"
             /\ UNCHANGED <<latched, nonControlLen, drainerRunning, closed>>
    <3>1. Head(spill) \in Items /\ Tail(spill) \in Seq(Items) /\ Len(Tail(spill)) = Len(spill) - 1
      BY <2>3, HeadTailProperties
    <3>2. channel' = channel /\ rxOpen' = rxOpen  BY <1>1 DEF DrainerPop
    <3>3. LaneOf(Head(spill)) \in Lanes  BY <3>1, LaneOfType
    <3>4. drainerRunning  BY <2>3
    <3> HIDE DEF Lanes
    <3>5. remainingBefore' \in Nat /\ (latched => remainingBefore' <= Len(spill'))
      BY <2>3, <3>1
    <3> QED BY <2>3, <3>1, <3>2, <3>3, <3>4, <3>5
  <2>4. CASE /\ ~closed /\ ~(latched /\ remainingBefore = 0) /\ spill = <<>>
             /\ drainerRunning' = FALSE
             /\ EndThread
             /\ UNCHANGED <<spill, latched, remainingBefore, inFlightLane, nonControlLen, closed>>
    <3>1. ~latched /\ inFlightLane = None
      BY <1>1, <2>4, EmptySeq DEF DrainerPop
    <3>2. closed' = closed /\ rxOpen' = rxOpen /\ channel' = channel
      BY <1>1, <2>4 DEF DrainerPop
    <3>3. DeferredTypeOK'  BY <2>4, <3>1, <3>2 DEF EndThread
    <3>4. DeferredShape'  BY <2>4, <3>1, <3>2 DEF EndThread
    <3> QED BY <3>3, <3>4
  <2> QED BY <1>1, <2>1, <2>2, <2>3, <2>4 DEF DrainerPop
<1>2. CASE DrainerSend
  BY <1>2 DEF DrainerSend, TrySend
<1>3. CASE DrainerComplete
  BY <1>3 DEF DrainerComplete
<1>4. CASE DrainerMarkClosed
  BY <1>4, EmptySeq DEF DrainerMarkClosed, MarkClosed, ClearOpen, EndThread
<1> QED BY <1>1, <1>2, <1>3, <1>4 DEF Drainer

-----------------------------------------------------------------------------
(* Types and shape of the whole ingress *)

OwnerShape == rxOpen <=> owner \notin {"done", "aborted"}
Inv == TypeOK /\ DeferredShape /\ OwnerShape

LEMMA ReceiptTypes ==
  /\ Accepted \subseteq Receipts /\ Refused \subseteq Receipts
  /\ \A e \in Events : DirectRejection(e) \in Receipts
BY DEF Receipts, Accepted, Refused, DirectRejection

LEMMA WithoutType ==
  ASSUME BufferTypeOK, NEW i \in DOMAIN buffer
  PROVE  Without(i) \in Seq(Events)
<1>1. i \in 1..Len(buffer) /\ Len(buffer) \in Nat
  BY LenProperties DEF BufferTypeOK
<1>2. \A j \in 1..Len(buffer) : buffer[j] \in Events
  BY ElementOfSeq DEF BufferTypeOK
<1>3. SubSeq(buffer, 1, i - 1) \in Seq(Events)
  <2>1. \A j \in 1..(i - 1) : buffer[j] \in Events  BY <1>1, <1>2
  <2> QED BY <1>1, <2>1, SubSeqProperties
<1>4. SubSeq(buffer, i + 1, Len(buffer)) \in Seq(Events)
  <2>1. \A j \in (i + 1)..Len(buffer) : buffer[j] \in Events  BY <1>1, <1>2
  <2> QED BY <1>1, <2>1, SubSeqProperties
<1> QED BY <1>3, <1>4, ConcatProperties DEF Without

LEMMA InsertedType ==
  ASSUME BufferTypeOK, NEW e \in Events
  PROVE  Inserted(e) \in Seq(Events)
<1>1. CASE GivenUp(e) = {}
  BY <1>1, AppendProperties DEF Inserted, BufferTypeOK
<1>2. CASE GivenUp(e) # {}
  <2> DEFINE i == CHOOSE i \in GivenUp(e) : TRUE
  <2>1. i \in DOMAIN buffer  BY <1>2 DEF GivenUp
  <2>2. Without(i) \in Seq(Events)  BY <2>1, WithoutType
  <2> HIDE DEF i
  <2>3. Append(Without(i), e) \in Seq(Events)  BY <2>2, AppendProperties
  <2>4. Inserted(e) = Append(Without(i), e)  BY <1>2 DEF Inserted, i
  <2> QED BY <2>3, <2>4
<1> QED BY <1>1, <1>2

LEMMA DrainedType ==
  ASSUME BufferTypeOK
  PROVE  {buffer[i] : i \in DOMAIN buffer} \subseteq Events
<1>1. \A i \in DOMAIN buffer : buffer[i] \in Events
  BY LenProperties, ElementOfSeq DEF BufferTypeOK
<1> QED BY <1>1

LEMMA InvInit == Init => Inv
<1> SUFFICES ASSUME Init PROVE Inv
  OBVIOUS
<1> USE DEF Init
<1>1. AdmissionTypeOK  BY DEF AdmissionTypeOK
<1>2. BufferTypeOK  BY EmptySeq DEF BufferTypeOK
<1>3. DeferredTypeOK  BY EmptySeq DEF DeferredTypeOK
<1>4. OwnerTypeOK /\ DeferredShape /\ OwnerShape
  BY DEF OwnerTypeOK, DeferredShape, OwnerShape
<1> QED BY <1>1, <1>2, <1>3, <1>4 DEF Inv, TypeOK

LEMMA InvStep == Inv /\ [Next]_vars => Inv'
<1> SUFFICES ASSUME Inv, [Next]_vars PROVE Inv'
  OBVIOUS
<1> USE DEF Inv, TypeOK
<1>1. CASE UNCHANGED vars
  BY <1>1 DEF vars, admissionVars, bufferVars, stateVars, threadVars, ownerVars, AdmissionTypeOK,
     BufferTypeOK, DeferredTypeOK, OwnerTypeOK, DeferredShape, OwnerShape
<1>2. ASSUME NEW e \in Events, EmitMustDeliver(e) PROVE Inv'
  <2>1. PICK receipt \in Receipts :
          /\ Admit(e, receipt)
          /\ outcome' = [outcome EXCEPT ![e] =
               IF receipt = "saturated" /\ e \in Callbacks THEN "waiting" ELSE receipt]
    BY <1>2 DEF EmitMustDeliver
  <2>2. UNCHANGED <<admissionOpen, emitter, stage, bufferVars, rxOpen, ownerVars>>
    BY <1>2 DEF EmitMustDeliver
  <2>3. IngressInv'  BY <2>1, <2>2, AdmitKeeps DEF IngressInv, Items
  <2>4. AdmissionTypeOK'  BY <2>1, <2>2 DEF AdmissionTypeOK
  <2>5. BufferTypeOK' /\ OwnerTypeOK' /\ OwnerShape'
    BY <2>2 DEF BufferTypeOK, OwnerTypeOK, OwnerShape, bufferVars, ownerVars
  <2> QED BY <2>3, <2>4, <2>5 DEF IngressInv
<1>3. ASSUME NEW e \in Events, EmitDirect(e) PROVE Inv'
  <2>1. PICK receipt \in Receipts :
          TryDirect(e, receipt) /\ outcome' = [outcome EXCEPT ![e] = receipt]
    BY <1>3 DEF EmitDirect
  <2>2. UNCHANGED <<admissionOpen, emitter, stage, bufferVars, rxOpen, ownerVars>>
    BY <1>3 DEF EmitDirect
  <2>3. IngressInv'  BY <2>1, <2>2, TryDirectKeeps DEF IngressInv
  <2>4. AdmissionTypeOK'  BY <2>1, <2>2 DEF AdmissionTypeOK
  <2>5. BufferTypeOK' /\ OwnerTypeOK' /\ OwnerShape'
    BY <2>2 DEF BufferTypeOK, OwnerTypeOK, OwnerShape, bufferVars, ownerVars
  <2> QED BY <2>3, <2>4, <2>5 DEF IngressInv
<1>4. ASSUME NEW e \in Events, EmitRefused(e) \/ CallbackCancelled(e) PROVE Inv'
  <2>1. /\ outcome' = [outcome EXCEPT ![e] = "closed"]
        /\ UNCHANGED <<admissionOpen, emitter, stage, bufferVars, channel, rxOpen,
                       stateVars, threadVars, ownerVars>>
    BY <1>4 DEF EmitRefused, CallbackCancelled
  <2>2. AdmissionTypeOK'  BY <2>1 DEF AdmissionTypeOK, Receipts, Refused
  <2>3. BufferTypeOK' /\ DeferredTypeOK' /\ OwnerTypeOK' /\ DeferredShape' /\ OwnerShape'
    BY <2>1 DEF BufferTypeOK, DeferredTypeOK, OwnerTypeOK, DeferredShape, OwnerShape,
       bufferVars, stateVars, threadVars, ownerVars
  <2> QED BY <2>2, <2>3
<1>5. ASSUME NEW e \in Events, EmitKeyed(e) PROVE Inv'
  <2>0. UNCHANGED <<admissionOpen, channel, rxOpen, threadVars, ownerVars>>
    BY <1>5 DEF EmitKeyed
  <2>1. CASE /\ ~rxOpen
             /\ outcome' = [outcome EXCEPT ![e] = "closed"]
             /\ buffer' = <<>> /\ wakePending' = FALSE
             /\ MarkClosed
             /\ UNCHANGED <<emitter, stage>>
    <3>1. DeferredTypeOK' /\ DeferredShape'
      BY <2>0, <2>1, EmptySeq DEF DeferredTypeOK, DeferredShape, MarkClosed, ClearOpen, threadVars
    <3>2. AdmissionTypeOK'  BY <2>0, <2>1 DEF AdmissionTypeOK, Receipts, Refused
    <3>3. BufferTypeOK'  BY <2>1, EmptySeq DEF BufferTypeOK
    <3>4. OwnerTypeOK' /\ OwnerShape'  BY <2>0 DEF OwnerTypeOK, OwnerShape, ownerVars
    <3> QED BY <3>1, <3>2, <3>3, <3>4
  <2>2. CASE /\ outcome' = [outcome EXCEPT ![e] = DirectRejection(e)]
             /\ UNCHANGED <<emitter, stage, bufferVars, stateVars>>
    <3>1. AdmissionTypeOK'  BY <2>0, <2>2, ReceiptTypes DEF AdmissionTypeOK
    <3>2. BufferTypeOK' /\ DeferredTypeOK' /\ OwnerTypeOK' /\ DeferredShape' /\ OwnerShape'
      BY <2>0, <2>2 DEF BufferTypeOK, DeferredTypeOK, OwnerTypeOK, DeferredShape, OwnerShape,
         bufferVars, stateVars, threadVars, ownerVars
    <3> QED BY <3>1, <3>2
  <2>3. CASE /\ buffer' = Inserted(e)
             /\ wakePending' = TRUE
             /\ IF wakePending
                THEN /\ outcome' = [outcome EXCEPT ![e] = "coalesced"]
                     /\ UNCHANGED <<emitter, stage>>
                ELSE /\ outcome' = [outcome EXCEPT ![e] = "emitting"]
                     /\ emitter' = e /\ stage' = "wake"
             /\ UNCHANGED stateVars
    <3>1. BufferTypeOK'  BY <2>3, InsertedType DEF BufferTypeOK
    <3>2. AdmissionTypeOK'
      BY <2>0, <2>3, IngressAssumption DEF AdmissionTypeOK, Receipts, Accepted, Items
    <3>3. DeferredTypeOK' /\ OwnerTypeOK' /\ DeferredShape' /\ OwnerShape'
      BY <2>0, <2>3 DEF DeferredTypeOK, OwnerTypeOK, DeferredShape, OwnerShape,
         stateVars, threadVars, ownerVars
    <3> QED BY <3>1, <3>2, <3>3
  <2> QED BY <1>5, <2>1, <2>2, <2>3 DEF EmitKeyed
<1>6. CASE OfferWake
  <2>1. PICK receipt \in Receipts :
          /\ Admit(Wake, receipt)
          /\ CASE receipt = "closed" ->
                    FinishEmit("closed") /\ buffer' = <<>> /\ wakePending' = FALSE
               [] receipt = "saturated" ->
                    stage' = "latch" /\ UNCHANGED <<outcome, emitter, bufferVars>>
               [] OTHER ->
                    FinishEmit("coalesced") /\ UNCHANGED bufferVars
    BY <1>6 DEF OfferWake
  <2>2. stage = "wake" /\ UNCHANGED <<admissionOpen, rxOpen, ownerVars>>
    BY <1>6 DEF OfferWake
  <2>3. IngressInv'  BY <2>1, <2>2, AdmitKeeps DEF IngressInv, Items
  <2>4. AdmissionTypeOK'
    BY <2>1, <2>2 DEF AdmissionTypeOK, FinishEmit, Receipts, Accepted, Refused
  <2>5. BufferTypeOK'  BY <2>1, EmptySeq DEF BufferTypeOK, bufferVars
  <2>6. OwnerTypeOK' /\ OwnerShape'  BY <2>2 DEF OwnerTypeOK, OwnerShape, ownerVars
  <2> QED BY <2>3, <2>4, <2>5, <2>6 DEF IngressInv
<1>7. CASE OfferLatch
  <2>1. PICK receipt \in Receipts :
          /\ LatchWake(receipt)
          /\ IF receipt \in Accepted
             THEN FinishEmit("coalesced") /\ UNCHANGED bufferVars
             ELSE FinishEmit("saturated") /\ wakePending' = FALSE /\ UNCHANGED buffer
    BY <1>7 DEF OfferLatch
  <2>2. stage = "latch" /\ UNCHANGED <<admissionOpen, channel, rxOpen, ownerVars>>
    BY <1>7 DEF OfferLatch
  <2>3. IngressInv'  BY <2>1, <2>2, LatchWakeKeeps DEF IngressInv
  <2>4. AdmissionTypeOK'
    BY <2>1, <2>2 DEF AdmissionTypeOK, FinishEmit, Receipts, Accepted, Refused
  <2>5. BufferTypeOK'  BY <2>1 DEF BufferTypeOK, bufferVars
  <2>6. OwnerTypeOK' /\ OwnerShape'  BY <2>2 DEF OwnerTypeOK, OwnerShape, ownerVars
  <2> QED BY <2>3, <2>4, <2>5, <2>6 DEF IngressInv
<1>8. CASE Drainer
  <2>1. IngressInv'  BY <1>8, DrainerKeeps DEF IngressInv
  <2>2. UNCHANGED <<admissionVars, bufferVars, rxOpen, ownerVars>>
    BY <1>8 DEF Drainer, DrainerPop, DrainerSend, DrainerComplete, DrainerMarkClosed
  <2>3. AdmissionTypeOK' /\ BufferTypeOK' /\ OwnerTypeOK' /\ OwnerShape'
    BY <2>2 DEF AdmissionTypeOK, BufferTypeOK, OwnerTypeOK, OwnerShape, admissionVars,
       bufferVars, ownerVars
  <2> QED BY <2>1, <2>3 DEF IngressInv
<1>9. CASE OwnerReceive
  <2>1. Head(channel) \in Items /\ Tail(channel) \in Seq(Items)
    BY <1>9, HeadTailProperties DEF OwnerReceive, DeferredTypeOK
  <2>2. UNCHANGED <<admissionVars, bufferVars, rxOpen, stateVars, threadVars>> /\ channel' = Tail(channel)
    BY <1>9 DEF OwnerReceive
  <2>3. DeferredTypeOK' /\ DeferredShape'
    BY <2>1, <2>2 DEF DeferredTypeOK, DeferredShape, stateVars, threadVars
  <2>4. AdmissionTypeOK' /\ BufferTypeOK'
    BY <2>2 DEF AdmissionTypeOK, BufferTypeOK, admissionVars, bufferVars
  <2>5. OwnerTypeOK' /\ OwnerShape'
    BY <1>9, <2>1, <2>2 DEF OwnerReceive, OwnerTypeOK, OwnerShape, Items
  <2> QED BY <2>3, <2>4, <2>5
<1>10. CASE OwnerDrain
  <2>1. UNCHANGED <<admissionVars, channel, rxOpen, stateVars, threadVars>>
    BY <1>10 DEF OwnerDrain
  <2>2. DeferredTypeOK' /\ DeferredShape' /\ AdmissionTypeOK'
    BY <2>1 DEF DeferredTypeOK, DeferredShape, AdmissionTypeOK, stateVars, threadVars, admissionVars
  <2>3. BufferTypeOK'  BY <1>10, EmptySeq DEF OwnerDrain, BufferTypeOK
  <2>4. OwnerTypeOK' /\ OwnerShape'
    BY <1>10, <2>1, DrainedType DEF OwnerDrain, OwnerTypeOK, OwnerShape
  <2> QED BY <2>2, <2>3, <2>4
<1>11. CASE CloseAdmission \/ ObserveEmpty \/ ObserveIdle \/ ConfirmEmpty
  <2>1. /\ UNCHANGED <<outcome, emitter, stage, bufferVars, channel, rxOpen, stateVars,
                       threadVars, received>>
        /\ admissionOpen' \in {FALSE, admissionOpen}
    BY <1>11 DEF CloseAdmission, ObserveEmpty, ObserveIdle, ConfirmEmpty, admissionVars
  <2>2. DeferredTypeOK' /\ DeferredShape' /\ AdmissionTypeOK' /\ BufferTypeOK'
    <3>1. DeferredTypeOK'  BY <2>1 DEF DeferredTypeOK, stateVars, threadVars
    <3>2. DeferredShape'  BY <2>1 DEF DeferredShape, stateVars, threadVars
    <3>3. AdmissionTypeOK'  BY <2>1 DEF AdmissionTypeOK
    <3>4. BufferTypeOK'  BY <2>1 DEF BufferTypeOK, bufferVars
    <3> QED BY <3>1, <3>2, <3>3, <3>4
  <2>3. OwnerTypeOK' /\ OwnerShape'
    BY <1>11, <2>1 DEF CloseAdmission, ObserveEmpty, ObserveIdle, ConfirmEmpty, OwnerTypeOK, OwnerShape
  <2> QED BY <2>2, <2>3
<1>12. CASE CloseReceiver \/ DropReceiver
  <2>1. /\ UNCHANGED <<admissionVars, bufferVars, stateVars, threadVars, received>>
        /\ rxOpen' = FALSE /\ channel' \in {<<>>, channel} /\ owner' \in {"done", "aborted"}
    BY <1>12 DEF CloseReceiver, DropReceiver
  <2>2. DeferredTypeOK'  BY <2>1, EmptySeq DEF DeferredTypeOK, stateVars, threadVars
  <2>3. DeferredShape'  BY <2>1 DEF DeferredShape, stateVars, threadVars
  <2>4. AdmissionTypeOK' /\ BufferTypeOK' /\ OwnerTypeOK' /\ OwnerShape'
    BY <2>1 DEF AdmissionTypeOK, BufferTypeOK, OwnerTypeOK, OwnerShape, admissionVars, bufferVars
  <2> QED BY <2>2, <2>3, <2>4
<1> QED
  BY <1>1, <1>2, <1>3, <1>4, <1>5, <1>6, <1>7, <1>8, <1>9, <1>10, <1>11, <1>12
  DEF Next, Produce, EmitSteps, Owner, Shutdown

\* Every state of the ingress is well typed: receipts, lanes, counters and
\* the drainer's position never leave their ranges.
THEOREM TypeCorrect == Spec => []TypeOK
<1>1. Inv => TypeOK  BY DEF Inv
<1> QED BY InvInit, InvStep, <1>1, PTL DEF Spec

\* Whatever is deferred has a drainer thread to deliver it, for any
\* capacities and any interleaving with failed spawns and a closing owner.
THEOREM DeferredAlwaysOwned == Spec => []DeferredIsOwned
<1>1. Inv => DeferredIsOwned  BY DEF Inv, DeferredShape, DeferredIsOwned
<1> QED BY InvInit, InvStep, <1>1, PTL DEF Spec

-----------------------------------------------------------------------------
(* The queue with the latched wake at its sequence point *)

LEMMA SingletonSeq == ASSUME NEW x \in Items PROVE <<x>> \in Seq(Items)
OBVIOUS

LEMMA WakeItem == Wake \in Items
BY DEF Items

LEMMA SubSeqTypes ==
  ASSUME NEW s \in Seq(Items), NEW b \in 0..Len(s)
  PROVE  /\ SubSeq(s, 1, b) \in Seq(Items)
         /\ SubSeq(s, b + 1, Len(s)) \in Seq(Items)
<1>1. Len(s) \in Nat /\ \A i \in 1..Len(s) : s[i] \in Items
  BY LenProperties, ElementOfSeq
<1>2. \A i \in 1..b : s[i] \in Items  BY <1>1
<1>3. \A i \in (b + 1)..Len(s) : s[i] \in Items  BY <1>1
<1>4. SubSeq(s, 1, b) \in Seq(Items)  BY <1>1, <1>2, SubSeqProperties
<1>5. SubSeq(s, b + 1, Len(s)) \in Seq(Items)  BY <1>1, <1>3, SubSeqProperties
<1> QED BY <1>4, <1>5

LEMMA QueueOfType ==
  ASSUME NEW s \in Seq(Items), NEW w \in BOOLEAN, NEW b \in Nat, w => b <= Len(s)
  PROVE  QueueOf(s, w, b) \in Seq(Items)
<1>1. CASE ~w
  BY <1>1 DEF QueueOf
<1>2. CASE w
  <2>1. b \in 0..Len(s)  BY <1>2, LenProperties
  <2>2. <<Wake>> \o SubSeq(s, b + 1, Len(s)) \in Seq(Items)
    BY <2>1, SubSeqTypes, SingletonSeq, WakeItem, ConcatProperties
  <2>3. SubSeq(s, 1, b) \o (<<Wake>> \o SubSeq(s, b + 1, Len(s))) \in Seq(Items)
    BY <2>1, <2>2, SubSeqTypes, ConcatProperties
  <2> QED BY <1>2, <2>3 DEF QueueOf
<1> QED BY <1>1, <1>2

\* A push goes behind the latched wake.
LEMMA QueueOfAppend ==
  ASSUME NEW s \in Seq(Items), NEW w \in BOOLEAN, NEW b \in Nat, w => b <= Len(s),
         NEW x \in Items
  PROVE  QueueOf(Append(s, x), w, b) = QueueOf(s, w, b) \o <<x>>
<1> DEFINE t == Append(s, x)
<1>1. t \in Seq(Items) /\ Len(t) = Len(s) + 1 /\ t = s \o <<x>> /\ Len(s) \in Nat
  BY AppendProperties, AppendIsConcat, LenProperties
<1>2. CASE ~w
  BY <1>1, <1>2 DEF QueueOf
<1>3. CASE w
  <2>1. b \in 0..Len(s)  BY <1>3, <1>1
  <2>2. SubSeq(t, 1, b) = SubSeq(s, 1, b)
    <3>1. CASE b = 0
      BY <3>1, SubSeqEmpty
    <3>2. CASE b # 0
      <4>1. b \in 1..Len(s) /\ 1 \in 1..Len(s)  BY <2>1, <3>2, <1>1
      <4> QED BY <4>1, <1>1, SingletonSeq, SubSeqOfConcat1
    <3> QED BY <3>1, <3>2
  <2>3. SubSeq(t, b + 1, Len(s)) = SubSeq(s, b + 1, Len(s))
    <3>1. CASE b = Len(s)
      BY <3>1, <1>1, SubSeqEmpty
    <3>2. CASE b # Len(s)
      <4>1. b + 1 \in 1..Len(s) /\ Len(s) \in 1..Len(s)  BY <2>1, <3>2, <1>1
      <4> QED BY <4>1, <1>1, SingletonSeq, SubSeqOfConcat1
    <3> QED BY <3>1, <3>2
  <2>4. SubSeq(t, b + 1, Len(t)) = SubSeq(s, b + 1, Len(s)) \o <<x>>
    <3>1. b + 1 \in 1..Len(t) /\ Len(t) \in (b + 1)..Len(t)  BY <2>1, <1>1
    <3>2. SubSeq(t, b + 1, Len(t)) = SubSeq(t, b + 1, Len(t) - 1) \o <<t[Len(t)]>>
      BY <3>1, <1>1, SubSeqRecursiveSecond
    <3>3. t[Len(t)] = x /\ Len(t) - 1 = Len(s)  BY <1>1, AppendProperties
    <3> QED BY <3>2, <3>3, <2>3
  <2> DEFINE A == SubSeq(s, 1, b)
             C == SubSeq(s, b + 1, Len(s))
  <2>5. A \in Seq(Items) /\ C \in Seq(Items) /\ <<Wake>> \in Seq(Items) /\ <<x>> \in Seq(Items)
    BY <2>1, SubSeqTypes, SingletonSeq, WakeItem
  <2>6. QueueOf(t, w, b) = A \o (<<Wake>> \o (C \o <<x>>))
    BY <1>3, <2>2, <2>4 DEF QueueOf
  <2>7. QueueOf(s, w, b) = A \o (<<Wake>> \o C)
    BY <1>3 DEF QueueOf
  <2> HIDE DEF A, C
  <2>8. <<Wake>> \o C \in Seq(Items)  BY <2>5, ConcatProperties
  <2>9. <<Wake>> \o (C \o <<x>>) = (<<Wake>> \o C) \o <<x>>  BY <2>5, ConcatAssociative
  <2>10. A \o ((<<Wake>> \o C) \o <<x>>) = (A \o (<<Wake>> \o C)) \o <<x>>
    BY <2>5, <2>8, ConcatAssociative
  <2> QED BY <2>6, <2>7, <2>9, <2>10
<1> QED BY <1>2, <1>3

\* Latching puts the wake behind everything queued.
LEMMA QueueOfLatch ==
  ASSUME NEW s \in Seq(Items)
  PROVE  QueueOf(s, TRUE, Len(s)) = s \o <<Wake>>
<1>1. Len(s) \in Nat  BY LenProperties
<1>2. SubSeq(s, 1, Len(s)) = s  BY SubSeqFull
<1>3. SubSeq(s, Len(s) + 1, Len(s)) = <<>>  BY <1>1, SubSeqEmpty
<1>4. <<Wake>> \o <<>> = <<Wake>>  BY SingletonSeq, WakeItem, ConcatEmptySeq
<1> QED BY <1>2, <1>3, <1>4 DEF QueueOf

\* At its sequence point the wake is first.
LEMMA QueueOfWakeFirst ==
  ASSUME NEW s \in Seq(Items)
  PROVE  QueueOf(s, TRUE, 0) = <<Wake>> \o s
<1>1. SubSeq(s, 1, 0) = <<>>  BY SubSeqEmpty
<1>2. SubSeq(s, 0 + 1, Len(s)) = s  BY SubSeqFull
<1>3. <<Wake>> \o s \in Seq(Items)  BY SingletonSeq, WakeItem, ConcatProperties
<1>4. <<>> \o (<<Wake>> \o s) = <<Wake>> \o s  BY <1>3, ConcatEmptySeq
<1> QED BY <1>1, <1>2, <1>4 DEF QueueOf

\* Before it the oldest queued event is.
LEMMA QueueOfHeadFirst ==
  ASSUME NEW s \in Seq(Items), s # <<>>, NEW w \in BOOLEAN, NEW b \in Nat,
         w => b \in 1..Len(s)
  PROVE  QueueOf(s, w, b) = <<Head(s)>> \o QueueOf(Tail(s), w, IF w THEN b - 1 ELSE 0)
<1>1. /\ Head(s) \in Items /\ Tail(s) \in Seq(Items) /\ Len(Tail(s)) = Len(s) - 1
      /\ Len(s) \in Nat \ {0} /\ Tail(s) = SubSeq(s, 2, Len(s)) /\ Head(s) = s[1]
  BY HeadTailProperties, TailIsSubSeq, EmptySeq
<1>2. CASE ~w
  <2>1. 1 \in 1..Len(s) /\ Len(s) \in 1..Len(s)  BY <1>1
  <2>2. SubSeq(s, 1, Len(s)) = <<s[1]>> \o SubSeq(s, 1 + 1, Len(s))
    BY <2>1, SubSeqRecursiveFirst
  <2>3. s = <<s[1]>> \o SubSeq(s, 2, Len(s))  BY <2>2, SubSeqFull
  <2> QED BY <1>1, <1>2, <2>3 DEF QueueOf
<1>3. CASE w
  <2> DEFINE t == Tail(s)
             A == SubSeq(t, 1, b - 1)
             C == SubSeq(t, b - 1 + 1, Len(t))
  <2>0. b \in 1..Len(s) /\ b - 1 \in 0..Len(t) /\ b - 1 + 1 = b  BY <1>1, <1>3
  <2>1. SubSeq(s, 1, b) = <<Head(s)>> \o SubSeq(s, 1 + 1, b)
    <3>1. 1 \in 1..Len(s) /\ b \in 1..Len(s)  BY <2>0, <1>1
    <3> QED BY <3>1, <1>1, SubSeqRecursiveFirst
  <2>2. SubSeq(s, 2, b) = A
    <3>1. CASE b = 1
      BY <3>1, SubSeqEmpty
    <3>2. CASE b # 1
      <4>1. /\ 2 \in 1..Len(s) /\ Len(s) \in 1..Len(s)
            /\ 1 \in 1..(Len(s) - 2 + 1) /\ b - 1 \in 1..(Len(s) - 2 + 1)
        BY <3>2, <2>0, <1>1
      <4>2. SubSeq(SubSeq(s, 2, Len(s)), 1, b - 1) = SubSeq(s, 2 + 1 - 1, 2 + (b - 1) - 1)
        BY <4>1, SubSeqOfSubSeq
      <4>3. 2 + 1 - 1 = 2 /\ 2 + (b - 1) - 1 = b  BY <2>0
      <4> QED BY <4>2, <4>3, <1>1
    <3> QED BY <3>1, <3>2
  <2>3. SubSeq(s, b + 1, Len(s)) = C
    <3>1. CASE b = Len(s)
      BY <3>1, <2>0, <1>1, SubSeqEmpty
    <3>2. CASE b # Len(s)
      <4>1. /\ 2 \in 1..Len(s) /\ Len(s) \in 1..Len(s)
            /\ b \in 1..(Len(s) - 2 + 1) /\ Len(s) - 1 \in 1..(Len(s) - 2 + 1)
        <5>1. Len(s) \in Nat /\ b \in 1..Len(s) /\ b # Len(s)  BY <3>2, <2>0, <1>1
        <5> QED BY <5>1
      <4>2. SubSeq(SubSeq(s, 2, Len(s)), b, Len(s) - 1)
              = SubSeq(s, 2 + b - 1, 2 + (Len(s) - 1) - 1)
        BY <4>1, SubSeqOfSubSeq
      <4>3. 2 + b - 1 = b + 1 /\ 2 + (Len(s) - 1) - 1 = Len(s)  BY <2>0, <1>1
      <4> QED BY <4>2, <4>3, <1>1, <2>0
    <3> QED BY <3>1, <3>2
  <2>4. A \in Seq(Items) /\ C \in Seq(Items) /\ <<Wake>> \in Seq(Items) /\ <<Head(s)>> \in Seq(Items)
    BY <1>1, <2>0, SubSeqTypes, SingletonSeq, WakeItem
  <2>5. QueueOf(s, w, b) = (<<Head(s)>> \o A) \o (<<Wake>> \o C)
    <3>1. QueueOf(s, w, b) = SubSeq(s, 1, b) \o (<<Wake>> \o SubSeq(s, b + 1, Len(s)))
      BY <1>3 DEF QueueOf
    <3>2. 1 + 1 = 2  OBVIOUS
    <3>3. SubSeq(s, 1, b) = <<Head(s)>> \o A  BY <2>1, <2>2, <3>2
    <3> HIDE DEF A, C
    <3> QED BY <3>1, <3>3, <2>3
  <2>6. QueueOf(t, w, IF w THEN b - 1 ELSE 0) = A \o (<<Wake>> \o C)
    BY <1>3 DEF QueueOf
  <2> HIDE DEF A, C
  <2>7. <<Wake>> \o C \in Seq(Items)  BY <2>4, ConcatProperties
  <2>8. (<<Head(s)>> \o A) \o (<<Wake>> \o C) = <<Head(s)>> \o (A \o (<<Wake>> \o C))
    BY <2>4, <2>7, ConcatAssociative
  <2> QED BY <2>5, <2>6, <2>8
<1> QED BY <1>2, <1>3

-----------------------------------------------------------------------------
(* The pipeline is the mailbox of OwnerMailbox *)

LEMMA PipeAppend ==
  ASSUME NEW c \in Seq(Items), NEW h \in Seq(Items), NEW q \in Seq(Items), NEW x \in Items
  PROVE  c \o (h \o (q \o <<x>>)) = Append(c \o (h \o q), x)
<1>1. <<x>> \in Seq(Items) /\ h \o q \in Seq(Items) /\ c \o (h \o q) \in Seq(Items)
  BY SingletonSeq, ConcatProperties
<1>2. h \o (q \o <<x>>) = (h \o q) \o <<x>>  BY <1>1, ConcatAssociative
<1>3. c \o ((h \o q) \o <<x>>) = (c \o (h \o q)) \o <<x>>  BY <1>1, ConcatAssociative
<1>4. Append(c \o (h \o q), x) = (c \o (h \o q)) \o <<x>>  BY <1>1, AppendIsConcat
<1> QED BY <1>2, <1>3, <1>4

LEMMA PipeSend ==
  ASSUME NEW c \in Seq(Items), NEW q \in Seq(Items), NEW x \in Items
  PROVE  Append(c, x) \o (<<>> \o q) = c \o (<<x>> \o q)
<1>1. <<x>> \in Seq(Items) /\ Append(c, x) = c \o <<x>>  BY SingletonSeq, AppendIsConcat
<1>2. <<>> \o q = q  BY ConcatEmptySeq
<1>3. (c \o <<x>>) \o q = c \o (<<x>> \o q)  BY <1>1, ConcatAssociative
<1> QED BY <1>1, <1>2, <1>3

LEMMA PipeTake ==
  ASSUME NEW c \in Seq(Items), NEW r \in Seq(Items), c # <<>>
  PROVE  c \o r # <<>> /\ Tail(c \o r) = Tail(c) \o r
<1>1. /\ Len(c) \in Nat \ {0} /\ Len(r) \in Nat
      /\ Tail(c) \in Seq(Items) /\ Len(Tail(c)) = Len(c) - 1
      /\ \A i \in 1..Len(Tail(c)) : Tail(c)[i] = c[i + 1]
  BY EmptySeq, LenProperties, HeadTailProperties
<1>2. /\ c \o r \in Seq(Items) /\ Len(c \o r) = Len(c) + Len(r)
      /\ \A i \in 1..(Len(c) + Len(r)) :
           (c \o r)[i] = IF i <= Len(c) THEN c[i] ELSE r[i - Len(c)]
  BY ConcatProperties
<1>3. c \o r # <<>>  BY ConcatEqualIffEmpty
<1>4. /\ Tail(c \o r) \in Seq(Items) /\ Len(Tail(c \o r)) = Len(c) + Len(r) - 1
      /\ \A i \in 1..(Len(c) + Len(r) - 1) : Tail(c \o r)[i] = (c \o r)[i + 1]
  BY <1>2, <1>3, HeadTailProperties
<1>5. /\ Tail(c) \o r \in Seq(Items) /\ Len(Tail(c) \o r) = Len(c) - 1 + Len(r)
      /\ \A i \in 1..(Len(c) - 1 + Len(r)) :
           (Tail(c) \o r)[i] = IF i <= Len(c) - 1 THEN Tail(c)[i] ELSE r[i - (Len(c) - 1)]
  <2>1. /\ Tail(c) \o r \in Seq(Items) /\ Len(Tail(c) \o r) = Len(Tail(c)) + Len(r)
        /\ \A i \in 1..(Len(Tail(c)) + Len(r)) :
             (Tail(c) \o r)[i] = IF i <= Len(Tail(c)) THEN Tail(c)[i] ELSE r[i - Len(Tail(c))]
    BY <1>1, ConcatProperties
  <2> QED BY <2>1, <1>1
<1>6. ASSUME NEW i \in 1..(Len(c) + Len(r) - 1)
      PROVE  Tail(c \o r)[i] = (Tail(c) \o r)[i]
  <2>1. i + 1 \in 1..(Len(c) + Len(r)) /\ i \in 1..(Len(c) - 1 + Len(r))  BY <1>1
  <2>2. Tail(c \o r)[i] = IF i + 1 <= Len(c) THEN c[i + 1] ELSE r[i + 1 - Len(c)]
    BY <2>1, <1>2, <1>4
  <2>3. CASE i <= Len(c) - 1
    <3>1. i + 1 <= Len(c) /\ i \in 1..Len(Tail(c))  BY <2>1, <2>3, <1>1
    <3> QED BY <3>1, <2>1, <2>2, <2>3, <1>1, <1>5
  <2>4. CASE ~(i <= Len(c) - 1)
    <3>1. ~(i + 1 <= Len(c)) /\ i + 1 - Len(c) = i - (Len(c) - 1)  BY <2>1, <2>4, <1>1
    <3> QED BY <3>1, <2>1, <2>2, <2>4, <1>5
  <2> QED BY <2>3, <2>4
<1>7. Len(c) + Len(r) - 1 = Len(c) - 1 + Len(r)  BY <1>1
<1>8. Tail(c \o r) = Tail(c) \o r
  BY <1>4, <1>5, <1>6, <1>7, SeqEqual
<1> QED BY <1>3, <1>8

LEMMA PipelineTypes ==
  ASSUME IngressInv
  PROVE  InHand \in Seq(Items) /\ Queued \in Seq(Items) /\ channel \in Seq(Items)
<1>1. Queued \in Seq(Items)
  BY QueueOfType DEF Queued, IngressInv, DeferredTypeOK, DeferredShape
<1>2. InHand \in Seq(Items)
  BY EmptySeq, SingletonSeq DEF InHand, IngressInv, DeferredTypeOK, DeferredShape
<1> QED BY <1>1, <1>2 DEF IngressInv, DeferredTypeOK

\* admit_owned appends the event or leaves the mailbox alone.
LEMMA AdmitMaps ==
  ASSUME IngressInv, NEW x \in Items, NEW receipt, Admit(x, receipt), UNCHANGED rxOpen
  PROVE  Mailbox!Accept(x) \/ UNCHANGED <<Pipeline, rxOpen>>
<1> USE DEF IngressInv
<1>0. InHand \in Seq(Items) /\ Queued \in Seq(Items) /\ channel \in Seq(Items)
  BY PipelineTypes
<1>1. CASE ~rxOpen \/ closed
  BY <1>1 DEF Pipeline, DeferredShape
<1>2. CASE UNCHANGED <<channel, stateVars, threadVars>>
  BY <1>2 DEF Pipeline, InHand, Queued, stateVars, threadVars
<1>3. CASE ~closed /\ rxOpen /\ ~drainerRunning /\ TrySend(x) /\ UNCHANGED <<stateVars, threadVars>>
  <2>1. InHand = <<>> /\ Queued = <<>> /\ InHand' = <<>> /\ Queued' = <<>>
    BY <1>3 DEF DeferredShape, InHand, Queued, QueueOf, stateVars, threadVars
  <2>2. Append(channel, x) \in Seq(Items)  BY <1>0, AppendProperties
  <2>3. <<>> \o <<>> = <<>> /\ channel \o <<>> = channel /\ Append(channel, x) \o <<>> = Append(channel, x)
    BY <1>0, <2>2, EmptySeq, ConcatEmptySeq
  <2>4. Pipeline = channel /\ Pipeline' = Append(channel, x)
    BY <1>3, <2>1, <2>3 DEF Pipeline, TrySend
  <2> QED BY <1>3, <2>4 DEF Mailbox!Accept
<1>4. CASE /\ ~closed /\ rxOpen
           /\ Push(x) /\ StartDrainer
           /\ UNCHANGED <<channel, latched, remainingBefore, inFlightLane>>
  <2>1. InHand' = InHand
    BY <1>4 DEF StartDrainer, InHand, DeferredShape, DeferredTypeOK
  <2>2. Queued' = Queued \o <<x>>
    BY <1>4, QueueOfAppend DEF Push, Queued, DeferredShape, DeferredTypeOK
  <2>3. Pipeline = channel \o (InHand \o Queued) /\ Pipeline' = channel \o (InHand \o (Queued \o <<x>>))
    BY <1>4, <2>1, <2>2 DEF Pipeline
  <2>4. Pipeline' = Append(Pipeline, x)
    BY <2>3, <1>0, PipeAppend
  <2> QED BY <1>4, <2>4 DEF Mailbox!Accept
<1>5. CASE ~closed /\ rxOpen /\ ~drainerRunning /\ ClearOpen /\ UNCHANGED <<channel, threadVars>>
  BY <1>5 DEF ClearOpen, Pipeline, InHand, Queued, QueueOf, threadVars, DeferredShape
<1> QED BY <1>1, <1>2, <1>3, <1>4, <1>5 DEF Admit

\* try_direct sends only into an otherwise empty pipeline.
LEMMA TryDirectMaps ==
  ASSUME IngressInv, NEW e \in Events, NEW receipt, TryDirect(e, receipt), UNCHANGED rxOpen
  PROVE  Mailbox!Accept(e) \/ UNCHANGED <<Pipeline, rxOpen>>
<1>1. CASE ~rxOpen \/ closed
  BY <1>1 DEF Pipeline, DeferredShape, IngressInv
<1>2. CASE UNCHANGED <<channel, stateVars, threadVars>>
  BY <1>2 DEF Pipeline, InHand, Queued, stateVars, threadVars
<1>3. CASE ~closed /\ rxOpen /\ ~drainerRunning /\ spill = <<>> /\ TrySend(e) /\ UNCHANGED <<stateVars, threadVars>>
  <2>1. Admit(e, "enqueued")  BY <1>3 DEF Admit
  <2> QED BY <2>1, AdmitMaps DEF Items
<1> QED BY <1>1, <1>2, <1>3 DEF TryDirect

\* latch_wake puts the wake at the end.
LEMMA LatchWakeMaps ==
  ASSUME IngressInv, NEW receipt, LatchWake(receipt), UNCHANGED <<channel, rxOpen>>
  PROVE  Mailbox!Accept(Wake) \/ UNCHANGED <<Pipeline, rxOpen>>
<1> USE DEF IngressInv
<1>0. InHand \in Seq(Items) /\ Queued \in Seq(Items) /\ channel \in Seq(Items)
  BY PipelineTypes
<1>1. CASE ~rxOpen \/ closed
  BY <1>1 DEF Pipeline, DeferredShape
<1>2. CASE UNCHANGED <<stateVars, threadVars>>
  BY <1>2 DEF Pipeline, InHand, Queued, stateVars, threadVars
<1>3. CASE /\ ~closed /\ rxOpen /\ ~latched
           /\ latched' = TRUE /\ remainingBefore' = Len(spill)
           /\ StartDrainer
           /\ UNCHANGED <<spill, inFlightLane, nonControlLen>>
  <2>1. InHand' = InHand
    BY <1>3 DEF StartDrainer, InHand, DeferredShape, DeferredTypeOK
  <2>2. Queued' = Queued \o <<Wake>>
    <3>1. Queued = spill /\ spill \in Seq(Items)  BY <1>3 DEF Queued, QueueOf, DeferredTypeOK
    <3>2. Queued' = QueueOf(spill, TRUE, Len(spill))  BY <1>3 DEF Queued, QueueOf
    <3> QED BY <3>1, <3>2, QueueOfLatch
  <2>3. Pipeline = channel \o (InHand \o Queued)
        /\ Pipeline' = channel \o (InHand \o (Queued \o <<Wake>>))
    BY <1>3, <2>1, <2>2 DEF Pipeline
  <2>4. Pipeline' = Append(Pipeline, Wake)
    BY <2>3, <1>0, WakeItem, PipeAppend
  <2> QED BY <1>3, <2>4 DEF Mailbox!Accept
<1>4. CASE ~closed /\ rxOpen /\ ~drainerRunning /\ ClearOpen /\ UNCHANGED threadVars
  BY <1>4 DEF ClearOpen, Pipeline, InHand, Queued, QueueOf, threadVars, DeferredShape
<1> QED BY <1>1, <1>2, <1>3, <1>4 DEF LatchWake

\* The drainer thread moves events along the pipeline without reordering it.
LEMMA DrainerMaps ==
  ASSUME IngressInv, Drainer
  PROVE  UNCHANGED <<Pipeline, rxOpen>>
<1> USE DEF IngressInv
<1>0. /\ InHand \in Seq(Items) /\ Queued \in Seq(Items) /\ channel \in Seq(Items)
      /\ spill \in Seq(Items)
      /\ UNCHANGED rxOpen
  BY PipelineTypes
  DEF DeferredTypeOK, Drainer, DrainerPop, DrainerSend, DrainerComplete, DrainerMarkClosed
<1>1. CASE ~rxOpen \/ closed
  BY <1>0, <1>1 DEF Pipeline, DeferredShape
<1>2. CASE rxOpen /\ ~closed /\ DrainerPop
  <2>0. channel' = channel /\ InHand = <<>>  BY <1>2 DEF DrainerPop, InHand
  <2>1. CASE latched /\ remainingBefore = 0 /\ latched' = FALSE /\ hand' = Wake
             /\ thread' = "sending" /\ spill' = spill
    <3>1. InHand' = <<Wake>> /\ Queued' = spill /\ Queued = QueueOf(spill, TRUE, 0)
      BY <2>1 DEF InHand, Queued, QueueOf
    <3>2. Queued = <<Wake>> \o spill  BY <3>1, <1>0, QueueOfWakeFirst
    <3>3. <<>> \o Queued = Queued  BY <1>0, ConcatEmptySeq
    <3> QED BY <3>1, <3>2, <3>3, <2>0, <1>0 DEF Pipeline
  <2>2. CASE /\ ~(latched /\ remainingBefore = 0) /\ spill # <<>> /\ spill' = Tail(spill)
             /\ remainingBefore' = IF latched THEN remainingBefore - 1 ELSE 0
             /\ hand' = Head(spill) /\ thread' = "sending" /\ latched' = latched
    <3>1. InHand' = <<Head(spill)>>
          /\ Queued' = QueueOf(Tail(spill), latched, IF latched THEN remainingBefore - 1 ELSE 0)
      BY <2>2 DEF InHand, Queued
    <3>2. latched => remainingBefore \in 1..Len(spill)
      BY <2>2, LenProperties DEF DeferredShape, DeferredTypeOK
    <3>3. Queued = <<Head(spill)>> \o Queued'
      <4>1. latched \in BOOLEAN /\ remainingBefore \in Nat  BY DEF DeferredTypeOK
      <4>2. QueueOf(spill, latched, remainingBefore)
              = <<Head(spill)>> \o QueueOf(Tail(spill), latched, IF latched THEN remainingBefore - 1 ELSE 0)
        BY <4>1, <3>2, <2>2, <1>0, QueueOfHeadFirst
      <4> QED BY <4>2, <3>1 DEF Queued
    <3>4. <<>> \o Queued = Queued  BY <1>0, ConcatEmptySeq
    <3> QED BY <3>1, <3>3, <3>4, <2>0, <1>0 DEF Pipeline
  <2>3. CASE EndThread /\ UNCHANGED <<spill, latched, remainingBefore>>
    BY <2>0, <2>3, <1>0 DEF EndThread, Pipeline, InHand, Queued
  <2> QED BY <1>2, <2>1, <2>2, <2>3 DEF DrainerPop
<1>3. CASE rxOpen /\ ~closed /\ DrainerSend
  <2>1. hand \in Items /\ InHand = <<hand>> /\ InHand' = <<>> /\ Queued' = Queued
        /\ channel' = Append(channel, hand)
    BY <1>3 DEF DrainerSend, TrySend, DeferredShape, InHand, Queued, stateVars
  <2>2. Append(channel, hand) \o (<<>> \o Queued) = channel \o (<<hand>> \o Queued)
    BY <1>0, <2>1, PipeSend
  <2> QED BY <1>0, <2>1, <2>2 DEF Pipeline
<1>4. CASE rxOpen /\ ~closed /\ DrainerComplete
  BY <1>0, <1>4 DEF DrainerComplete, Pipeline, InHand, Queued
<1>5. CASE rxOpen /\ ~closed /\ DrainerMarkClosed
  BY <1>5 DEF DrainerMarkClosed, DeferredShape
<1> QED BY <1>1, <1>2, <1>3, <1>4, <1>5 DEF Drainer

LEMMA StepMaps == Inv /\ [Next]_vars => [Mailbox!Next]_<<Pipeline, rxOpen>>
<1> SUFFICES ASSUME Inv, [Next]_vars PROVE [Mailbox!Next]_<<Pipeline, rxOpen>>
  OBVIOUS
<1>0. IngressInv  BY DEF Inv, TypeOK, IngressInv
<1> USE DEF Mailbox!Next
<1>1. ASSUME UNCHANGED <<channel, rxOpen, stateVars, threadVars>>
      PROVE  UNCHANGED <<Pipeline, rxOpen>>
  BY <1>1 DEF Pipeline, InHand, Queued, stateVars, threadVars
<1>2. ASSUME NEW e \in Events, EmitMustDeliver(e) PROVE [Mailbox!Next]_<<Pipeline, rxOpen>>
  <2>1. PICK receipt \in Receipts : Admit(e, receipt)  BY <1>2 DEF EmitMustDeliver
  <2>2. UNCHANGED rxOpen  BY <1>2 DEF EmitMustDeliver
  <2> QED BY <1>0, <2>1, <2>2, AdmitMaps DEF Items
<1>3. ASSUME NEW e \in Events, EmitDirect(e) PROVE [Mailbox!Next]_<<Pipeline, rxOpen>>
  <2>1. PICK receipt \in Receipts : TryDirect(e, receipt)  BY <1>3 DEF EmitDirect
  <2>2. UNCHANGED rxOpen  BY <1>3 DEF EmitDirect
  <2> QED BY <1>0, <2>1, <2>2, TryDirectMaps DEF Items
<1>4. ASSUME NEW e \in Events, EmitRefused(e) \/ CallbackCancelled(e)
      PROVE  UNCHANGED <<Pipeline, rxOpen>>
  BY <1>4, <1>1 DEF EmitRefused, CallbackCancelled
<1>5. ASSUME NEW e \in Events, EmitKeyed(e) PROVE UNCHANGED <<Pipeline, rxOpen>>
  <2>1. CASE rxOpen
    BY <1>5, <2>1, <1>1 DEF EmitKeyed
  <2>2. CASE ~rxOpen
    BY <1>5, <2>2 DEF EmitKeyed, Pipeline
  <2> QED BY <2>1, <2>2
<1>6. CASE OfferWake
  <2>1. PICK receipt \in Receipts : Admit(Wake, receipt)  BY <1>6 DEF OfferWake
  <2>2. UNCHANGED rxOpen  BY <1>6 DEF OfferWake
  <2> QED BY <1>0, <2>1, <2>2, AdmitMaps, WakeItem
<1>7. CASE OfferLatch
  <2>1. PICK receipt \in Receipts : LatchWake(receipt)  BY <1>7 DEF OfferLatch
  <2>2. UNCHANGED <<channel, rxOpen>>  BY <1>7 DEF OfferLatch
  <2> QED BY <1>0, <2>1, <2>2, LatchWakeMaps, WakeItem
<1>8. CASE Drainer
  BY <1>0, <1>8, DrainerMaps
<1>9. CASE OwnerReceive
  <2>1. /\ channel # <<>> /\ channel' = Tail(channel) /\ UNCHANGED <<rxOpen, stateVars, threadVars>>
        /\ rxOpen
    BY <1>9 DEF OwnerReceive, Inv, OwnerShape
  <2>2. InHand' = InHand /\ Queued' = Queued
    BY <2>1 DEF InHand, Queued, stateVars, threadVars
  <2>3. InHand \o Queued \in Seq(Items) /\ channel \in Seq(Items)
    BY <1>0, PipelineTypes, ConcatProperties
  <2>4. Pipeline # <<>> /\ Pipeline' = Tail(Pipeline)
    BY <2>1, <2>2, <2>3, PipeTake DEF Pipeline
  <2> QED BY <2>1, <2>4 DEF Mailbox!Take
<1>10. CASE OwnerDrain
  BY <1>1, <1>10 DEF OwnerDrain
<1>11. CASE CloseAdmission \/ ObserveEmpty \/ ObserveIdle \/ ConfirmEmpty
  BY <1>1, <1>11 DEF CloseAdmission, ObserveEmpty, ObserveIdle, ConfirmEmpty
<1>12. CASE CloseReceiver \/ DropReceiver
  <2>1. rxOpen /\ rxOpen' = FALSE
    BY <1>12 DEF CloseReceiver, DropReceiver, Inv, OwnerShape
  <2>2. Pipeline' = <<>>  BY <2>1 DEF Pipeline
  <2> QED BY <2>1, <2>2 DEF Mailbox!Abandon
<1>13. CASE UNCHANGED vars
  BY <1>1, <1>13 DEF vars
<1> QED
  BY <1>2, <1>3, <1>4, <1>5, <1>6, <1>7, <1>8, <1>9, <1>10, <1>11, <1>12, <1>13
  DEF Next, Produce, EmitSteps, Owner, Shutdown

LEMMA InitMaps == Init => Mailbox!Init
<1> SUFFICES ASSUME Init PROVE Mailbox!Init
  OBVIOUS
<1>1. <<>> \o (<<>> \o <<>>) = <<>>  BY EmptySeq, ConcatEmptySeq
<1>2. Pipeline = <<>>  BY <1>1 DEF Init, Pipeline, InHand, Queued, QueueOf
<1> QED BY <1>2 DEF Mailbox!Init, Init

\* Channel, drainer, spill queue and latch together are one FIFO mailbox for
\* every choice of capacities, policies and events: acceptance order is
\* delivery order, and nothing accepted is lost while the receiver lives.
THEOREM IngressIsMailbox == Spec => ImplementsMailbox
<1> QED BY InvInit, InvStep, InitMaps, StepMaps, PTL
        DEF Spec, ImplementsMailbox, Mailbox!Spec, Mailbox!mailboxVars

-----------------------------------------------------------------------------
(* A wake is always on its way *)

Carries(s, x) == \E i \in DOMAIN s : s[i] = x

\* While an emit is between its regions it owes the wake: the values whose
\* producers were told Coalesced are all of an earlier, drained generation.
WakeOwed ==
  /\ rxOpen /\ wakePending => WakeInFlight
  /\ CoalescedIsAnnounced
  /\ emitter # None =>
       wakePending /\ \A i \in DOMAIN buffer : outcome[buffer[i]] # "coalesced"
  /\ hand # None => thread = "sending"

LEMMA AppendCarries ==
  ASSUME NEW s \in Seq(Items), NEW x \in Items
  PROVE  \A y : Carries(Append(s, x), y) <=> Carries(s, y) \/ y = x
<1>1. /\ Len(Append(s, x)) = Len(s) + 1 /\ Len(s) \in Nat
      /\ DOMAIN Append(s, x) = 1..(Len(s) + 1) /\ DOMAIN s = 1..Len(s)
      /\ \A i \in 1..Len(s) : Append(s, x)[i] = s[i]
      /\ Append(s, x)[Len(s) + 1] = x
  BY AppendProperties, LenProperties
<1> QED BY <1>1 DEF Carries

LEMMA TailCarries ==
  ASSUME NEW s \in Seq(Items), s # <<>>
  PROVE  \A y : Carries(s, y) <=> Carries(Tail(s), y) \/ y = Head(s)
<1>1. /\ Len(Tail(s)) = Len(s) - 1 /\ Len(s) \in Nat \ {0}
      /\ DOMAIN Tail(s) = 1..(Len(s) - 1) /\ DOMAIN s = 1..Len(s)
      /\ \A i \in 1..(Len(s) - 1) : Tail(s)[i] = s[i + 1]
      /\ Head(s) = s[1]
  BY HeadTailProperties, LenProperties, EmptySeq
<1>2. ASSUME NEW y, Carries(s, y), y # Head(s) PROVE Carries(Tail(s), y)
  <2>1. PICK i \in 1..Len(s) : s[i] = y  BY <1>1, <1>2 DEF Carries
  <2>2. i - 1 \in 1..(Len(s) - 1) /\ Tail(s)[i - 1] = y  BY <1>1, <1>2, <2>1
  <2> QED BY <1>1, <2>2 DEF Carries
<1>3. ASSUME NEW y, Carries(Tail(s), y) PROVE Carries(s, y)
  <2>1. PICK i \in 1..(Len(s) - 1) : Tail(s)[i] = y  BY <1>1, <1>3 DEF Carries
  <2>2. i + 1 \in 1..Len(s) /\ s[i + 1] = y  BY <1>1, <2>1
  <2> QED BY <1>1, <2>2 DEF Carries
<1>4. Carries(s, Head(s))  BY <1>1 DEF Carries
<1> QED BY <1>2, <1>3, <1>4

LEMMA EmptyCarries == \A y : ~Carries(<<>>, y)
BY DEF Carries

\* What the receipts of one call of admit_owned say.
LEMMA AdmitSays ==
  ASSUME Inv, NEW x \in Items, NEW receipt, Admit(x, receipt), UNCHANGED rxOpen
  PROVE  /\ receipt \in {"closed", "enqueued", "saturated", "deferred"}
         /\ receipt = "closed" => ~rxOpen
         /\ rxOpen => \A y : Carries(channel', y) \/ Carries(spill', y) <=>
                        \/ Carries(channel, y) \/ Carries(spill, y)
                        \/ y = x /\ receipt \in {"enqueued", "deferred"}
         /\ rxOpen => latched' = latched
         /\ hand' = hand
         /\ thread # "none" => thread' = thread
<1> USE DEF threadVars, stateVars
<1>0. /\ channel \in Seq(Items) /\ spill \in Seq(Items) /\ (closed => ~rxOpen)
      /\ (~drainerRunning => spill = <<>> /\ ~latched)
      /\ (~closed /\ thread # "none" => drainerRunning)
      /\ latched \in BOOLEAN
  BY DEF Inv, TypeOK, DeferredTypeOK, DeferredShape
<1>1. CASE receipt = "closed" /\ (closed \/ ~rxOpen) /\ MarkClosed /\ UNCHANGED <<channel, threadVars>>
  BY <1>0, <1>1
<1>2. CASE receipt = "enqueued" /\ ~closed /\ rxOpen /\ TrySend(x) /\ UNCHANGED <<stateVars, threadVars>>
  BY <1>0, <1>2, AppendCarries DEF TrySend
<1>3. CASE receipt = "saturated" /\ UNCHANGED <<channel, stateVars, threadVars>>
  BY <1>0, <1>3
<1>4. CASE /\ receipt = "deferred" /\ ~closed /\ rxOpen /\ Push(x) /\ StartDrainer
           /\ UNCHANGED <<channel, latched, remainingBefore, inFlightLane>>
  BY <1>0, <1>4, AppendCarries DEF Push, StartDrainer
<1>5. CASE receipt = "saturated" /\ ~drainerRunning /\ ClearOpen /\ UNCHANGED <<channel, closed, threadVars>>
  BY <1>0, <1>5 DEF ClearOpen
<1> QED BY <1>1, <1>2, <1>3, <1>4, <1>5 DEF Admit

LEMMA TryDirectSays ==
  ASSUME Inv, NEW e \in Events, NEW receipt, TryDirect(e, receipt), UNCHANGED rxOpen
  PROVE  /\ receipt \in Refused \cup {"enqueued"}
         /\ rxOpen => /\ UNCHANGED <<spill, latched>>
                      /\ \A y : Carries(channel', y) <=>
                           Carries(channel, y) \/ (y = e /\ receipt = "enqueued")
         /\ UNCHANGED threadVars
<1> USE DEF stateVars
<1>0. channel \in Seq(Items) /\ (closed => ~rxOpen) /\ e \in Items
  BY DEF Inv, TypeOK, DeferredTypeOK, DeferredShape, Items
<1>1. CASE receipt = "closed" /\ (closed \/ ~rxOpen) /\ UNCHANGED <<channel, threadVars>>
  BY <1>0, <1>1 DEF Refused
<1>2. CASE receipt = DirectRejection(e) /\ UNCHANGED <<channel, stateVars, threadVars>>
  BY <1>2 DEF Refused, DirectRejection
<1>3. CASE receipt = "enqueued" /\ TrySend(e) /\ UNCHANGED <<stateVars, threadVars>>
  BY <1>0, <1>3, AppendCarries DEF TrySend
<1> QED BY <1>1, <1>2, <1>3 DEF TryDirect

\* What the receipts of one call of latch_wake say.
LEMMA LatchWakeSays ==
  ASSUME Inv, NEW receipt, LatchWake(receipt), UNCHANGED rxOpen
  PROVE  /\ receipt \in {"closed", "coalesced", "deferred", "saturated"}
         /\ receipt = "closed" => ~rxOpen
         /\ receipt \in Accepted => latched'
         /\ rxOpen => spill' = spill
         /\ hand' = hand
         /\ thread # "none" => thread' = thread
<1> USE DEF threadVars, stateVars
<1>0. /\ (closed => ~rxOpen)
      /\ (~drainerRunning => spill = <<>> /\ ~latched)
      /\ (~closed /\ thread # "none" => drainerRunning)
  BY DEF Inv, DeferredShape
<1>1. CASE receipt = "closed" /\ (closed \/ ~rxOpen) /\ MarkClosed /\ UNCHANGED threadVars
  BY <1>0, <1>1 DEF Accepted
<1>2. CASE receipt = "coalesced" /\ latched /\ UNCHANGED <<stateVars, threadVars>>
  BY <1>0, <1>2
<1>3. CASE /\ receipt = "deferred" /\ ~closed /\ rxOpen /\ latched' = TRUE /\ StartDrainer
           /\ UNCHANGED <<spill, inFlightLane, nonControlLen>>
  BY <1>0, <1>3 DEF StartDrainer
<1>4. CASE receipt = "saturated" /\ ~drainerRunning /\ ClearOpen /\ UNCHANGED <<closed, threadVars>>
  BY <1>0, <1>4 DEF ClearOpen, Accepted
<1> QED BY <1>1, <1>2, <1>3, <1>4 DEF LatchWake

\* While nothing but the pipeline moves, a wake in it stays in it.
LEMMA WakeStays ==
  ASSUME WakeOwed, UNCHANGED <<rxOpen, emitter, bufferVars, owner>>,
         rxOpen => /\ Carries(channel, Wake) \/ Carries(spill, Wake)
                        => Carries(channel', Wake) \/ Carries(spill', Wake)
                   /\ latched' = latched,
         hand' = hand, thread # "none" => thread' = thread,
         \A i \in DOMAIN buffer : outcome'[buffer[i]] = "coalesced" => outcome[buffer[i]] = "coalesced"
  PROVE  WakeOwed'
<1>1. hand' # None => thread' = "sending"  BY DEF WakeOwed
<1>2. CoalescedIsAnnounced'  BY DEF WakeOwed, CoalescedIsAnnounced, bufferVars
<1>3. emitter' # None => wakePending' /\ \A i \in DOMAIN buffer' : outcome'[buffer'[i]] # "coalesced"
  BY DEF WakeOwed, bufferVars
<1>4. rxOpen' /\ wakePending' => WakeInFlight'
  BY DEF WakeOwed, bufferVars, WakeInFlight, Carries
<1> QED BY <1>1, <1>2, <1>3, <1>4 DEF WakeOwed

\* What one removal from the buffer leaves, and that it leaves all the rest.
LEMMA WithoutHolds ==
  ASSUME BufferTypeOK, NEW g \in DOMAIN buffer
  PROVE  /\ \A i \in DOMAIN Without(g) : \E j \in DOMAIN buffer : Without(g)[i] = buffer[j]
         /\ \A j \in DOMAIN buffer : j # g => \E i \in DOMAIN Without(g) : Without(g)[i] = buffer[j]
<1>0. g \in 1..Len(buffer) /\ Len(buffer) \in Nat /\ DOMAIN buffer = 1..Len(buffer)
      /\ buffer \in Seq(Events)
  BY LenProperties DEF BufferTypeOK
<1> DEFINE a == SubSeq(buffer, 1, g - 1)
           b == SubSeq(buffer, g + 1, Len(buffer))
<1>1. a \in Seq(Events) /\ Len(a) = g - 1 /\ \A i \in 1..(g - 1) : a[i] = buffer[i]
  <2>1. \A j \in 1..(g - 1) : buffer[j] \in Events  BY <1>0, ElementOfSeq
  <2> QED BY <1>0, <2>1, SubSeqProperties
<1>2. b \in Seq(Events) /\ Len(b) = Len(buffer) - g
      /\ \A i \in 1..(Len(buffer) - g) : b[i] = buffer[g + i]
  <2>1. \A j \in (g + 1)..Len(buffer) : buffer[j] \in Events  BY <1>0, ElementOfSeq
  <2> QED BY <1>0, <2>1, SubSeqProperties
<1>3. Without(g) = a \o b  BY DEF Without
<1> HIDE DEF a, b
<1>4. /\ DOMAIN Without(g) = 1..(Len(buffer) - 1)
      /\ \A i \in 1..(g - 1) : Without(g)[i] = buffer[i]
      /\ \A i \in g..(Len(buffer) - 1) : Without(g)[i] = buffer[i + 1]
  <2>1. a \o b \in Seq(Events) /\ Len(a \o b) = Len(buffer) - 1
    <3>1. a \o b \in Seq(Events) /\ Len(a \o b) = Len(a) + Len(b)
      BY <1>1, <1>2, ConcatProperties
    <3> QED BY <1>0, <1>1, <1>2, <3>1
  <2>2. \A i \in 1..Len(a \o b) : (a \o b)[i] = IF i <= Len(a) THEN a[i] ELSE b[i - Len(a)]
    BY <1>1, <1>2, ConcatProperties
  <2>3. DOMAIN Without(g) = 1..(Len(buffer) - 1)  BY <1>3, <2>1, LenProperties
  <2>4. \A i \in 1..(g - 1) : Without(g)[i] = buffer[i]  BY <1>0, <1>1, <1>3, <2>1, <2>2
  <2>5. ASSUME NEW i \in g..(Len(buffer) - 1) PROVE Without(g)[i] = buffer[i + 1]
    <3>1. i \in 1..Len(a \o b) /\ ~(i <= Len(a)) /\ i - Len(a) \in 1..(Len(buffer) - g)
      BY <1>0, <1>1, <2>1
    <3>2. Without(g)[i] = b[i - Len(a)]  BY <1>3, <2>2, <3>1
    <3>3. b[i - Len(a)] = buffer[g + (i - Len(a))] /\ g + (i - Len(a)) = i + 1
      BY <1>0, <1>1, <1>2, <3>1
    <3> QED BY <3>2, <3>3
  <2> QED BY <2>3, <2>4, <2>5
<1>5. ASSUME NEW i \in DOMAIN Without(g) PROVE \E j \in DOMAIN buffer : Without(g)[i] = buffer[j]
  <2>1. CASE i < g  BY <1>0, <1>4, <2>1
  <2>2. CASE ~(i < g)
    <3>1. i \in g..(Len(buffer) - 1) /\ i + 1 \in DOMAIN buffer  BY <1>0, <1>4, <2>2
    <3> QED BY <1>4, <3>1
  <2> QED BY <2>1, <2>2
<1>6. ASSUME NEW j \in DOMAIN buffer, j # g
      PROVE  \E i \in DOMAIN Without(g) : Without(g)[i] = buffer[j]
  <2>1. CASE j < g  BY <1>0, <1>4, <2>1
  <2>2. CASE ~(j < g)
    <3>1. j - 1 \in g..(Len(buffer) - 1) /\ j - 1 \in DOMAIN Without(g) /\ (j - 1) + 1 = j
      BY <1>0, <1>4, <1>6, <2>2
    <3> QED BY <1>4, <3>1
  <2> QED BY <2>1, <2>2
<1> QED BY <1>5, <1>6

\* A position of the buffer that insert_prioritized leaves holds the new value
\* or one that was there.
LEMMA InsertedIsOld ==
  ASSUME BufferTypeOK, NEW e \in Events
  PROVE  \A i \in DOMAIN Inserted(e) :
           Inserted(e)[i] = e \/ \E j \in DOMAIN buffer : Inserted(e)[i] = buffer[j]
<1>0. buffer \in Seq(Events) /\ Len(buffer) \in Nat /\ DOMAIN buffer = 1..Len(buffer)
  BY LenProperties DEF BufferTypeOK
<1>1. CASE GivenUp(e) = {}
  BY <1>0, <1>1, AppendProperties DEF Inserted
<1>2. CASE GivenUp(e) # {}
  <2> DEFINE g == CHOOSE i \in GivenUp(e) : TRUE
  <2>1. g \in DOMAIN buffer  BY <1>2 DEF GivenUp
  <2>2. Inserted(e) = Append(Without(g), e)  BY <1>2 DEF Inserted
  <2> HIDE DEF g
  <2>3. Without(g) \in Seq(Events) /\ DOMAIN Without(g) = 1..Len(Without(g)) /\ Len(Without(g)) \in Nat
    BY <2>1, WithoutType, LenProperties
  <2>4. \A i \in DOMAIN Without(g) : \E j \in DOMAIN buffer : Without(g)[i] = buffer[j]
    BY <2>1, WithoutHolds
  <2>5. \A i \in DOMAIN Inserted(e) :
          Inserted(e)[i] = e \/ (i \in DOMAIN Without(g) /\ Inserted(e)[i] = Without(g)[i])
    BY <2>2, <2>3, AppendProperties
  <2> QED BY <2>4, <2>5
<1> QED BY <1>1, <1>2

LEMMA WakeOwedStep == Inv /\ WakeOwed /\ [Next]_vars => WakeOwed'
<1> SUFFICES ASSUME Inv, WakeOwed, [Next]_vars PROVE WakeOwed'
  OBVIOUS
<1>0. AdmissionTypeOK /\ BufferTypeOK /\ DeferredTypeOK /\ DeferredShape
  BY DEF Inv, TypeOK
<1>1. CASE UNCHANGED vars
  BY <1>1 DEF vars, admissionVars, bufferVars, stateVars, threadVars, ownerVars, WakeOwed,
     WakeInFlight, CoalescedIsAnnounced
<1>2. ASSUME NEW e \in Events, EmitMustDeliver(e) PROVE WakeOwed'
  <2>1. PICK receipt \in Receipts :
          /\ Admit(e, receipt)
          /\ outcome' = [outcome EXCEPT ![e] =
               IF receipt = "saturated" /\ e \in Callbacks THEN "waiting" ELSE receipt]
    BY <1>2 DEF EmitMustDeliver
  <2>2. UNCHANGED <<admissionOpen, emitter, stage, bufferVars, rxOpen, ownerVars>>
    BY <1>2 DEF EmitMustDeliver
  <2>3. e \in Items  BY DEF Items
  <2>4. \A i \in DOMAIN buffer : outcome'[buffer[i]] = "coalesced" => outcome[buffer[i]] = "coalesced"
    <3>1. receipt # "coalesced"  BY <2>1, <2>2, <2>3, AdmitSays
    <3> QED BY <1>0, <2>1, <3>1 DEF AdmissionTypeOK
  <2> QED BY <2>1, <2>2, <2>3, <2>4, AdmitSays, WakeStays DEF ownerVars
<1>3. ASSUME NEW e \in Events, EmitDirect(e) PROVE WakeOwed'
  <2>1. PICK receipt \in Receipts :
          TryDirect(e, receipt) /\ outcome' = [outcome EXCEPT ![e] = receipt]
    BY <1>3 DEF EmitDirect
  <2>2. UNCHANGED <<admissionOpen, emitter, stage, bufferVars, rxOpen, ownerVars>>
    BY <1>3 DEF EmitDirect
  <2>3. \A i \in DOMAIN buffer : outcome'[buffer[i]] = "coalesced" => outcome[buffer[i]] = "coalesced"
    <3>1. receipt # "coalesced"  BY <2>1, <2>2, TryDirectSays DEF Refused
    <3> QED BY <1>0, <2>1, <3>1 DEF AdmissionTypeOK
  <2>4. (rxOpen => UNCHANGED <<spill, latched>>) /\ UNCHANGED threadVars
    BY <2>1, <2>2, TryDirectSays
  <2>5. rxOpen => (Carries(channel, Wake) => Carries(channel', Wake))
    BY <2>1, <2>2, TryDirectSays
  <2> QED BY <2>2, <2>3, <2>4, <2>5, WakeStays DEF ownerVars, threadVars
<1>4. ASSUME NEW e \in Events, EmitRefused(e) \/ CallbackCancelled(e) PROVE WakeOwed'
  <2>1. /\ outcome' = [outcome EXCEPT ![e] = "closed"]
        /\ UNCHANGED <<admissionOpen, emitter, stage, bufferVars, channel, rxOpen,
                       stateVars, threadVars, ownerVars>>
    BY <1>4 DEF EmitRefused, CallbackCancelled
  <2>2. \A i \in DOMAIN buffer : outcome'[buffer[i]] = "coalesced" => outcome[buffer[i]] = "coalesced"
    BY <1>0, <2>1 DEF AdmissionTypeOK
  <2> QED BY <2>1, <2>2, WakeStays DEF ownerVars, threadVars, stateVars
<1>5. ASSUME NEW e \in Events, EmitKeyed(e) PROVE WakeOwed'
  <2>0. /\ UNCHANGED <<admissionOpen, channel, rxOpen, threadVars, ownerVars>>
        /\ emitter = None /\ outcome[e] = "unsent"
    BY <1>5 DEF EmitKeyed, MayEmit
  <2>1. CASE ~rxOpen /\ buffer' = <<>> /\ UNCHANGED <<emitter, stage>>
    BY <2>0, <2>1 DEF WakeOwed, CoalescedIsAnnounced, threadVars
  <2>2. CASE /\ outcome' = [outcome EXCEPT ![e] = DirectRejection(e)]
             /\ UNCHANGED <<emitter, stage, bufferVars, stateVars>>
    <3>1. DirectRejection(e) # "coalesced"  BY DEF DirectRejection
    <3>2. \A i \in DOMAIN buffer : outcome'[buffer[i]] = "coalesced" => outcome[buffer[i]] = "coalesced"
      BY <1>0, <2>2, <3>1 DEF AdmissionTypeOK
    <3> QED BY <2>0, <2>2, <3>2, WakeStays DEF ownerVars, threadVars, stateVars
  <2>3. CASE /\ buffer' = Inserted(e) /\ wakePending' = TRUE /\ wakePending
             /\ UNCHANGED <<emitter, stage, stateVars>>
    BY <2>0, <2>3 DEF WakeOwed, WakeInFlight, CoalescedIsAnnounced, threadVars, stateVars, ownerVars
  <2>4. CASE /\ buffer' = Inserted(e) /\ wakePending' = TRUE /\ ~wakePending
             /\ outcome' = [outcome EXCEPT ![e] = "emitting"]
             /\ emitter' = e /\ stage' = "wake"
             /\ UNCHANGED stateVars
    <3>1. \A i \in DOMAIN buffer : outcome[buffer[i]] # "coalesced"
      BY <2>4 DEF WakeOwed, CoalescedIsAnnounced
    <3>2. \A i \in DOMAIN buffer' : outcome'[buffer'[i]] # "coalesced"
      <4>1. TAKE i \in DOMAIN buffer'
      <4>2. CASE buffer'[i] = e  BY <1>0, <2>4, <4>2 DEF AdmissionTypeOK
      <4>3. ASSUME NEW j \in DOMAIN buffer, buffer'[i] = buffer[j]
            PROVE  outcome'[buffer'[i]] # "coalesced"
        BY <1>0, <2>4, <3>1, <4>3 DEF AdmissionTypeOK
      <4> QED BY <1>0, <2>4, <4>2, <4>3, InsertedIsOld
    <3>3. emitter' # None  BY <2>4, IngressAssumption DEF Items
    <3> QED BY <2>0, <2>4, <3>2, <3>3 DEF WakeOwed, WakeInFlight, CoalescedIsAnnounced, threadVars
  <2> QED BY <1>5, <2>1, <2>2, <2>3, <2>4 DEF EmitKeyed
<1>6. CASE OfferWake
  <2>1. PICK receipt \in Receipts :
          /\ Admit(Wake, receipt)
          /\ CASE receipt = "closed" ->
                    FinishEmit("closed") /\ buffer' = <<>> /\ wakePending' = FALSE
               [] receipt = "saturated" ->
                    stage' = "latch" /\ UNCHANGED <<outcome, emitter, bufferVars>>
               [] OTHER ->
                    FinishEmit("coalesced") /\ UNCHANGED bufferVars
    BY <1>6 DEF OfferWake
  <2>2. UNCHANGED <<admissionOpen, rxOpen, ownerVars>> /\ stage = "wake"
    BY <1>6 DEF OfferWake
  <2>3. emitter # None  BY <1>0, <2>2 DEF AdmissionTypeOK
  <2>4. hand' # None => thread' = "sending"
    BY <2>1, <2>2, AdmitSays, WakeItem DEF WakeOwed
  <2>5. CASE receipt = "closed"
    BY <2>1, <2>4, <2>5 DEF WakeOwed, CoalescedIsAnnounced, FinishEmit
  <2>6. CASE receipt = "saturated"
    BY <2>1, <2>3, <2>4, <2>6 DEF WakeOwed, WakeInFlight, CoalescedIsAnnounced, bufferVars
  <2>7. CASE receipt \in {"enqueued", "deferred"}
    <3>1. FinishEmit("coalesced") /\ UNCHANGED bufferVars  BY <2>1, <2>7
    <3>2. rxOpen => Carries(channel', Wake) \/ Carries(spill', Wake)
      BY <2>1, <2>2, <2>7, AdmitSays, WakeItem
    <3>3. wakePending' /\ emitter' = None  BY <2>3, <3>1 DEF WakeOwed, bufferVars, FinishEmit
    <3> QED BY <2>2, <2>4, <3>2, <3>3 DEF WakeOwed, WakeInFlight, CoalescedIsAnnounced, Carries
  <2> QED BY <2>1, <2>2, <2>5, <2>6, <2>7, AdmitSays, WakeItem
<1>7. CASE OfferLatch
  <2>1. PICK receipt \in Receipts :
          /\ LatchWake(receipt)
          /\ IF receipt \in Accepted
             THEN FinishEmit("coalesced") /\ UNCHANGED bufferVars
             ELSE FinishEmit("saturated") /\ wakePending' = FALSE /\ UNCHANGED buffer
    BY <1>7 DEF OfferLatch
  <2>2. stage = "latch" /\ UNCHANGED <<admissionOpen, channel, rxOpen, ownerVars>>
    BY <1>7 DEF OfferLatch
  <2>3. emitter # None  BY <1>0, <2>2 DEF AdmissionTypeOK
  <2>4. hand' # None => thread' = "sending"
    BY <2>1, <2>2, LatchWakeSays DEF WakeOwed
  <2>5. CASE receipt \in Accepted
    <3>1. FinishEmit("coalesced") /\ UNCHANGED bufferVars  BY <2>1, <2>5
    <3>2. latched'  BY <2>1, <2>2, <2>5, LatchWakeSays
    <3>3. wakePending' /\ emitter' = None  BY <2>3, <3>1 DEF WakeOwed, bufferVars, FinishEmit
    <3> QED BY <2>4, <3>2, <3>3 DEF WakeOwed, WakeInFlight, CoalescedIsAnnounced
  <2>6. CASE receipt \notin Accepted
    <3>1. FinishEmit("saturated") /\ wakePending' = FALSE /\ UNCHANGED buffer  BY <2>1, <2>6
    <3>2. \A i \in DOMAIN buffer' : outcome'[buffer'[i]] # "coalesced"
      BY <1>0, <2>3, <3>1 DEF FinishEmit, WakeOwed, AdmissionTypeOK
    <3> QED BY <2>4, <3>1, <3>2 DEF WakeOwed, CoalescedIsAnnounced, FinishEmit
  <2> QED BY <2>5, <2>6
<1>8. CASE Drainer
  <2>0. /\ channel \in Seq(Items) /\ spill \in Seq(Items)
        /\ (closed => ~rxOpen) /\ (thread \in {"failing", "marking"} => ~rxOpen)
        /\ (thread = "sending" => hand \in Items)
    BY <1>0 DEF DeferredTypeOK, DeferredShape
  <2>1. UNCHANGED <<admissionVars, bufferVars, rxOpen, ownerVars>>
    BY <1>8 DEF Drainer, DrainerPop, DrainerSend, DrainerComplete, DrainerMarkClosed
  <2>2. hand' # None => thread' = "sending"
    BY <1>8 DEF Drainer, DrainerPop, DrainerSend, DrainerComplete, DrainerMarkClosed, EndThread, WakeOwed
  <2>3. CoalescedIsAnnounced' /\
        (emitter' # None => wakePending' /\ \A i \in DOMAIN buffer' : outcome'[buffer'[i]] # "coalesced")
    BY <2>1 DEF WakeOwed, CoalescedIsAnnounced, admissionVars, bufferVars
  <2>4. ASSUME rxOpen, wakePending PROVE WakeInFlight'
    <3>1. WakeInFlight  BY <2>4 DEF WakeOwed
    <3>2. CASE emitter # None \/ owner \in {"wakeSeen", "drainWake"}
      BY <2>1, <3>2 DEF WakeInFlight, admissionVars, ownerVars
    <3>3. CASE Carries(channel, Wake) \/ Carries(spill, Wake) \/ hand = Wake \/ latched
      <4>1. Carries(channel', Wake) \/ Carries(spill', Wake) \/ hand' = Wake \/ latched'
        <5>1. CASE DrainerPop
          <6>1. hand = None \/ hand # Wake
            BY <5>1, IngressAssumption DEF DrainerPop, WakeOwed, Items
          <6>2. CASE spill # <<>> /\ spill' = Tail(spill) /\ hand' = Head(spill) /\ UNCHANGED latched
            <7>1. channel' = channel  BY <5>1 DEF DrainerPop
            <7> QED BY <2>0, <3>3, <5>1, <6>1, <6>2, <7>1, TailCarries, IngressAssumption
                DEF DrainerPop, WakeOwed, Items
          <6>3. CASE hand' = Wake
            BY <6>3
          <6>4. CASE UNCHANGED <<spill, latched>>
            <7>1. channel' = channel  BY <5>1 DEF DrainerPop
            <7>2. hand # Wake  BY <5>1, <6>1, IngressAssumption DEF WakeOwed, DrainerPop, Items
            <7> QED BY <3>3, <6>4, <7>1, <7>2
          <6> QED BY <2>0, <2>4, <5>1, <6>2, <6>3, <6>4 DEF DrainerPop
        <5>2. CASE DrainerSend
          <6>1. /\ hand \in Items /\ channel' = Append(channel, hand)
                /\ UNCHANGED <<spill, latched>>
            BY <2>0, <2>4, <5>2 DEF DrainerSend, TrySend, stateVars
          <6>2. Carries(channel', Wake) <=> Carries(channel, Wake) \/ hand = Wake
            BY <2>0, <6>1, AppendCarries
          <6> QED BY <3>3, <6>1, <6>2
        <5>3. CASE DrainerComplete
          BY <3>3, <5>3 DEF DrainerComplete
        <5>4. CASE DrainerMarkClosed
          BY <2>0, <2>4, <5>4 DEF DrainerMarkClosed
        <5> QED BY <1>8, <5>1, <5>2, <5>3, <5>4 DEF Drainer
      <4> QED BY <4>1 DEF WakeInFlight, Carries
    <3> QED BY <3>1, <3>2, <3>3 DEF WakeInFlight, Carries
  <2> QED BY <2>1, <2>2, <2>3, <2>4 DEF WakeOwed, bufferVars
<1>9. CASE OwnerReceive
  <2>1. /\ UNCHANGED <<admissionVars, bufferVars, rxOpen, stateVars, threadVars>>
        /\ channel # <<>> /\ channel' = Tail(channel)
        /\ owner \notin {"wakeSeen", "drainWake"}
        /\ (Head(channel) = Wake => owner' \in {"wakeSeen", "drainWake"})
    BY <1>9 DEF OwnerReceive
  <2>2. Carries(channel, Wake) => Carries(channel', Wake) \/ owner' \in {"wakeSeen", "drainWake"}
    BY <1>0, <2>1, TailCarries DEF DeferredTypeOK
  <2>3. WakeInFlight => WakeInFlight'
    BY <2>1, <2>2 DEF WakeInFlight, Carries, admissionVars, stateVars, threadVars
  <2> QED BY <2>1, <2>3 DEF WakeOwed, CoalescedIsAnnounced, admissionVars, bufferVars, threadVars
<1>10. CASE OwnerDrain
  BY <1>10 DEF OwnerDrain, WakeOwed, CoalescedIsAnnounced, admissionVars, threadVars
<1>11. CASE CloseAdmission \/ ObserveEmpty \/ ObserveIdle \/ ConfirmEmpty
  <2>1. /\ UNCHANGED <<outcome, emitter, stage, bufferVars, channel, rxOpen, stateVars,
                       threadVars, received>>
        /\ owner \notin {"wakeSeen", "drainWake"}
    BY <1>11 DEF CloseAdmission, ObserveEmpty, ObserveIdle, ConfirmEmpty, admissionVars
  <2>2. WakeInFlight => WakeInFlight'
    BY <2>1 DEF WakeInFlight, stateVars, threadVars
  <2> QED BY <2>1, <2>2 DEF WakeOwed, CoalescedIsAnnounced, bufferVars, threadVars
<1>12. CASE CloseReceiver \/ DropReceiver
  BY <1>12 DEF CloseReceiver, DropReceiver, WakeOwed, CoalescedIsAnnounced, admissionVars,
     bufferVars, threadVars
<1> QED
  BY <1>1, <1>2, <1>3, <1>4, <1>5, <1>6, <1>7, <1>8, <1>9, <1>10, <1>11, <1>12
  DEF Next, Produce, EmitSteps, Owner, Shutdown

\* A wake for the values in the latest-value buffer is always on its way while
\* wake_pending suppresses others, and no value whose producer was told
\* Coalesced is left unannounced by a refused wake (emit_coalesced).
THEOREM WakeNeverLost == Spec => []WakeIsNeverLost
<1>1. Init => WakeOwed
  BY DEF Init, WakeOwed, CoalescedIsAnnounced
<1>2. WakeOwed => WakeIsNeverLost  BY DEF WakeOwed, WakeIsNeverLost
<1> QED BY InvInit, InvStep, WakeOwedStep, <1>1, <1>2, PTL DEF Spec

-----------------------------------------------------------------------------
(* Accepted one-shot values *)

\* Insertion keeps every resident but the one it gives up, and has the new
\* value last.
LEMMA InsertedKeeps ==
  ASSUME BufferTypeOK, NEW e \in Events, NEW i \in DOMAIN buffer
  PROVE  /\ \/ i \in GivenUp(e)
            \/ \E j \in DOMAIN Inserted(e) : Inserted(e)[j] = buffer[i]
         /\ \E j \in DOMAIN Inserted(e) : Inserted(e)[j] = e
<1>0. buffer \in Seq(Events) /\ Len(buffer) \in Nat /\ DOMAIN buffer = 1..Len(buffer)
  BY LenProperties DEF BufferTypeOK
<1>1. CASE GivenUp(e) = {}
  BY <1>0, <1>1, AppendProperties DEF Inserted
<1>2. CASE GivenUp(e) # {}
  <2> DEFINE g == CHOOSE k \in GivenUp(e) : TRUE
  <2>1. g \in DOMAIN buffer /\ g \in GivenUp(e)  BY <1>2 DEF GivenUp
  <2>2. Inserted(e) = Append(Without(g), e)  BY <1>2 DEF Inserted
  <2> HIDE DEF g
  <2>3. Without(g) \in Seq(Events) /\ DOMAIN Without(g) = 1..Len(Without(g)) /\ Len(Without(g)) \in Nat
    BY <2>1, WithoutType, LenProperties
  <2>4. i # g => \E j \in DOMAIN Without(g) : Without(g)[j] = buffer[i]
    BY <2>1, WithoutHolds
  <2>5. /\ DOMAIN Inserted(e) = 1..(Len(Without(g)) + 1)
        /\ \A j \in DOMAIN Without(g) : Inserted(e)[j] = Without(g)[j]
        /\ Inserted(e)[Len(Without(g)) + 1] = e
    BY <2>2, <2>3, AppendProperties
  <2>6. i # g => \E j \in DOMAIN Inserted(e) : Inserted(e)[j] = buffer[i]
    BY <2>3, <2>4, <2>5
  <2>7. \E j \in DOMAIN Inserted(e) : Inserted(e)[j] = e
    BY <2>3, <2>5
  <2> QED BY <2>1, <2>6, <2>7
<1> QED BY <1>1, <1>2

\* The buffer moves only in these ways.
LEMMA BufferMoves ==
  ASSUME Inv, [Next]_vars
  PROVE  \/ buffer' = buffer
         \/ ~rxOpen
         \/ \E e \in Events : /\ outcome[e] = "unsent" /\ Insertable(e) /\ buffer' = Inserted(e)
                              /\ wakePending => outcome' = [outcome EXCEPT ![e] = "coalesced"]
         \/ received' = received \cup {buffer[i] : i \in DOMAIN buffer}
<1>1. CASE UNCHANGED vars
  BY <1>1 DEF vars, bufferVars
<1>2. ASSUME NEW e \in Events,
             EmitMustDeliver(e) \/ EmitDirect(e) \/ EmitRefused(e) \/ CallbackCancelled(e)
      PROVE  buffer' = buffer
  BY <1>2 DEF EmitMustDeliver, EmitDirect, EmitRefused, CallbackCancelled, bufferVars
<1>3. ASSUME NEW e \in Events, EmitKeyed(e)
      PROVE  \/ buffer' = buffer
             \/ ~rxOpen
             \/ /\ outcome[e] = "unsent" /\ Insertable(e) /\ buffer' = Inserted(e)
                /\ wakePending => outcome' = [outcome EXCEPT ![e] = "coalesced"]
  BY <1>3 DEF EmitKeyed, bufferVars
<1>4. CASE OfferWake
  <2>1. PICK receipt \in Receipts :
          /\ Admit(Wake, receipt)
          /\ receipt # "closed" => UNCHANGED bufferVars
    BY <1>4 DEF OfferWake
  <2>2. receipt = "closed" => ~rxOpen
    BY <1>4, <2>1, AdmitSays, WakeItem DEF OfferWake
  <2> QED BY <2>1, <2>2 DEF bufferVars
<1>5. CASE OfferLatch
  BY <1>5 DEF OfferLatch, bufferVars
<1>6. CASE Drainer
  BY <1>6 DEF Drainer, DrainerPop, DrainerSend, DrainerComplete, DrainerMarkClosed, bufferVars
<1>7. CASE OwnerReceive \/ Shutdown
  BY <1>7 DEF OwnerReceive, Shutdown, CloseAdmission, ObserveEmpty, ObserveIdle, ConfirmEmpty,
     CloseReceiver, DropReceiver, bufferVars
<1>8. CASE OwnerDrain
  BY <1>8 DEF OwnerDrain
<1> QED
  BY <1>1, <1>2, <1>3, <1>4, <1>5, <1>6, <1>7, <1>8 DEF Next, Produce, EmitSteps, Owner

LEMMA ProtectedStep == Inv /\ WakeOwed /\ [Next]_vars => ProtectedStays
<1> SUFFICES ASSUME Inv, WakeOwed, [Next]_vars,
                    NEW i \in DOMAIN buffer,
                    Class(buffer[i]) = "protected", outcome[buffer[i]] = "coalesced"
             PROVE  \/ buffer[i] \in {buffer'[j] : j \in DOMAIN buffer'}
                    \/ buffer[i] \in received'
                    \/ ~rxOpen
                    \/ \E j \in DOMAIN buffer' :
                         Key[buffer'[j]] = Key[buffer[i]] /\ outcome'[buffer'[j]] = "coalesced"
  BY DEF ProtectedStays
<1>1. CASE buffer' = buffer
  BY <1>1
<1>2. CASE received' = received \cup {buffer[j] : j \in DOMAIN buffer}
  BY <1>2
<1>3. ASSUME NEW e \in Events, Insertable(e), buffer' = Inserted(e),
             wakePending => outcome' = [outcome EXCEPT ![e] = "coalesced"]
      PROVE  \/ buffer[i] \in {buffer'[j] : j \in DOMAIN buffer'}
             \/ \E j \in DOMAIN buffer' :
                  Key[buffer'[j]] = Key[buffer[i]] /\ outcome'[buffer'[j]] = "coalesced"
  <2>0. BufferTypeOK /\ outcome \in [Events -> Receipts \cup {"unsent", "emitting", "waiting"}]
    BY DEF Inv, TypeOK, AdmissionTypeOK
  <2>1. outcome'[e] = "coalesced"
    <3>1. wakePending  BY DEF WakeOwed, CoalescedIsAnnounced
    <3> QED BY <1>3, <2>0, <3>1
  <2>2. PICK k \in DOMAIN buffer' : buffer'[k] = e
    BY <1>3, <2>0, InsertedKeeps
  <2>3. CASE \E j \in DOMAIN buffer' : buffer'[j] = buffer[i]
    BY <2>3
  <2>4. CASE i \in GivenUp(e)
    <3>1. ~Displaceable(buffer[i], e)  BY DEF Displaceable
    <3>2. Key[buffer[i]] = Key[e]  BY <2>4, <3>1 DEF GivenUp, IsVictim
    <3> QED BY <2>1, <2>2, <3>2
  <2> QED BY <1>3, <2>0, <2>3, <2>4, InsertedKeeps
<1> QED BY <1>1, <1>2, <1>3, BufferMoves

\* An accepted one-shot value leaves the latest-value buffer only to the owner,
\* to a newer accepted value of its key, or with the owner's queue itself:
\* whatever the capacity, nothing of another key takes its place
\* (LatestEventClass::Protected).
THEOREM ProtectedNeverRevoked == Spec => ProtectedIsNeverRevoked
<1>1. Init => WakeOwed
  BY DEF Init, WakeOwed, CoalescedIsAnnounced
<1>2. Inv /\ WakeOwed /\ [Next]_vars => [ProtectedStays]_vars
  BY ProtectedStep
<1> QED BY InvInit, InvStep, WakeOwedStep, <1>1, <1>2, PTL DEF Spec, ProtectedIsNeverRevoked

-----------------------------------------------------------------------------
(* The shutdown drain *)

Taken(e) ==
  \/ e \in received
  \/ Carries(channel, e)
  \/ Carries(spill, e)
  \/ hand = e /\ thread = "sending"

\* Once admission is closed the drain only has to empty what is there: when it
\* has seen the deferred side idle, nothing is left that could refill the
\* channel it looks at again.
Drained ==
  /\ owner \notin {"running", "wakeSeen", "aborted"} => ~admissionOpen /\ emitter = None
  /\ owner # "aborted" => \A e \in Events : outcome[e] \in {"enqueued", "deferred"} => Taken(e)
  /\ owner \in {"confirming", "final", "closing", "done"} => DeferredIsIdle /\ thread = "none"
  /\ owner \in {"final", "closing", "done"} => channel = <<>>
  /\ owner \in {"closing", "done"} => buffer = <<>>

\* While the owner does not move and no drain has been confirmed, it is enough
\* that what was taken stays and what the step accepts is taken.
LEMMA TakenSuffices ==
  ASSUME Drained, UNCHANGED <<admissionOpen, emitter, owner>>,
         owner \in {"running", "wakeSeen", "aborted"},
         owner # "aborted" => \A e \in Events : outcome'[e] \in {"enqueued", "deferred"} => Taken(e)'
  PROVE  Drained'
BY DEF Drained

LEMMA DrainedStep == Inv /\ Drained /\ [Next]_vars => Drained'
<1> SUFFICES ASSUME Inv, Drained, [Next]_vars PROVE Drained'
  OBVIOUS
<1>0. /\ AdmissionTypeOK /\ BufferTypeOK /\ DeferredTypeOK /\ DeferredShape /\ OwnerShape
      /\ outcome \in [Events -> Receipts \cup {"unsent", "emitting", "waiting"}]
      /\ (rxOpen <=> owner \notin {"done", "aborted"})
      /\ (closed => ~rxOpen)
      /\ channel \in Seq(Items) /\ spill \in Seq(Items)
  BY DEF Inv, TypeOK, OwnerShape, DeferredShape, DeferredTypeOK, AdmissionTypeOK
<1>a. admissionOpen \/ emitter # None => owner \in {"running", "wakeSeen", "aborted"}
  BY DEF Drained
<1>1. CASE UNCHANGED vars
  BY <1>1 DEF vars, admissionVars, bufferVars, stateVars, threadVars, ownerVars, Drained, Taken,
     DeferredIsIdle
<1>2. ASSUME NEW e \in Events, EmitMustDeliver(e) PROVE Drained'
  <2>1. PICK receipt \in Receipts :
          /\ Admit(e, receipt)
          /\ outcome' = [outcome EXCEPT ![e] =
               IF receipt = "saturated" /\ e \in Callbacks THEN "waiting" ELSE receipt]
    BY <1>2 DEF EmitMustDeliver
  <2>2. /\ UNCHANGED <<admissionOpen, emitter, stage, bufferVars, rxOpen, ownerVars>>
        /\ e \in Items /\ owner \in {"running", "wakeSeen", "aborted"}
    BY <1>2, <1>a DEF EmitMustDeliver, MayEmit, Items
  <2>3. ASSUME owner # "aborted", NEW f \in Events, outcome'[f] \in {"enqueued", "deferred"}
        PROVE  Taken(f)'
    <3>0. rxOpen  BY <1>0, <2>2, <2>3
    <3>1. CASE f = e
      <4>1. receipt \in {"enqueued", "deferred"}  BY <1>0, <2>1, <2>3, <3>1
      <4> QED BY <2>1, <2>2, <3>0, <3>1, <4>1, AdmitSays DEF Taken
    <3>2. CASE f # e
      <4>1. Taken(f)  BY <1>0, <2>1, <2>3, <3>2 DEF Drained
      <4>2. thread = "sending" => thread' = "sending"  BY <2>1, <2>2, AdmitSays
      <4> QED BY <2>1, <2>2, <3>0, <4>1, <4>2, AdmitSays DEF Taken, ownerVars
    <3> QED BY <3>1, <3>2
  <2> QED BY <2>2, <2>3, TakenSuffices DEF ownerVars
<1>3. ASSUME NEW e \in Events, EmitDirect(e) PROVE Drained'
  <2>1. PICK receipt \in Receipts :
          TryDirect(e, receipt) /\ outcome' = [outcome EXCEPT ![e] = receipt]
    BY <1>3 DEF EmitDirect
  <2>2. /\ UNCHANGED <<admissionOpen, emitter, stage, bufferVars, rxOpen, ownerVars>>
        /\ owner \in {"running", "wakeSeen", "aborted"}
    BY <1>3, <1>a DEF EmitDirect, MayEmit
  <2>3. ASSUME owner # "aborted", NEW f \in Events, outcome'[f] \in {"enqueued", "deferred"}
        PROVE  Taken(f)'
    <3>0. rxOpen  BY <1>0, <2>2, <2>3
    <3>1. /\ UNCHANGED <<spill, latched>> /\ UNCHANGED threadVars
          /\ \A y : Carries(channel', y) <=> Carries(channel, y) \/ (y = e /\ receipt = "enqueued")
      BY <2>1, <2>2, <3>0, TryDirectSays
    <3>2. CASE f = e
      <4>1. receipt = "enqueued"
        <5>1. receipt \in {"enqueued", "deferred"}  BY <1>0, <2>1, <2>3, <3>2
        <5>2. receipt \in Refused \cup {"enqueued"}  BY <2>1, <2>2, TryDirectSays
        <5> QED BY <5>1, <5>2 DEF Refused
      <4> QED BY <3>1, <3>2, <4>1 DEF Taken
    <3>3. CASE f # e
      <4>1. Taken(f)  BY <1>0, <2>1, <2>3, <3>3 DEF Drained
      <4> QED BY <2>2, <3>1, <4>1 DEF Taken, ownerVars, threadVars
    <3> QED BY <3>2, <3>3
  <2> QED BY <2>2, <2>3, TakenSuffices DEF ownerVars
<1>4. ASSUME NEW e \in Events, EmitRefused(e) \/ CallbackCancelled(e) PROVE Drained'
  <2>1. /\ outcome' = [outcome EXCEPT ![e] = "closed"]
        /\ UNCHANGED <<admissionOpen, emitter, stage, bufferVars, channel, rxOpen,
                       stateVars, threadVars, ownerVars>>
    BY <1>4 DEF EmitRefused, CallbackCancelled
  <2>2. \A f \in Events : outcome'[f] \in {"enqueued", "deferred"} =>
                            outcome[f] \in {"enqueued", "deferred"}
    BY <1>0, <2>1
  <2> QED BY <2>1, <2>2 DEF Drained, Taken, DeferredIsIdle, bufferVars, stateVars, threadVars, ownerVars
<1>5. ASSUME NEW e \in Events, EmitKeyed(e) PROVE Drained'
  <2>0. /\ UNCHANGED <<admissionOpen, channel, rxOpen, threadVars, ownerVars>>
        /\ admissionOpen /\ owner \in {"running", "wakeSeen", "aborted"}
    BY <1>5, <1>a DEF EmitKeyed, MayEmit
  <2>1. \A f \in Events : outcome'[f] \in {"enqueued", "deferred"} =>
                            outcome[f] \in {"enqueued", "deferred"}
    <3>1. \E r \in Receipts \cup {"emitting"} : r \notin {"enqueued", "deferred"}
                                            /\ outcome' = [outcome EXCEPT ![e] = r]
      <4>1. DirectRejection(e) \in Receipts \ {"enqueued", "deferred"}
        BY DEF DirectRejection, Receipts, Refused
      <4>2. "closed" \in Receipts /\ "coalesced" \in Receipts
        BY DEF Receipts, Refused, Accepted
      <4> QED BY <1>5, <4>1, <4>2 DEF EmitKeyed
    <3> QED BY <1>0, <3>1
  <2>2. owner # "aborted" => UNCHANGED stateVars
    BY <1>0, <1>5, <2>0 DEF EmitKeyed
  <2> QED BY <2>0, <2>1, <2>2 DEF Drained, Taken, stateVars, threadVars, ownerVars
<1>6. CASE OfferWake
  <2>1. PICK receipt \in Receipts :
          /\ Admit(Wake, receipt)
          /\ \/ FinishEmit("closed") \/ FinishEmit("coalesced")
             \/ UNCHANGED <<outcome, emitter>>
    BY <1>6 DEF OfferWake
  <2>2. /\ UNCHANGED <<admissionOpen, rxOpen, ownerVars>>
        /\ owner \in {"running", "wakeSeen", "aborted"} /\ emitter # None
    BY <1>0, <1>6, <1>a DEF OfferWake, AdmissionTypeOK
  <2>3. ASSUME owner # "aborted", NEW f \in Events, outcome'[f] \in {"enqueued", "deferred"}
        PROVE  Taken(f)'
    <3>0. rxOpen  BY <1>0, <2>2, <2>3
    <3>1. outcome[f] \in {"enqueued", "deferred"}
      BY <1>0, <2>1, <2>3 DEF FinishEmit
    <3>2. Taken(f)  BY <2>3, <3>1 DEF Drained
    <3>3. thread = "sending" => thread' = "sending"
      BY <2>1, <2>2, AdmitSays, WakeItem
    <3> QED BY <2>1, <2>2, <3>0, <3>2, <3>3, AdmitSays, WakeItem DEF Taken, ownerVars
  <2> QED BY <2>2, <2>3 DEF Drained, ownerVars
<1>7. CASE OfferLatch
  <2>1. PICK receipt \in Receipts :
          LatchWake(receipt) /\ (FinishEmit("saturated") \/ FinishEmit("coalesced"))
    BY <1>7 DEF OfferLatch
  <2>2. /\ UNCHANGED <<admissionOpen, channel, rxOpen, ownerVars>>
        /\ owner \in {"running", "wakeSeen", "aborted"} /\ emitter # None
    BY <1>0, <1>7, <1>a DEF OfferLatch, AdmissionTypeOK
  <2>3. ASSUME owner # "aborted", NEW f \in Events, outcome'[f] \in {"enqueued", "deferred"}
        PROVE  Taken(f)'
    <3>0. rxOpen  BY <1>0, <2>2, <2>3
    <3>1. outcome[f] \in {"enqueued", "deferred"}
      BY <1>0, <2>1, <2>3 DEF FinishEmit
    <3>2. Taken(f)  BY <2>3, <3>1 DEF Drained
    <3>3. (thread = "sending" => thread' = "sending") /\ hand' = hand /\ spill' = spill
      BY <2>1, <2>2, <3>0, LatchWakeSays
    <3> QED BY <2>2, <3>2, <3>3 DEF Taken, ownerVars
  <2> QED BY <2>2, <2>3 DEF Drained, ownerVars
<1>8. CASE Drainer
  <2>1. UNCHANGED <<admissionVars, bufferVars, rxOpen, ownerVars>> /\ thread # "none"
    BY <1>8 DEF Drainer, DrainerPop, DrainerSend, DrainerComplete, DrainerMarkClosed
  <2>2. owner \notin {"confirming", "final", "closing", "done"}
    BY <2>1 DEF Drained
  <2>3. ASSUME owner # "aborted", NEW f \in Events, Taken(f) PROVE Taken(f)'
    <3>0. /\ rxOpen /\ ~closed /\ thread \notin {"failing", "marking"}
          /\ (thread = "sending" => hand \in Items)
      BY <1>0, <2>2, <2>3 DEF DeferredShape
    <3>1. CASE DrainerPop
      <4>0. channel' = channel  BY <3>1 DEF DrainerPop
      <4>1. CASE spill # <<>> /\ spill' = Tail(spill) /\ hand' = Head(spill) /\ thread' = "sending"
        <5>1. Carries(spill, f) <=> Carries(Tail(spill), f) \/ f = Head(spill)
          BY <1>0, <4>1, TailCarries
        <5> QED BY <2>1, <2>3, <3>1, <4>0, <4>1, <5>1 DEF Taken, ownerVars, DrainerPop
      <4>2. CASE spill' = spill
        BY <2>1, <2>3, <3>1, <4>0, <4>2 DEF Taken, ownerVars, DrainerPop
      <4> QED BY <3>0, <3>1, <4>1, <4>2 DEF DrainerPop
    <3>2. CASE DrainerSend
      <4>1. hand \in Items /\ channel' = Append(channel, hand) /\ spill' = spill
        BY <3>0, <3>2 DEF DrainerSend, TrySend, stateVars
      <4>2. Carries(channel', f) <=> Carries(channel, f) \/ f = hand
        BY <1>0, <4>1, AppendCarries
      <4> QED BY <2>1, <2>3, <4>1, <4>2 DEF Taken, ownerVars
    <3>3. CASE DrainerComplete
      BY <2>1, <2>3, <3>3 DEF Taken, ownerVars, DrainerComplete
    <3>4. CASE DrainerMarkClosed
      BY <3>0, <3>4 DEF DrainerMarkClosed
    <3> QED BY <1>8, <3>1, <3>2, <3>3, <3>4 DEF Drainer
  <2> QED BY <2>1, <2>2, <2>3 DEF Drained, admissionVars, ownerVars
<1>9. CASE OwnerReceive
  <2>1. /\ UNCHANGED <<admissionVars, bufferVars, rxOpen, stateVars, threadVars>>
        /\ channel # <<>> /\ channel' = Tail(channel)
        /\ owner \in {"running", "draining", "confirming"}
        /\ owner' \in {"running", "wakeSeen", "draining", "drainWake"}
        /\ (owner # "running" => owner' \in {"draining", "drainWake"})
        /\ (owner = "running" => owner' \in {"running", "wakeSeen"})
        /\ received \subseteq received'
        /\ (Head(channel) # Wake => Head(channel) \in received')
    BY <1>9 DEF OwnerReceive
  <2>2. \A f \in Events : Carries(channel, f) => Carries(channel', f) \/ f \in received'
    BY <1>0, <2>1, TailCarries, IngressAssumption
  <2>3. \A f \in Events : Taken(f) => Taken(f)'
    BY <2>1, <2>2 DEF Taken, stateVars, threadVars
  <2> QED BY <2>1, <2>3 DEF Drained, admissionVars
<1>10. CASE OwnerDrain
  <2>1. /\ UNCHANGED <<admissionVars, channel, rxOpen, stateVars, threadVars>>
        /\ received \subseteq received' /\ buffer' = <<>>
        /\ \/ owner = "wakeSeen" /\ owner' = "running"
           \/ owner = "drainWake" /\ owner' = "draining"
           \/ owner = "final" /\ owner' = "closing"
    BY <1>10 DEF OwnerDrain
  <2>2. \A f \in Events : Taken(f) => Taken(f)'
    BY <2>1 DEF Taken, stateVars, threadVars
  <2> QED BY <2>1, <2>2 DEF Drained, DeferredIsIdle, admissionVars, stateVars, threadVars
<1>11. CASE CloseAdmission
  <2>1. UNCHANGED <<outcome, emitter, channel, stateVars, threadVars, received>>
        /\ emitter = None /\ ~admissionOpen' /\ owner = "running" /\ owner' = "draining"
    BY <1>11 DEF CloseAdmission
  <2> QED BY <2>1 DEF Drained, Taken, stateVars, threadVars
<1>12. CASE ObserveEmpty \/ ObserveIdle
  <2>1. /\ UNCHANGED <<admissionVars, channel, rxOpen, stateVars, threadVars, received>>
        /\ owner \in {"draining", "checking"} /\ owner' \in {"checking", "confirming", "draining"}
        /\ (owner' = "confirming" => DeferredIsIdle)
    BY <1>12 DEF ObserveEmpty, ObserveIdle
  <2>2. owner' = "confirming" => DeferredIsIdle' /\ thread' = "none"
    BY <1>0, <2>1 DEF DeferredIsIdle, DeferredShape, stateVars, threadVars
  <2> QED BY <2>1, <2>2 DEF Drained, Taken, admissionVars, stateVars, threadVars
<1>13. CASE ConfirmEmpty \/ CloseReceiver
  <2>1. /\ UNCHANGED <<admissionVars, bufferVars, channel, stateVars, threadVars, received>>
        /\ \/ owner = "confirming" /\ channel = <<>> /\ owner' = "final"
           \/ owner = "closing" /\ owner' = "done"
    BY <1>13 DEF ConfirmEmpty, CloseReceiver
  <2> QED BY <2>1 DEF Drained, Taken, DeferredIsIdle, admissionVars, bufferVars, stateVars, threadVars
<1>14. CASE DropReceiver
  BY <1>14 DEF DropReceiver, Drained
<1> QED
  BY <1>1, <1>2, <1>3, <1>4, <1>5, <1>6, <1>7, <1>8, <1>9, <1>10, <1>11, <1>12, <1>13, <1>14
  DEF Next, Produce, EmitSteps, Owner, Shutdown

\* When the daemon's shutdown drain ends, nothing accepted is left in the
\* channel, the spill queue, the drainer's hand or the buffer: every event a
\* producer was told is enqueued or deferred was received, however producers,
\* the drainer and the drain interleave (drain_daemon_shutdown_ingress).
THEOREM ShutdownIsLossless == Spec => []ShutdownLosesNothing
<1>1. Init => Drained
  BY DEF Init, Drained
<1>2. Drained => ShutdownLosesNothing
  BY DEF Drained, Taken, ShutdownLosesNothing, DeferredIsIdle, Carries
<1> QED BY InvInit, InvStep, DrainedStep, <1>1, <1>2, PTL DEF Spec

-----------------------------------------------------------------------------
(* The control reserve *)

NonControlAt(s) == {i \in DOMAIN s : LaneOf(s[i]) # "control"}
Counts(x) == IF LaneOf(x) = "control" THEN 0 ELSE 1

LEMMA NonControlFinite ==
  ASSUME NEW s \in Seq(Items)
  PROVE  IsFiniteSet(NonControlAt(s)) /\ Cardinality(NonControlAt(s)) \in Nat
<1>1. Len(s) \in Nat /\ DOMAIN s = 1..Len(s)  BY LenProperties
<1>2. IsFiniteSet(1..Len(s))  BY <1>1, FS_Interval
<1>3. NonControlAt(s) \subseteq 1..Len(s)  BY <1>1 DEF NonControlAt
<1> QED BY <1>2, <1>3, FS_Subset, FS_CardinalityType

LEMMA NonControlEmpty == Cardinality(NonControlAt(<<>>)) = 0
<1>1. NonControlAt(<<>>) = {}  BY DEF NonControlAt
<1> QED BY <1>1, FS_EmptySet

LEMMA NonControlAppend ==
  ASSUME NEW s \in Seq(Items), NEW x \in Items
  PROVE  Cardinality(NonControlAt(Append(s, x))) = Cardinality(NonControlAt(s)) + Counts(x)
<1>1. /\ Len(s) \in Nat /\ DOMAIN s = 1..Len(s)
      /\ DOMAIN Append(s, x) = 1..(Len(s) + 1)
      /\ \A i \in 1..Len(s) : Append(s, x)[i] = s[i]
      /\ Append(s, x)[Len(s) + 1] = x
  BY AppendProperties, LenProperties
<1>2. CASE LaneOf(x) = "control"
  <2>1. NonControlAt(Append(s, x)) = NonControlAt(s)
    BY <1>1, <1>2 DEF NonControlAt
  <2> QED BY <1>2, <2>1, NonControlFinite DEF Counts
<1>3. CASE LaneOf(x) # "control"
  <2>1. NonControlAt(Append(s, x)) = NonControlAt(s) \cup {Len(s) + 1}
    BY <1>1, <1>3 DEF NonControlAt
  <2>2. Len(s) + 1 \notin NonControlAt(s)  BY <1>1 DEF NonControlAt
  <2> QED BY <1>3, <2>1, <2>2, NonControlFinite, FS_AddElement DEF Counts
<1> QED BY <1>2, <1>3

LEMMA NonControlTail ==
  ASSUME NEW s \in Seq(Items), s # <<>>
  PROVE  Cardinality(NonControlAt(s)) = Cardinality(NonControlAt(Tail(s))) + Counts(Head(s))
<1>1. /\ Len(s) \in Nat \ {0} /\ DOMAIN s = 1..Len(s) /\ Head(s) = s[1]
      /\ Tail(s) \in Seq(Items) /\ DOMAIN Tail(s) = 1..(Len(s) - 1)
      /\ \A i \in 1..(Len(s) - 1) : Tail(s)[i] = s[i + 1]
  BY HeadTailProperties, LenProperties, EmptySeq
<1> DEFINE A == NonControlAt(Tail(s))
           B == NonControlAt(s) \ {1}
           f == [i \in A |-> i + 1]
<1>2. f \in Bijection(A, B)
  <2>1. \A i \in A : i \in 1..(Len(s) - 1) /\ LaneOf(s[i + 1]) # "control"
    BY <1>1 DEF NonControlAt
  <2>2. \A i \in A : i + 1 \in B
    BY <1>1, <2>1 DEF NonControlAt
  <2>3. \A j \in B : j - 1 \in A /\ (j - 1) + 1 = j
    BY <1>1 DEF NonControlAt
  <2>4. f \in [A -> B]  BY <2>2
  <2>5. \A i, j \in A : f[i] = f[j] => i = j  BY <2>1
  <2>6. \A j \in B : \E i \in A : f[i] = j  BY <2>3
  <2> HIDE DEF A, B, f
  <2> QED BY <2>4, <2>5, <2>6, Fun_IsBij DEF Bijection, Injection, Surjection, IsInjective
<1>3. IsFiniteSet(A) /\ Cardinality(A) \in Nat  BY <1>1, NonControlFinite
<1>4. Cardinality(B) = Cardinality(A) /\ IsFiniteSet(B)
  <2>1. ExistsBijection(A, B)  BY <1>2 DEF ExistsBijection
  <2> HIDE DEF A, B, f
  <2> QED BY <1>3, <2>1, FS_Bijection
<1>5. CASE LaneOf(Head(s)) = "control"
  <2>1. NonControlAt(s) = B  BY <1>1, <1>5 DEF NonControlAt
  <2>2. Cardinality(NonControlAt(s)) = Cardinality(B)  BY <2>1
  <2>3. Counts(Head(s)) = 0  BY <1>5 DEF Counts
  <2>4. Cardinality(NonControlAt(s)) = Cardinality(A) + Counts(Head(s))
    <3> HIDE DEF A, B
    <3> QED BY <1>3, <1>4, <2>2, <2>3
  <2> QED BY <2>4
<1>6. CASE LaneOf(Head(s)) # "control"
  <2>1. NonControlAt(s) = B \cup {1} /\ 1 \notin B
    BY <1>1, <1>6 DEF NonControlAt
  <2>2. Cardinality(B \cup {1}) = Cardinality(B) + 1
    <3> HIDE DEF A, B
    <3> QED BY <1>4, <2>1, FS_AddElement
  <2> QED BY <1>3, <1>4, <1>6, <2>1, <2>2 DEF Counts
<1> QED BY <1>5, <1>6

InHandSlot == IF inFlightLane = None THEN 0 ELSE 1
InHandCounts == IF inFlightLane \in {None, "control"} THEN 0 ELSE 1

\* The counter that guards the reserve is exact: it counts the event in the
\* drainer's hand until complete_in_flight.
ReserveExact ==
  /\ nonControlLen = Cardinality(NonControlAt(spill)) + InHandCounts
  /\ Len(spill) + InHandSlot <= SpillCap
  /\ nonControlLen + ControlReserve <= SpillCap \/ nonControlLen = 0

LEMMA ReserveUnchanged ==
  ASSUME ReserveExact, UNCHANGED <<spill, inFlightLane, nonControlLen>>
  PROVE  ReserveExact'
BY DEF ReserveExact, InHandCounts, InHandSlot

LEMMA ReserveCleared == ASSUME ClearOpen PROVE ReserveExact'
<1>1. spill' = <<>> /\ inFlightLane' = None /\ nonControlLen' = 0  BY DEF ClearOpen
<1>2. Len(spill') = 0 /\ InHandSlot' = 0 /\ InHandCounts' = 0
  BY <1>1, EmptySeq DEF InHandSlot, InHandCounts
<1>3. SpillCap \in Nat  BY IngressAssumption
<1> QED BY <1>1, <1>2, <1>3, NonControlEmpty DEF ReserveExact

LEMMA AdmitReserves ==
  ASSUME Inv, ReserveExact, NEW x \in Items, NEW receipt, Admit(x, receipt)
  PROVE  ReserveExact'
<1>1. CASE MarkClosed \/ ClearOpen
  BY <1>1, ReserveCleared DEF MarkClosed
<1>2. CASE UNCHANGED stateVars
  BY <1>2, ReserveUnchanged DEF stateVars
<1>3. CASE HasCapacity(x) /\ Push(x) /\ UNCHANGED inFlightLane
  <2>1. /\ spill \in Seq(Items) /\ Len(spill) \in Nat /\ nonControlLen \in Nat
        /\ SpillCap \in Nat /\ ControlReserve \in Nat
    BY LenProperties, IngressAssumption, ReserveType DEF Inv, TypeOK, DeferredTypeOK
  <2>2. spill' = Append(spill, x) /\ nonControlLen' = nonControlLen + Counts(x)
    BY <1>3 DEF Push, Counts
  <2>3. InHandSlot' = InHandSlot /\ InHandCounts' = InHandCounts
        /\ InHandSlot \in Nat /\ InHandCounts \in Nat /\ Counts(x) \in {0, 1}
    BY <1>3 DEF InHandSlot, InHandCounts, Counts
  <2>4. Len(spill) + InHandSlot < SpillCap /\ (Counts(x) = 0 \/ nonControlLen < SpillCap - ControlReserve)
    BY <1>3 DEF HasCapacity, InHandSlot, Counts
  <2>5. Len(spill') = Len(spill) + 1  BY <2>1, <2>2, AppendProperties
  <2>6. Cardinality(NonControlAt(spill)) \in Nat  BY <2>1, NonControlFinite
  <2>7. Cardinality(NonControlAt(spill')) = Cardinality(NonControlAt(spill)) + Counts(x)
    BY <2>1, <2>2, NonControlAppend
  <2> QED BY <2>1, <2>2, <2>3, <2>4, <2>5, <2>6, <2>7 DEF ReserveExact
<1> QED BY <1>1, <1>2, <1>3 DEF Admit, stateVars

LEMMA ReserveStep == Inv /\ ReserveExact /\ [Next]_vars => ReserveExact'
<1> SUFFICES ASSUME Inv, ReserveExact, [Next]_vars PROVE ReserveExact'
  OBVIOUS
<1>0. /\ DeferredTypeOK /\ DeferredShape
      /\ spill \in Seq(Items) /\ Len(spill) \in Nat /\ nonControlLen \in Nat
      /\ SpillCap \in Nat /\ ControlReserve \in Nat
      /\ Cardinality(NonControlAt(spill)) \in Nat
  BY LenProperties, IngressAssumption, ReserveType, NonControlFinite DEF Inv, TypeOK, DeferredTypeOK
<1>1. CASE UNCHANGED vars
  BY <1>1, ReserveUnchanged DEF vars, stateVars
<1>2. ASSUME NEW e \in Events, EmitMustDeliver(e) PROVE ReserveExact'
  BY <1>2, AdmitReserves DEF EmitMustDeliver, Items
<1>3. ASSUME NEW e \in Events, EmitDirect(e) PROVE ReserveExact'
  <2>1. MarkClosed \/ UNCHANGED stateVars
    BY <1>3 DEF EmitDirect, TryDirect
  <2> QED BY <2>1, ReserveCleared, ReserveUnchanged DEF MarkClosed, stateVars
<1>4. ASSUME NEW e \in Events, EmitRefused(e) \/ CallbackCancelled(e) PROVE ReserveExact'
  BY <1>4, ReserveUnchanged DEF EmitRefused, CallbackCancelled, stateVars
<1>5. ASSUME NEW e \in Events, EmitKeyed(e) PROVE ReserveExact'
  <2>1. MarkClosed \/ UNCHANGED stateVars
    BY <1>5 DEF EmitKeyed
  <2> QED BY <2>1, ReserveCleared, ReserveUnchanged DEF MarkClosed, stateVars
<1>6. CASE OfferWake
  BY <1>6, AdmitReserves, WakeItem DEF OfferWake
<1>7. CASE OfferLatch
  <2>1. ClearOpen \/ UNCHANGED <<spill, inFlightLane, nonControlLen>>
    BY <1>7 DEF OfferLatch, LatchWake, MarkClosed, stateVars
  <2> QED BY <2>1, ReserveCleared, ReserveUnchanged
<1>8. CASE DrainerPop
  <2>1. CASE MarkClosed
    BY <2>1, ReserveCleared DEF MarkClosed
  <2>2. CASE UNCHANGED <<spill, inFlightLane, nonControlLen>>
    BY <2>2, ReserveUnchanged
  <2>3. CASE /\ spill # <<>> /\ spill' = Tail(spill)
             /\ inFlightLane' = LaneOf(Head(spill))
             /\ UNCHANGED nonControlLen
    <3>1. Head(spill) \in Items /\ Tail(spill) \in Seq(Items) /\ Len(Tail(spill)) = Len(spill) - 1
      BY <1>0, <2>3, HeadTailProperties
    <3>2. inFlightLane = None  BY <1>0, <1>8 DEF DrainerPop, DeferredShape
    <3>3. InHandSlot = 0 /\ InHandCounts = 0  BY <3>2 DEF InHandSlot, InHandCounts
    <3>4. LaneOf(Head(spill)) # None
      BY <3>1, LaneOfType, IngressAssumption DEF Lanes
    <3>5. InHandSlot' = 1 /\ InHandCounts' = Counts(Head(spill)) /\ Counts(Head(spill)) \in {0, 1}
      BY <2>3, <3>4 DEF InHandSlot, InHandCounts, Counts
    <3>6. Cardinality(NonControlAt(spill)) = Cardinality(NonControlAt(spill')) + Counts(Head(spill))
      BY <1>0, <2>3, NonControlTail
    <3>7. Cardinality(NonControlAt(spill')) \in Nat  BY <2>3, <3>1, NonControlFinite
    <3>8. Len(spill') = Len(spill) - 1 /\ nonControlLen' = nonControlLen  BY <2>3, <3>1
    <3> QED BY <1>0, <3>3, <3>5, <3>6, <3>7, <3>8 DEF ReserveExact
  <2> QED BY <1>8, <2>1, <2>2, <2>3 DEF DrainerPop
<1>9. CASE DrainerComplete
  <2>1. spill' = spill /\ inFlightLane' = None  BY <1>9 DEF DrainerComplete
  <2>2. InHandSlot' = 0 /\ InHandCounts' = 0 /\ InHandSlot \in {0, 1} /\ InHandCounts \in {0, 1}
    BY <2>1 DEF InHandSlot, InHandCounts
  <2>3. nonControlLen' = nonControlLen - InHandCounts
    <3>1. CASE inFlightLane \in {None, "control"}
      BY <1>0, <1>9, <3>1 DEF DrainerComplete, InHandCounts
    <3>2. CASE inFlightLane \notin {None, "control"}
      <4>1. nonControlLen # 0  BY <1>0, <3>2 DEF ReserveExact, InHandCounts
      <4> QED BY <1>9, <3>2, <4>1 DEF DrainerComplete, InHandCounts
    <3> QED BY <3>1, <3>2
  <2> QED BY <1>0, <2>1, <2>2, <2>3 DEF ReserveExact
<1>10. CASE DrainerSend
  BY <1>10, ReserveUnchanged DEF DrainerSend, stateVars
<1>11. CASE DrainerMarkClosed
  BY <1>11, ReserveCleared DEF DrainerMarkClosed, MarkClosed
<1>12. CASE Owner \/ Shutdown
  BY <1>12, ReserveUnchanged DEF Owner, OwnerReceive, OwnerDrain, Shutdown, CloseAdmission,
     ObserveEmpty, ObserveIdle, ConfirmEmpty, CloseReceiver, DropReceiver, stateVars
<1> QED
  BY <1>1, <1>2, <1>3, <1>4, <1>5, <1>6, <1>7, <1>8, <1>9, <1>10, <1>11, <1>12
  DEF Next, Produce, EmitSteps, Drainer

\* The spill queue keeps its bound with the event in the drainer's hand
\* counted, and work never takes the slots reserved for control events, for
\* any capacity (has_capacity, complete_in_flight).
THEOREM ReserveHolds == Spec => []ReserveIsKept
<1>1. Init => ReserveExact
  <2> SUFFICES ASSUME Init PROVE ReserveExact
    OBVIOUS
  <2>1. spill = <<>> /\ inFlightLane = None /\ nonControlLen = 0  BY DEF Init
  <2>2. Len(spill) = 0 /\ InHandSlot = 0 /\ InHandCounts = 0
    BY <2>1, EmptySeq DEF InHandSlot, InHandCounts
  <2>3. SpillCap \in Nat  BY IngressAssumption
  <2> QED BY <2>1, <2>2, <2>3, NonControlEmpty DEF ReserveExact
<1>2. ReserveExact => ReserveIsKept
  <2> SUFFICES ASSUME ReserveExact PROVE ReserveIsKept
    OBVIOUS
  <2>1. NonControlHeld = nonControlLen
    BY DEF ReserveExact, NonControlHeld, NonControlAt, InHandCounts
  <2> QED BY <2>1 DEF ReserveIsKept, ReserveExact, InHandSlot
<1> QED BY InvInit, InvStep, ReserveStep, <1>1, <1>2, PTL DEF Spec
=============================================================================
