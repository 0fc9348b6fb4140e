--------------------------- MODULE OwnerLockProofs ---------------------------
(***************************************************************************)
(* Type correctness and mutual exclusion of the owner-marker lock, and its *)
(* refinement of the abstract lock, for any number of processes, markers,  *)
(* inodes, hosts, crashes and failed calls.                                *)
(***************************************************************************)
EXTENDS OwnerLock, TLAPS

USE ConstantsAssumption

\* The steps of a call after its marker name was drawn.
CallSteps == Steps \ {"idle", "down"}
\* The steps at which the claim has a name.
ClaimSteps == {"claimStat", "claimList", "drop", "dropThrow", "isolate", "undo"}
                \cup QuarantineSteps

\* A process only ever uses marker names of its own.
OwnNames == \A p \in Proc :
    /\ pc[p] \in CallSteps => tok[p] \in Token /\ PidOf(tok[p]) = p
    /\ pc[p] \in ClaimSteps => claim[p] \in Token /\ PidOf(claim[p]) = p

TypeInv == TypeOK /\ OwnNames

\* Quarantined directories are neither at lockPath nor shared.
QuarantineApart == \A p \in Proc :
    pc[p] \in QuarantineSteps =>
        /\ moved[p] \in Dir
        /\ moved[p] # lock
        /\ \A q \in Proc : pc[q] \in QuarantineSteps /\ moved[q] = moved[p] => q = p

\* reclaimDeadOwner only ever names the marker of a dead process.
ReclaimsDead == \A p \in Proc :
    pc[p] = "reclaim" => obs[p] \in Token /\ PidOf(obs[p]) \in Down

\* A process that saw its own marker alone in the directory, and has not yet
\* removed it or moved the directory away.
Pins(p) == pc[p] \in {"held", "release", "isolate"}
PinOf(p) == IF pc[p] = "isolate" THEN claim[p] ELSE tok[p]
Pinned == \A p \in Proc : Pins(p) => AtLock(PinOf(p))
OnePin == \A p, q \in Proc : Pins(p) /\ Pins(q) => p = q

LockInv == QuarantineApart /\ ReclaimsDead /\ Pinned /\ OnePin

-----------------------------------------------------------------------------
\* Beside the types: the owner marker and the claim a call works with are its
\* own process's, so that the death of the one named in a marker is that of the
\* process that published it.
LEMMA TypeInvariant == Spec => []TypeInv
<1>1. Init => TypeInv
  BY DEF Init, TypeInv, TypeOK, OwnNames, Steps, CallSteps, ClaimSteps, QuarantineSteps
<1>2. TypeInv /\ [Next]_vars => TypeInv'
  <2> SUFFICES ASSUME TypeInv, [Next]_vars PROVE TypeInv'
    OBVIOUS
  <2> USE DEF TypeInv, TypeOK, OwnNames, Step, Leave, fs, mem, Token, PidOf, CallSteps,
              ClaimSteps, Steps, AcquireSteps, ReleaseSteps, InspectSteps, ReclaimSteps,
              QuarantineSteps
  <2>1. CASE UNCHANGED vars
    BY <2>1 DEF vars
  <2>2. ASSUME NEW p \in Proc, Call(p) PROVE TypeInv'
    BY <2>2 DEF Call, Fresh
  <2>3. ASSUME NEW p \in Proc, Transient(p) PROVE TypeInv'
    BY <2>3 DEF Transient
  <2>4. ASSUME NEW p \in Proc, Fault(p) PROVE TypeInv'
    BY <2>4 DEF Fault, ForgetQuarantine, FaultTargets
  <2>5. ASSUME NEW p \in Proc, Crash(p) PROVE TypeInv'
    BY <2>5 DEF Crash, ForgetQuarantine
  <2>6. ASSUME NEW p \in Proc, Acquiring(p) PROVE TypeInv'
    <3>1. CASE Mkdir(p)
      BY <3>1 DEF Mkdir
    <3>2. CASE MkdirExists(p)
      BY <3>2 DEF MkdirExists
    <3>3. CASE CreatedStat(p)
      BY <3>3 DEF CreatedStat
    <3>4. CASE Publish(p)
      BY <3>4 DEF Publish, PutMarker
    <3>5. CASE Verify(p)
      BY <3>5 DEF Verify
    <3>6. CASE Confirm(p)
      BY <3>6 DEF Confirm
    <3>7. CASE Preserve(p)
      BY <3>7 DEF Preserve, Unlink, AtLock
    <3>8. QED BY <2>6, <3>1, <3>2, <3>3, <3>4, <3>5, <3>6, <3>7 DEF Acquiring
  <2>7. ASSUME NEW p \in Proc, Releasing(p) PROVE TypeInv'
    <3>1. CASE EndOperation(p)
      BY <3>1 DEF EndOperation
    <3>2. CASE RemoveMarker(p)
      BY <3>2 DEF RemoveMarker, Unlink, AtLock
    <3>3. CASE RemoveDirectory(p)
      BY <3>3 DEF RemoveDirectory, Rmdir
    <3>4. QED BY <2>7, <3>1, <3>2, <3>3 DEF Releasing
  <2>8. ASSUME NEW p \in Proc, Inspecting(p) PROVE TypeInv'
    <3>1. CASE Look(p)
      BY <3>1 DEF Look
    <3>2. CASE ListMissing(p)
      BY <3>2 DEF ListMissing
    <3>3. CASE ListEmpty(p)
      BY <3>3 DEF ListEmpty
    <3>4. CASE ListMarker(p)
      BY <3>4 DEF ListMarker
    <3>5. CASE ListMalformed(p)
      BY <3>5 DEF ListMalformed
    <3>6. CASE ReadChanged(p)
      BY <3>6 DEF ReadChanged
    <3>7. CASE ReadDead(p)
      BY <3>7 DEF ReadDead
    <3>8. CASE ReadBusy(p)
      BY <3>8 DEF ReadBusy
    <3>9. CASE Retry(p)
      BY <3>9 DEF Retry
    <3>10. CASE TimeOut(p)
      BY <3>10 DEF TimeOut
    <3>11. QED BY <2>8, <3>1, <3>2, <3>3, <3>4, <3>5, <3>6, <3>7, <3>8, <3>9, <3>10
           DEF Inspecting
  <2>9. ASSUME NEW p \in Proc, Reclaiming(p) PROVE TypeInv'
    <3>1. CASE ReclaimMarker(p)
      BY <3>1 DEF ReclaimMarker, Unlink, AtLock
    <3>2. CASE ReclaimDirectory(p)
      BY <3>2 DEF ReclaimDirectory, Rmdir
    <3>3. CASE JudgeOld(p)
      BY <3>3 DEF JudgeOld
    <3>4. CASE JudgeYoung(p)
      BY <3>4 DEF JudgeYoung
    <3>5. CASE PublishClaim(p)
      <4>1. CASE lock = NoDir
        BY <3>5, <4>1 DEF PublishClaim
      <4>2. CASE lock # NoDir
        BY <3>5, <4>2 DEF PublishClaim, PutMarker, Fresh
      <4>3. QED BY <4>1, <4>2
    <3>6. CASE ClaimStat(p)
      BY <3>6 DEF ClaimStat
    <3>7. CASE ClaimList(p)
      BY <3>7 DEF ClaimList
    <3>8. CASE DropClaim(p)
      BY <3>8 DEF DropClaim, Unlink, AtLock
    <3>9. CASE Isolate(p)
      BY <3>9 DEF Isolate
    <3>10. CASE QuarantineUnlink(p)
      BY <3>10 DEF QuarantineUnlink
    <3>11. CASE QuarantineRmdir(p)
      BY <3>11 DEF QuarantineRmdir, ForgetQuarantine
    <3>12. CASE UndoClaim(p)
      BY <3>12 DEF UndoClaim, Unlink, AtLock
    <3>13. CASE UndoDirectory(p)
      BY <3>13 DEF UndoDirectory, Rmdir
    <3>14. QED BY <2>9, <3>1, <3>2, <3>3, <3>4, <3>5, <3>6, <3>7, <3>8, <3>9, <3>10, <3>11, <3>12, <3>13 DEF Reclaiming
  <2>10. QED BY <2>1, <2>2, <2>3, <2>4, <2>5, <2>6, <2>7, <2>8, <2>9 DEF Next
<1>3. QED BY <1>1, <1>2, PTL DEF Spec

\* Every variable keeps its type through every step (the state of
\* withOwnerDirectoryLock and the directory it works on).
THEOREM TypeCorrect == Spec => []TypeOK
<1>1. TypeInv => TypeOK
  BY DEF TypeInv
<1>2. QED BY <1>1, TypeInvariant, PTL
-----------------------------------------------------------------------------
\* The inductive strengthening of mutual exclusion.  Whoever saw its own marker
\* alone in the directory pins it there: nobody else can then see its own alone,
\* a reclaimer of a dead owner's marker names another one, and a directory with
\* a marker inside cannot be removed.
LEMMA LockInvariant == Spec => []LockInv
<1>1. Init => LockInv
  BY DEF Init, LockInv, QuarantineApart, ReclaimsDead, Pinned, OnePin, Pins, QuarantineSteps
<1>2. TypeInv /\ LockInv /\ [Next]_vars => LockInv'
  <2> SUFFICES ASSUME TypeInv, LockInv, [Next]_vars PROVE LockInv'
    OBVIOUS
  <2> USE DEF TypeInv, TypeOK, OwnNames, Step, Leave, fs, mem, Token, PidOf, CallSteps,
              ClaimSteps, Steps, AcquireSteps, ReleaseSteps, InspectSteps, ReclaimSteps,
              QuarantineSteps, LockInv, QuarantineApart, ReclaimsDead, Pinned, OnePin, Pins,
              PinOf, AtLock, Down
  <2>1. CASE UNCHANGED vars
    BY <2>1 DEF vars
  <2>2. ASSUME NEW p \in Proc, Call(p) PROVE LockInv'
    BY <2>2 DEF Call, Fresh
  <2>3. ASSUME NEW p \in Proc, Transient(p) PROVE LockInv'
    BY <2>3 DEF Transient
  <2>4. ASSUME NEW p \in Proc, Fault(p) PROVE LockInv'
    <3>1. PICK s \in FaultTargets(pc[p]) : IF s = "idle" THEN Leave(p, s) ELSE Step(p, s)
      BY <2>4 DEF Fault
    <3>2. /\ pc[p] # "down"
          /\ s \in {"idle", "abandon", "drop", "dropThrow", "undo"}
          /\ s # "idle" => pc[p] \in CallSteps
      BY <3>1 DEF FaultTargets
    <3>3. CASE s = "idle"
      BY <2>4, <3>1, <3>2, <3>3 DEF Fault, ForgetQuarantine
    <3>4. CASE s # "idle"
      BY <2>4, <3>1, <3>2, <3>4 DEF Fault, ForgetQuarantine
    <3>5. QED BY <3>3, <3>4
  <2>5. ASSUME NEW p \in Proc, Crash(p) PROVE LockInv'
    BY <2>5 DEF Crash, ForgetQuarantine
  <2>6. ASSUME NEW p \in Proc, Acquiring(p) PROVE LockInv'
    <3>1. CASE Mkdir(p)
      BY <3>1 DEF Mkdir, Isolated
    <3>2. CASE MkdirExists(p)
      BY <3>2 DEF MkdirExists
    <3>3. CASE CreatedStat(p)
      BY <3>3 DEF CreatedStat
    <3>4. CASE Publish(p)
      BY <3>4 DEF Publish, PutMarker
    <3>5. CASE Verify(p)
      BY <3>5 DEF Verify
    <3>6. CASE Confirm(p)
      BY <3>6 DEF Confirm
    <3>7. CASE Preserve(p)
      BY <3>7 DEF Preserve, Unlink
    <3>8. QED BY <2>6, <3>1, <3>2, <3>3, <3>4, <3>5, <3>6, <3>7 DEF Acquiring
  <2>7. ASSUME NEW p \in Proc, Releasing(p) PROVE LockInv'
    <3>1. CASE EndOperation(p)
      BY <3>1 DEF EndOperation
    <3>2. CASE RemoveMarker(p)
      BY <3>2 DEF RemoveMarker, Unlink
    <3>3. CASE RemoveDirectory(p)
      BY <3>3 DEF RemoveDirectory, Rmdir
    <3>4. QED BY <2>7, <3>1, <3>2, <3>3 DEF Releasing
  <2>8. ASSUME NEW p \in Proc, Inspecting(p) PROVE LockInv'
    <3>1. CASE Look(p)
      BY <3>1 DEF Look
    <3>2. CASE ListMissing(p)
      BY <3>2 DEF ListMissing
    <3>3. CASE ListEmpty(p)
      BY <3>3 DEF ListEmpty
    <3>4. CASE ListMarker(p)
      BY <3>4 DEF ListMarker
    <3>5. CASE ListMalformed(p)
      BY <3>5 DEF ListMalformed
    <3>6. CASE ReadChanged(p)
      BY <3>6 DEF ReadChanged
    <3>7. CASE ReadDead(p)
      BY <3>7 DEF ReadDead, KnownDead
    <3>8. CASE ReadBusy(p)
      BY <3>8 DEF ReadBusy
    <3>9. CASE Retry(p)
      BY <3>9 DEF Retry
    <3>10. CASE TimeOut(p)
      BY <3>10 DEF TimeOut
    <3>11. QED BY <2>8, <3>1, <3>2, <3>3, <3>4, <3>5, <3>6, <3>7, <3>8, <3>9, <3>10 DEF Inspecting
  <2>9. ASSUME NEW p \in Proc, Reclaiming(p) PROVE LockInv'
    <3>1. CASE ReclaimMarker(p)
      BY <3>1 DEF ReclaimMarker, Unlink
    <3>2. CASE ReclaimDirectory(p)
      BY <3>2 DEF ReclaimDirectory, Rmdir
    <3>3. CASE JudgeOld(p)
      BY <3>3 DEF JudgeOld
    <3>4. CASE JudgeYoung(p)
      BY <3>4 DEF JudgeYoung
    <3>5. CASE PublishClaim(p)
      <4>1. CASE lock = NoDir
        BY <3>5, <4>1 DEF PublishClaim
      <4>2. CASE lock # NoDir
        BY <3>5, <4>2 DEF PublishClaim, PutMarker, Fresh
      <4>3. QED BY <4>1, <4>2
    <3>6. CASE ClaimStat(p)
      BY <3>6 DEF ClaimStat
    <3>7. CASE ClaimList(p)
      BY <3>7 DEF ClaimList
    <3>8. CASE DropClaim(p)
      BY <3>8 DEF DropClaim, Unlink
    <3>9. CASE Isolate(p)
      BY <3>9 DEF Isolate
    <3>10. CASE QuarantineUnlink(p)
      BY <3>10 DEF QuarantineUnlink
    <3>11. CASE QuarantineRmdir(p)
      BY <3>11 DEF QuarantineRmdir, ForgetQuarantine
    <3>12. CASE UndoClaim(p)
      BY <3>12 DEF UndoClaim, Unlink
    <3>13. CASE UndoDirectory(p)
      BY <3>13 DEF UndoDirectory, Rmdir
    <3>14. QED BY <2>9, <3>1, <3>2, <3>3, <3>4, <3>5, <3>6, <3>7, <3>8, <3>9, <3>10, <3>11, <3>12, <3>13 DEF Reclaiming
  <2>10. QED BY <2>1, <2>2, <2>3, <2>4, <2>5, <2>6, <2>7, <2>8, <2>9 DEF Next
<1>3. QED BY <1>1, <1>2, TypeInvariant, PTL DEF Spec

\* At most one process is inside fn, for every instance of the protocol.
THEOREM MutualExclusionHolds == Spec => []MutualExclusion
<1>1. LockInv => MutualExclusion
  BY DEF LockInv, OnePin, Pins, MutualExclusion, InFn
<1>2. QED BY <1>1, LockInvariant, PTL

\* While a process lives inside fn its marker is in the directory at lockPath.
THEOREM OwnerKeepsMarkerHolds == Spec => []OwnerKeepsMarker
<1>1. LockInv => OwnerKeepsMarker
  BY DEF LockInv, Pinned, Pins, PinOf, OwnerKeepsMarker, InFn
<1>2. QED BY <1>1, LockInvariant, PTL

\* A directory is moved to quarantine only with the mover's claim in it and
\* nobody inside fn.
THEOREM ClaimPinsDirectoryHolds == Spec => []ClaimPinsDirectory
<1>1. LockInv => ClaimPinsDirectory
  BY DEF LockInv, Pinned, OnePin, Pins, PinOf, ClaimPinsDirectory, InFn
<1>2. QED BY <1>1, LockInvariant, PTL

-----------------------------------------------------------------------------
\* Every step is the step of one process: nobody else moves.
LEMMA OneMoves ==
  ASSUME TypeInv, Next
  PROVE  \E p \in Proc : \A q \in Proc \ {p} : pc'[q] = pc[q]
<1> USE DEF TypeInv, TypeOK, Step, Leave
<1>1. ASSUME NEW p \in Proc,
             Call(p) \/ Transient(p) \/ Fault(p) \/ Crash(p)
      PROVE  \A q \in Proc \ {p} : pc'[q] = pc[q]
  BY <1>1 DEF Call, Transient, Fault, Crash
<1>2. ASSUME NEW p \in Proc, Acquiring(p)
      PROVE  \A q \in Proc \ {p} : pc'[q] = pc[q]
  BY <1>2 DEF Acquiring, Mkdir, MkdirExists, CreatedStat, Publish, Verify, Confirm, Preserve
<1>3. ASSUME NEW p \in Proc, Releasing(p)
      PROVE  \A q \in Proc \ {p} : pc'[q] = pc[q]
  BY <1>3 DEF Releasing, EndOperation, RemoveMarker, RemoveDirectory
<1>4. ASSUME NEW p \in Proc, Inspecting(p)
      PROVE  \A q \in Proc \ {p} : pc'[q] = pc[q]
  BY <1>4 DEF Inspecting, Look, ListMissing, ListEmpty, ListMarker, ListMalformed, ReadChanged, ReadDead, ReadBusy, Retry, TimeOut
<1>5. ASSUME NEW p \in Proc, Reclaiming(p)
      PROVE  \A q \in Proc \ {p} : pc'[q] = pc[q]
  BY <1>5 DEF Reclaiming, ReclaimMarker, ReclaimDirectory, JudgeOld, JudgeYoung, PublishClaim, ClaimStat, ClaimList, DropClaim, Isolate, QuarantineUnlink, QuarantineRmdir, UndoClaim, UndoDirectory
<1>6. QED BY <1>1, <1>2, <1>3, <1>4, <1>5 DEF Next

\* The directory protocol implements the abstract lock: the processes inside fn
\* change one at a time, and from one process to another only through none.
THEOREM Refinement == Spec => ImplementsExclusiveLock
<1> DEFINE H == {p \in Proc : InFn(p)}
<1>1. Init => Lock!Init
  BY DEF Init, Lock!Init, InFn
<1>2. TypeInv /\ LockInv /\ LockInv' /\ [Next]_vars => [Lock!Next]_H
  <2> SUFFICES ASSUME TypeInv, LockInv, LockInv', [Next]_vars PROVE [Lock!Next]_H
    OBVIOUS
  <2>1. CASE UNCHANGED vars
    BY <2>1 DEF vars, InFn
  <2>2. CASE Next
    <3>1. PICK p \in Proc : \A q \in Proc \ {p} : pc'[q] = pc[q]
      BY <2>2, OneMoves
    <3>2. \A q \in Proc \ {p} : InFn(q) <=> InFn(q)'
      BY <3>1 DEF InFn
    <3>3. /\ \A q, r \in Proc : InFn(q) /\ InFn(r) => q = r
          /\ \A q, r \in Proc : InFn(q)' /\ InFn(r)' => q = r
      BY DEF LockInv, OnePin, Pins, InFn
    <3>4. CASE InFn(p) <=> InFn(p)'
      <4>1. H' = H
        BY <3>2, <3>4
      <4>2. QED BY <4>1
    <3>5. CASE ~InFn(p) /\ InFn(p)'
      <4>1. H = {} /\ H' = {p}
        BY <3>2, <3>3, <3>5
      <4>2. QED BY <4>1 DEF Lock!Next, Lock!Acquire
    <3>6. CASE InFn(p) /\ ~InFn(p)'
      <4>1. H = {p} /\ H' = {}
        BY <3>2, <3>3, <3>6
      <4>2. QED BY <4>1 DEF Lock!Next, Lock!Leave
    <3>7. QED BY <3>4, <3>5, <3>6
  <2>3. QED BY <2>1, <2>2
<1>3. QED BY <1>1, <1>2, TypeInvariant, LockInvariant, PTL DEF Spec, ImplementsExclusiveLock, Lock!Spec

-----------------------------------------------------------------------------
\* Unless unlink itself fails, a call that ended left no marker of its live
\* process at lockPath.
THEOREM NoLiveLeftoverHolds == Spec => []NoLiveLeftover
<1>1. Init => NoLiveLeftover
  BY DEF Init, NoLiveLeftover, AtLock
<1>2. TypeInv /\ NoLiveLeftover /\ [Next]_vars => NoLiveLeftover'
  <2> SUFFICES ASSUME TypeInv, NoLiveLeftover, [Next]_vars, UnlinkSteps \cap FaultySteps = {}
               PROVE  NoLiveLeftover'
    BY DEF NoLiveLeftover
  <2> USE DEF TypeInv, TypeOK, OwnNames, Step, Leave, fs, mem, Token, PidOf, CallSteps,
              ClaimSteps, Steps, AcquireSteps, ReleaseSteps, InspectSteps, ReclaimSteps,
              QuarantineSteps, AtLock, NoLiveLeftover, OwnerMarkerSteps, ClaimMarkerSteps, UnlinkSteps
  <2>1. CASE UNCHANGED vars
    BY <2>1 DEF vars
  <2>2. ASSUME NEW p \in Proc, Call(p) PROVE NoLiveLeftover'
    BY <2>2 DEF Call, Fresh
  <2>3. ASSUME NEW p \in Proc, Transient(p) PROVE NoLiveLeftover'
    BY <2>3 DEF Transient
  <2>4. ASSUME NEW p \in Proc, Fault(p) PROVE NoLiveLeftover'
    <3>1. PICK s \in FaultTargets(pc[p]) : IF s = "idle" THEN Leave(p, s) ELSE Step(p, s)
      BY <2>4 DEF Fault
    <3>2. QED
      BY <2>4, <3>1 DEF Fault, FaultTargets, ForgetQuarantine
  <2>5. ASSUME NEW p \in Proc, Crash(p) PROVE NoLiveLeftover'
    BY <2>5 DEF Crash, ForgetQuarantine
  <2>6. ASSUME NEW p \in Proc, Acquiring(p) PROVE NoLiveLeftover'
    <3>1. CASE Mkdir(p)
      BY <3>1 DEF Mkdir, Isolated
    <3>2. CASE MkdirExists(p)
      BY <3>2 DEF MkdirExists
    <3>3. CASE CreatedStat(p)
      BY <3>3 DEF CreatedStat
    <3>4. CASE Publish(p)
      BY <3>4 DEF Publish, PutMarker
    <3>5. CASE Verify(p)
      BY <3>5 DEF Verify
    <3>6. CASE Confirm(p)
      BY <3>6 DEF Confirm
    <3>7. CASE Preserve(p)
      BY <3>7 DEF Preserve, Unlink
    <3>8. QED BY <2>6, <3>1, <3>2, <3>3, <3>4, <3>5, <3>6, <3>7 DEF Acquiring
  <2>7. ASSUME NEW p \in Proc, Releasing(p) PROVE NoLiveLeftover'
    <3>1. CASE EndOperation(p)
      BY <3>1 DEF EndOperation
    <3>2. CASE RemoveMarker(p)
      BY <3>2 DEF RemoveMarker, Unlink
    <3>3. CASE RemoveDirectory(p)
      BY <3>3 DEF RemoveDirectory, Rmdir
    <3>4. QED BY <2>7, <3>1, <3>2, <3>3 DEF Releasing
  <2>8. ASSUME NEW p \in Proc, Inspecting(p) PROVE NoLiveLeftover'
    <3>1. CASE Look(p)
      BY <3>1 DEF Look
    <3>2. CASE ListMissing(p)
      BY <3>2 DEF ListMissing
    <3>3. CASE ListEmpty(p)
      BY <3>3 DEF ListEmpty
    <3>4. CASE ListMarker(p)
      BY <3>4 DEF ListMarker
    <3>5. CASE ListMalformed(p)
      BY <3>5 DEF ListMalformed
    <3>6. CASE ReadChanged(p)
      BY <3>6 DEF ReadChanged
    <3>7. CASE ReadDead(p)
      BY <3>7 DEF ReadDead, KnownDead
    <3>8. CASE ReadBusy(p)
      BY <3>8 DEF ReadBusy
    <3>9. CASE Retry(p)
      BY <3>9 DEF Retry
    <3>10. CASE TimeOut(p)
      BY <3>10 DEF TimeOut
    <3>11. QED BY <2>8, <3>1, <3>2, <3>3, <3>4, <3>5, <3>6, <3>7, <3>8, <3>9, <3>10 DEF Inspecting
  <2>9. ASSUME NEW p \in Proc, Reclaiming(p) PROVE NoLiveLeftover'
    <3>1. CASE ReclaimMarker(p)
      BY <3>1 DEF ReclaimMarker, Unlink
    <3>2. CASE ReclaimDirectory(p)
      BY <3>2 DEF ReclaimDirectory, Rmdir
    <3>3. CASE JudgeOld(p)
      BY <3>3 DEF JudgeOld
    <3>4. CASE JudgeYoung(p)
      BY <3>4 DEF JudgeYoung
    <3>5. CASE PublishClaim(p)
      BY <3>5 DEF PublishClaim, PutMarker, Fresh
    <3>6. CASE ClaimStat(p)
      BY <3>6 DEF ClaimStat
    <3>7. CASE ClaimList(p)
      BY <3>7 DEF ClaimList
    <3>8. CASE DropClaim(p)
      BY <3>8 DEF DropClaim, Unlink
    <3>9. CASE Isolate(p)
      BY <3>9 DEF Isolate
    <3>10. CASE QuarantineUnlink(p)
      BY <3>10 DEF QuarantineUnlink
    <3>11. CASE QuarantineRmdir(p)
      BY <3>11 DEF QuarantineRmdir, ForgetQuarantine
    <3>12. CASE UndoClaim(p)
      BY <3>12 DEF UndoClaim, Unlink
    <3>13. CASE UndoDirectory(p)
      BY <3>13 DEF UndoDirectory, Rmdir
    <3>14. QED BY <2>9, <3>1, <3>2, <3>3, <3>4, <3>5, <3>6, <3>7, <3>8, <3>9, <3>10, <3>11, <3>12, <3>13 DEF Reclaiming
  <2>10. QED BY <2>1, <2>2, <2>3, <2>4, <2>5, <2>6, <2>7, <2>8, <2>9 DEF Next
<1>3. QED BY <1>1, <1>2, TypeInvariant, PTL DEF Spec

\* A marker disappears from lockPath by a step of its own process, or after the
\* death of that process, or with the directory going to quarantine.
THEOREM OnlyOwnMarkersRemovedHolds == Spec => OnlyOwnMarkersRemoved
<1> DEFINE Allowed == \A t \in Token : AtLock(t) /\ ~AtLock(t)' =>
                        \/ PidOf(t) \in Down
                        \/ pc'[PidOf(t)] # pc[PidOf(t)]
                        \/ lock \in Isolated'
<1>1. TypeInv /\ LockInv /\ [Next]_vars => [Allowed]_vars
  <2> SUFFICES ASSUME TypeInv, LockInv, Next PROVE Allowed
    OBVIOUS
  <2> USE DEF TypeInv, TypeOK, OwnNames, Step, Leave, fs, mem, Token, PidOf, CallSteps,
              ClaimSteps, Steps, AcquireSteps, ReleaseSteps, InspectSteps, ReclaimSteps,
              QuarantineSteps, AtLock, LockInv, ReclaimsDead, QuarantineApart, Isolated, Down
  <2>2. ASSUME NEW p \in Proc, Call(p) PROVE Allowed
    BY <2>2 DEF Call, Fresh
  <2>3. ASSUME NEW p \in Proc, Transient(p) PROVE Allowed
    BY <2>3 DEF Transient
  <2>4. ASSUME NEW p \in Proc, Fault(p) PROVE Allowed
    BY <2>4 DEF Fault, ForgetQuarantine, FaultTargets
  <2>5. ASSUME NEW p \in Proc, Crash(p) PROVE Allowed
    BY <2>5 DEF Crash, ForgetQuarantine
  <2>6. ASSUME NEW p \in Proc, Acquiring(p) PROVE Allowed
    <3>1. CASE Mkdir(p)
      BY <3>1 DEF Mkdir, Isolated
    <3>2. CASE MkdirExists(p)
      BY <3>2 DEF MkdirExists
    <3>3. CASE CreatedStat(p)
      BY <3>3 DEF CreatedStat
    <3>4. CASE Publish(p)
      BY <3>4 DEF Publish, PutMarker
    <3>5. CASE Verify(p)
      BY <3>5 DEF Verify
    <3>6. CASE Confirm(p)
      BY <3>6 DEF Confirm
    <3>7. CASE Preserve(p)
      BY <3>7 DEF Preserve, Unlink
    <3>8. QED BY <2>6, <3>1, <3>2, <3>3, <3>4, <3>5, <3>6, <3>7 DEF Acquiring
  <2>7. ASSUME NEW p \in Proc, Releasing(p) PROVE Allowed
    <3>1. CASE EndOperation(p)
      BY <3>1 DEF EndOperation
    <3>2. CASE RemoveMarker(p)
      BY <3>2 DEF RemoveMarker, Unlink
    <3>3. CASE RemoveDirectory(p)
      BY <3>3 DEF RemoveDirectory, Rmdir
    <3>4. QED BY <2>7, <3>1, <3>2, <3>3 DEF Releasing
  <2>8. ASSUME NEW p \in Proc, Inspecting(p) PROVE Allowed
    <3>1. CASE Look(p)
      BY <3>1 DEF Look
    <3>2. CASE ListMissing(p)
      BY <3>2 DEF ListMissing
    <3>3. CASE ListEmpty(p)
      BY <3>3 DEF ListEmpty
    <3>4. CASE ListMarker(p)
      BY <3>4 DEF ListMarker
    <3>5. CASE ListMalformed(p)
      BY <3>5 DEF ListMalformed
    <3>6. CASE ReadChanged(p)
      BY <3>6 DEF ReadChanged
    <3>7. CASE ReadDead(p)
      BY <3>7 DEF ReadDead, KnownDead
    <3>8. CASE ReadBusy(p)
      BY <3>8 DEF ReadBusy
    <3>9. CASE Retry(p)
      BY <3>9 DEF Retry
    <3>10. CASE TimeOut(p)
      BY <3>10 DEF TimeOut
    <3>11. QED BY <2>8, <3>1, <3>2, <3>3, <3>4, <3>5, <3>6, <3>7, <3>8, <3>9, <3>10 DEF Inspecting
  <2>9. ASSUME NEW p \in Proc, Reclaiming(p) PROVE Allowed
    <3>1. CASE ReclaimMarker(p)
      BY <3>1 DEF ReclaimMarker, Unlink
    <3>2. CASE ReclaimDirectory(p)
      BY <3>2 DEF ReclaimDirectory, Rmdir
    <3>3. CASE JudgeOld(p)
      BY <3>3 DEF JudgeOld
    <3>4. CASE JudgeYoung(p)
      BY <3>4 DEF JudgeYoung
    <3>5. CASE PublishClaim(p)
      BY <3>5 DEF PublishClaim, PutMarker, Fresh
    <3>6. CASE ClaimStat(p)
      BY <3>6 DEF ClaimStat
    <3>7. CASE ClaimList(p)
      BY <3>7 DEF ClaimList
    <3>8. CASE DropClaim(p)
      BY <3>8 DEF DropClaim, Unlink
    <3>9. CASE Isolate(p)
      BY <3>9 DEF Isolate
    <3>10. CASE QuarantineUnlink(p)
      BY <3>10 DEF QuarantineUnlink
    <3>11. CASE QuarantineRmdir(p)
      BY <3>11 DEF QuarantineRmdir, ForgetQuarantine
    <3>12. CASE UndoClaim(p)
      BY <3>12 DEF UndoClaim, Unlink
    <3>13. CASE UndoDirectory(p)
      BY <3>13 DEF UndoDirectory, Rmdir
    <3>14. QED BY <2>9, <3>1, <3>2, <3>3, <3>4, <3>5, <3>6, <3>7, <3>8, <3>9, <3>10, <3>11, <3>12, <3>13 DEF Reclaiming
  <2>10. QED BY <2>2, <2>3, <2>4, <2>5, <2>6, <2>7, <2>8, <2>9 DEF Next
<1>2. QED BY <1>1, TypeInvariant, LockInvariant, PTL DEF Spec, OnlyOwnMarkersRemoved
=============================================================================
