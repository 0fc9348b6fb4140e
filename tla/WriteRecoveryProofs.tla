------------------------- MODULE WriteRecoveryProofs -------------------------
(***************************************************************************)
(* The safety of write recovery for any number of callers, ids, envelopes, *)
(* retries, copies on their way, crashes and failed ledger appends.        *)
(***************************************************************************)
EXTENDS WriteRecovery, TLAPS

USE WriteAssumption

\* The steps inside withWriteRecoveryRequestLock.
Inside == {"verify", "intent", "send", "await", "retry", "body", "outcome"}

\* Only the owner of an id works on it, and what it holds fits its step.
Owned == \A c \in Caller :
    /\ pc[c] \notin {"idle", "dead"} => req[c] \in Req /\ env[c] \in Env
    /\ pc[c] \in Inside => owner[req[c]] = c
    /\ pc[c] = "verify" => replay[c]
    /\ copy[c] # "none" => pc[c] = "await"
    /\ copy[c] = "traveling" => stray[req[c]] < MaxCopies
    /\ pc[c] = "retry" => answer[c] \in Outcomes \ {"bodyError"}
    /\ pc[c] = "body" => answer[c] \in {"ok", "rejected", "ambiguous"}
    /\ pc[c] = "outcome" => answer[c] \in Outcomes \ {"throttled"}

TypeInv == TypeOK /\ Owned

\* An id is drawn for one write, and nothing was done under an id without a
\* durable intent.
Drawn ==
    /\ \A c \in Caller : pc[c] \notin {"idle", "dead"} /\ ~replay[c] =>
          /\ req[c] \in drawn
          /\ pc[c] \in {"own", "intent"} => firstEnv[req[c]] = None
          /\ \A d \in Caller :
                pc[d] \notin {"idle", "dead"} /\ ~replay[d] /\ req[d] = req[c] => d = c
    /\ \A r \in Req : r \notin drawn => firstEnv[r] = None
    /\ \A r \in Req : firstEnv[r] = None =>
          /\ applied[r] = 0 /\ stray[r] = 0 /\ sent[r] = {} /\ latest[r] = "none"

\* A call past its intent works under the envelope of the first intent, and its
\* intent stays the latest record.
Bound == \A c \in Caller :
    /\ pc[c] = "intent" /\ replay[c] => firstEnv[req[c]] = env[c]
    /\ pc[c] \in {"send", "await", "retry", "body", "outcome"} =>
          firstEnv[req[c]] = env[c] /\ latest[req[c]] = "intent"

\* Intuit remembers what it applied, as long as a copy may still arrive or a call
\* may still send one.
Remembered ==
    /\ \A r \in Req :
          /\ applied[r] <= 1
          /\ (age[r] = "young" \/ stray[r] > 0) /\ ~memory[r] => applied[r] = 0
    /\ \A c \in Caller :
          /\ copy[c] = "traveling" /\ ~memory[req[c]] => applied[req[c]] = 0
          /\ pc[c] = "send" /\ ~HasDeadline(c) => applied[req[c]] = 0 /\ stray[req[c]] = 0

\* A success that was seen is one.
SeenOk ==
    /\ \A c \in Caller : 
          copy[c] = "ok" \/ (pc[c] \in {"retry", "body", "outcome"} /\ answer[c] = "ok") =>
             applied[req[c]] > 0
    /\ \A r \in Req : latest[r] = "ok" \/ memory[r] => applied[r] > 0
-----------------------------------------------------------------------------
\* What a failed append leaves is of its types.
LEMMA FailedAppendType ==
  ASSUME TypeOK, NEW r \in Req, NEW rec \in Records, NEW e \in Env, FailedAppend(r, rec, e)
  PROVE  /\ firstEnv' \in [Req -> Env \cup {None}]
         /\ latest' \in [Req -> Records]
         /\ corrupt' \in BOOLEAN
<1> USE DEF TypeOK
<1>1. CASE UNCHANGED ledger
  BY <1>1 DEF ledger
<1>2. CASE Append(r, rec, e)
  BY <1>2 DEF Append
<1>3. CASE corrupt' = TRUE /\ UNCHANGED <<firstEnv, latest>>
  BY <1>3
<1>4. QED BY <1>1, <1>2, <1>3 DEF FailedAppend

\* Types, and the ownership of request ids they rest on.
LEMMA TypeInvariant == Spec => []TypeInv
<1>1. Init => TypeInv
  <2> SUFFICES ASSUME Init PROVE TypeInv
    OBVIOUS
  <2>1. 0 \in 0..MaxRetries /\ 0 \in 0..MaxCopies /\ 0 \in 0..MaxFaults
    OBVIOUS
  <2>2. TypeOK
    BY <2>1 DEF Init, TypeOK, Outcomes, Records, Copies
  <2>3. Owned
    BY DEF Init, Owned, Inside
  <2>4. QED BY <2>2, <2>3 DEF TypeInv
<1>2. TypeInv /\ [Next]_vars => TypeInv'
  <2> SUFFICES ASSUME TypeInv, [Next]_vars PROVE TypeInv'
    OBVIOUS
  <2> USE DEF TypeInv, TypeOK, Owned, Inside, Outcomes, Records, Copies, calls, ledger, intuit,
              Goto
  <2>1. ASSUME NEW c \in Caller, Begin(c) PROVE TypeInv'
    BY <2>1 DEF Begin
  <2>2. ASSUME NEW c \in Caller, BeginReplay(c) PROVE TypeInv'
    BY <2>2 DEF BeginReplay
  <2>3. ASSUME NEW c \in Caller, Own(c) PROVE TypeInv'
    BY <2>3 DEF Own
  <2>4. ASSUME NEW c \in Caller, GiveUpWaiting(c) PROVE TypeInv'
    BY <2>4 DEF GiveUpWaiting, Finish
  <2>5. ASSUME NEW c \in Caller, VerifyWriteReplay(c) PROVE TypeInv'
    BY <2>5 DEF VerifyWriteReplay, MayReplay, Ambiguous
  <2>6. ASSUME NEW c \in Caller, RefuseReplay(c) PROVE TypeInv'
    BY <2>6 DEF RefuseReplay, Finish
  <2>7. ASSUME NEW c \in Caller, RecordWriteIntent(c) PROVE TypeInv'
    BY <2>7 DEF RecordWriteIntent, Append
  <2>8. ASSUME NEW c \in Caller, IntentFails(c) PROVE TypeInv'
    <3>1. FailedAppend(req[c], "intent", env[c])
      BY <2>8 DEF IntentFails
    <3>2. req[c] \in Req /\ env[c] \in Env /\ "intent" \in Records
      BY <2>8 DEF IntentFails
    <3>3. /\ firstEnv' \in [Req -> Env \cup {None}]
          /\ latest' \in [Req -> Records]
          /\ corrupt' \in BOOLEAN
      BY <3>1, <3>2, FailedAppendType
    <3>4. /\ faults < MaxFaults /\ faults' = faults + 1 /\ Finish(c, "idle")
          /\ UNCHANGED <<age, memory, applied, sent, drawn>>
      BY <2>8 DEF IntentFails
    <3>5. QED BY <3>3, <3>4 DEF Finish
  <2>9. ASSUME NEW c \in Caller, Send(c) PROVE TypeInv'
    BY <2>9 DEF Send, BeforeDeadline, HasDeadline
  <2>10. ASSUME NEW c \in Caller, DeadlineElapsed(c) PROVE TypeInv'
    BY <2>10 DEF DeadlineElapsed
  <2>11. ASSUME NEW c \in Caller, Receive(c) PROVE TypeInv'
    BY <2>11 DEF Receive, Answers
  <2>12. ASSUME NEW c \in Caller, Retry(c) PROVE TypeInv'
    BY <2>12 DEF Retry
  <2>13. ASSUME NEW c \in Caller, NoRetry(c) PROVE TypeInv'
    BY <2>13 DEF NoRetry
  <2>14. ASSUME NEW c \in Caller, ReadBody(c) PROVE TypeInv'
    BY <2>14 DEF ReadBody
  <2>15. ASSUME NEW c \in Caller, RecordWriteOutcome(c) PROVE TypeInv'
    BY <2>15 DEF RecordWriteOutcome, Finish, Append
  <2>16. ASSUME NEW c \in Caller, OutcomeFails(c) PROVE TypeInv'
    <3>1. FailedAppend(req[c], answer[c], env[c])
      BY <2>16 DEF OutcomeFails
    <3>2. req[c] \in Req /\ env[c] \in Env /\ answer[c] \in Records
      BY <2>16 DEF OutcomeFails
    <3>3. /\ firstEnv' \in [Req -> Env \cup {None}]
          /\ latest' \in [Req -> Records]
          /\ corrupt' \in BOOLEAN
      BY <3>1, <3>2, FailedAppendType
    <3>4. /\ faults < MaxFaults /\ faults' = faults + 1 /\ Finish(c, "idle")
          /\ UNCHANGED <<age, memory, applied, sent, drawn>>
      BY <2>16 DEF OutcomeFails
    <3>5. QED BY <3>3, <3>4 DEF Finish
  <2>17. ASSUME NEW c \in Caller, Crash(c) PROVE TypeInv'
    <3>1. \/ UNCHANGED ledger
          \/ pc[c] = "intent" /\ FailedAppend(req[c], "intent", env[c])
          \/ pc[c] = "outcome" /\ FailedAppend(req[c], answer[c], env[c])
      BY <2>17 DEF Crash
    <3>2. /\ firstEnv' \in [Req -> Env \cup {None}]
          /\ latest' \in [Req -> Records]
          /\ corrupt' \in BOOLEAN
      <4>1. CASE UNCHANGED ledger
        BY <4>1
      <4>2. CASE pc[c] = "intent" /\ FailedAppend(req[c], "intent", env[c])
        <5>1. req[c] \in Req /\ env[c] \in Env /\ "intent" \in Records
          BY <4>2
        <5>2. QED BY <4>2, <5>1, FailedAppendType
      <4>3. CASE pc[c] = "outcome" /\ FailedAppend(req[c], answer[c], env[c])
        <5>1. req[c] \in Req /\ env[c] \in Env /\ answer[c] \in Records
          BY <4>3
        <5>2. QED BY <4>3, <5>1, FailedAppendType
      <4>4. QED BY <3>1, <4>1, <4>2, <4>3
    <3>3. /\ faults < MaxFaults /\ faults' = faults + 1 /\ Finish(c, "dead")
          /\ UNCHANGED <<age, memory, applied, sent, drawn>>
      BY <2>17 DEF Crash
    <3>4. QED BY <3>2, <3>3 DEF Finish
  <2>18. ASSUME NEW c \in Caller, ServerApplies(c) PROVE TypeInv'
    BY <2>18 DEF ServerApplies, ApplyOnce
  <2>19. ASSUME NEW c \in Caller, ServerRefuses(c) PROVE TypeInv'
    BY <2>19 DEF ServerRefuses
  <2>20. ASSUME NEW r \in Req, StrayArrives(r) PROVE TypeInv'
    <3>1. CASE ApplyOnce(r)
      BY <2>20, <3>1 DEF StrayArrives, ApplyOnce
    <3>2. CASE UNCHANGED <<memory, applied>>
      BY <2>20, <3>2 DEF StrayArrives
    <3>3. QED BY <2>20, <3>1, <3>2 DEF StrayArrives
  <2>21. ASSUME NEW r \in Req, ReplayWindowEnds(r) PROVE TypeInv'
    BY <2>21 DEF ReplayWindowEnds
  <2>22. ASSUME NEW r \in Req, Forget(r) PROVE TypeInv'
    BY <2>22 DEF Forget, Traveling
  <2>23. CASE TornElsewhere
    BY <2>23 DEF TornElsewhere
  <2>24. CASE UNCHANGED vars
    BY <2>24 DEF vars
  <2>25. QED BY <2>1, <2>2, <2>3, <2>4, <2>5, <2>6, <2>7, <2>8, <2>9, <2>10, <2>11, <2>12, <2>13, <2>14, <2>15, <2>16, <2>17, <2>18, <2>19, <2>20, <2>21, <2>22, <2>23, <2>24 DEF Next
<1>3. QED BY <1>1, <1>2, PTL DEF Spec

\* One write per id.
LEMMA DrawnInvariant == Spec => [](Drawn /\ Bound)
<1>1. Init => Drawn /\ Bound
  BY DEF Init, Drawn, Bound
<1>2. TypeInv /\ Drawn /\ Bound /\ [Next]_vars => (Drawn /\ Bound)'
  <2> SUFFICES ASSUME TypeInv, Drawn, Bound, [Next]_vars PROVE (Drawn /\ Bound)'
    OBVIOUS
  <2> USE DEF TypeInv, TypeOK, Owned, Inside, Drawn, Bound, calls, ledger, intuit, Goto
  <2>1. ASSUME NEW c \in Caller, Begin(c) PROVE (Drawn /\ Bound)'
    BY <2>1 DEF Begin
  <2>2. ASSUME NEW c \in Caller, BeginReplay(c) PROVE (Drawn /\ Bound)'
    BY <2>2 DEF BeginReplay
  <2>3. ASSUME NEW c \in Caller, Own(c) PROVE (Drawn /\ Bound)'
    BY <2>3 DEF Own
  <2>4. ASSUME NEW c \in Caller, GiveUpWaiting(c) PROVE (Drawn /\ Bound)'
    BY <2>4 DEF GiveUpWaiting, Finish
  <2>5. ASSUME NEW c \in Caller, VerifyWriteReplay(c) PROVE (Drawn /\ Bound)'
    BY <2>5 DEF VerifyWriteReplay, MayReplay, Ambiguous
  <2>6. ASSUME NEW c \in Caller, RefuseReplay(c) PROVE (Drawn /\ Bound)'
    BY <2>6 DEF RefuseReplay, Finish
  <2>7. ASSUME NEW c \in Caller, RecordWriteIntent(c) PROVE (Drawn /\ Bound)'
    BY <2>7 DEF RecordWriteIntent, Append
  <2>8. ASSUME NEW c \in Caller, IntentFails(c) PROVE (Drawn /\ Bound)'
    BY <2>8 DEF IntentFails, Finish, FailedAppend, Append
  <2>9. ASSUME NEW c \in Caller, Send(c) PROVE (Drawn /\ Bound)'
    BY <2>9 DEF Send, BeforeDeadline, HasDeadline
  <2>10. ASSUME NEW c \in Caller, DeadlineElapsed(c) PROVE (Drawn /\ Bound)'
    BY <2>10 DEF DeadlineElapsed
  <2>11. ASSUME NEW c \in Caller, Receive(c) PROVE (Drawn /\ Bound)'
    BY <2>11 DEF Receive, Answers
  <2>12. ASSUME NEW c \in Caller, Retry(c) PROVE (Drawn /\ Bound)'
    BY <2>12 DEF Retry
  <2>13. ASSUME NEW c \in Caller, NoRetry(c) PROVE (Drawn /\ Bound)'
    BY <2>13 DEF NoRetry
  <2>14. ASSUME NEW c \in Caller, ReadBody(c) PROVE (Drawn /\ Bound)'
    BY <2>14 DEF ReadBody
  <2>15. ASSUME NEW c \in Caller, RecordWriteOutcome(c) PROVE (Drawn /\ Bound)'
    BY <2>15 DEF RecordWriteOutcome, Finish, Append
  <2>16. ASSUME NEW c \in Caller, OutcomeFails(c) PROVE (Drawn /\ Bound)'
    BY <2>16 DEF OutcomeFails, Finish, FailedAppend, Append
  <2>17. ASSUME NEW c \in Caller, Crash(c) PROVE (Drawn /\ Bound)'
    BY <2>17 DEF Crash, Finish, FailedAppend, Append
  <2>18. ASSUME NEW c \in Caller, ServerApplies(c) PROVE (Drawn /\ Bound)'
    BY <2>18 DEF ServerApplies, ApplyOnce
  <2>19. ASSUME NEW c \in Caller, ServerRefuses(c) PROVE (Drawn /\ Bound)'
    BY <2>19 DEF ServerRefuses
  <2>20. ASSUME NEW r \in Req, StrayArrives(r) PROVE (Drawn /\ Bound)'
    BY <2>20 DEF StrayArrives, ApplyOnce
  <2>21. ASSUME NEW r \in Req, ReplayWindowEnds(r) PROVE (Drawn /\ Bound)'
    BY <2>21 DEF ReplayWindowEnds
  <2>22. ASSUME NEW r \in Req, Forget(r) PROVE (Drawn /\ Bound)'
    BY <2>22 DEF Forget, Traveling
  <2>23. CASE TornElsewhere
    BY <2>23 DEF TornElsewhere
  <2>24. CASE UNCHANGED vars
    BY <2>24 DEF vars
  <2>25. QED BY <2>1, <2>2, <2>3, <2>4, <2>5, <2>6, <2>7, <2>8, <2>9, <2>10, <2>11, <2>12, <2>13, <2>14, <2>15, <2>16, <2>17, <2>18, <2>19, <2>20, <2>21, <2>22, <2>23, <2>24 DEF Next
<1>3. QED BY <1>1, <1>2, TypeInvariant, PTL DEF Spec

\* Intuit's memory lasts as long as it is needed.
LEMMA RememberedInvariant == Spec => []Remembered
<1>1. Init => Remembered
  BY DEF Init, Remembered
<1>2. TypeInv /\ Drawn /\ Remembered /\ [Next]_vars => Remembered'
  <2> SUFFICES ASSUME TypeInv, Drawn, Remembered, [Next]_vars PROVE Remembered'
    OBVIOUS
  <2> USE DEF TypeInv, TypeOK, Owned, Inside, Drawn, Remembered, HasDeadline, calls, ledger,
              intuit, Goto
  <2>1. ASSUME NEW c \in Caller, Begin(c) PROVE Remembered'
    BY <2>1 DEF Begin
  <2>2. ASSUME NEW c \in Caller, BeginReplay(c) PROVE Remembered'
    BY <2>2 DEF BeginReplay
  <2>3. ASSUME NEW c \in Caller, Own(c) PROVE Remembered'
    BY <2>3 DEF Own
  <2>4. ASSUME NEW c \in Caller, GiveUpWaiting(c) PROVE Remembered'
    BY <2>4 DEF GiveUpWaiting, Finish
  <2>5. ASSUME NEW c \in Caller, VerifyWriteReplay(c) PROVE Remembered'
    BY <2>5 DEF VerifyWriteReplay, MayReplay, Ambiguous
  <2>6. ASSUME NEW c \in Caller, RefuseReplay(c) PROVE Remembered'
    BY <2>6 DEF RefuseReplay, Finish
  <2>7. ASSUME NEW c \in Caller, RecordWriteIntent(c) PROVE Remembered'
    BY <2>7 DEF RecordWriteIntent, Append
  <2>8. ASSUME NEW c \in Caller, IntentFails(c) PROVE Remembered'
    BY <2>8 DEF IntentFails, Finish, FailedAppend, Append
  <2>9. ASSUME NEW c \in Caller, Send(c) PROVE Remembered'
    BY <2>9 DEF Send, BeforeDeadline, HasDeadline
  <2>10. ASSUME NEW c \in Caller, DeadlineElapsed(c) PROVE Remembered'
    BY <2>10 DEF DeadlineElapsed
  <2>11. ASSUME NEW c \in Caller, Receive(c) PROVE Remembered'
    BY <2>11 DEF Receive, Answers
  <2>12. ASSUME NEW c \in Caller, Retry(c) PROVE Remembered'
    BY <2>12 DEF Retry
  <2>13. ASSUME NEW c \in Caller, NoRetry(c) PROVE Remembered'
    BY <2>13 DEF NoRetry
  <2>14. ASSUME NEW c \in Caller, ReadBody(c) PROVE Remembered'
    BY <2>14 DEF ReadBody
  <2>15. ASSUME NEW c \in Caller, RecordWriteOutcome(c) PROVE Remembered'
    BY <2>15 DEF RecordWriteOutcome, Finish, Append
  <2>16. ASSUME NEW c \in Caller, OutcomeFails(c) PROVE Remembered'
    BY <2>16 DEF OutcomeFails, Finish, FailedAppend, Append
  <2>17. ASSUME NEW c \in Caller, Crash(c) PROVE Remembered'
    BY <2>17 DEF Crash, Finish, FailedAppend, Append
  <2>18. ASSUME NEW c \in Caller, ServerApplies(c) PROVE Remembered'
    BY <2>18 DEF ServerApplies, ApplyOnce
  <2>19. ASSUME NEW c \in Caller, ServerRefuses(c) PROVE Remembered'
    BY <2>19 DEF ServerRefuses
  <2>20. ASSUME NEW r \in Req, StrayArrives(r) PROVE Remembered'
    <3>1. /\ stray[r] > 0 /\ stray' = [stray EXCEPT ![r] = @ - 1]
          /\ UNCHANGED <<calls, age>>
      BY <2>20 DEF StrayArrives
    <3>2. CASE ApplyOnce(r)
      <4>1. CASE memory[r]
        <5>1. UNCHANGED <<memory, applied>>
          BY <3>2, <4>1 DEF ApplyOnce
        <5>2. QED BY <3>1, <5>1
      <4>2. CASE ~memory[r]
        <5>1. applied[r] = 0 /\ firstEnv[r] # None
          BY <3>1, <4>2
        <5>2. /\ applied' = [applied EXCEPT ![r] = 1]
              /\ memory' = [memory EXCEPT ![r] = TRUE]
          BY <3>2, <4>2, <5>1 DEF ApplyOnce
        <5>3. \A c \in Caller : pc[c] = "send" /\ ~HasDeadline(c) => req[c] # r
          BY <3>1
        <5>4. QED BY <3>1, <5>2, <5>3
      <4>3. QED BY <4>1, <4>2
    <3>3. CASE UNCHANGED <<memory, applied>>
      BY <3>1, <3>3
    <3>4. QED BY <2>20, <3>2, <3>3 DEF StrayArrives
  <2>21. ASSUME NEW r \in Req, ReplayWindowEnds(r) PROVE Remembered'
    BY <2>21 DEF ReplayWindowEnds
  <2>22. ASSUME NEW r \in Req, Forget(r) PROVE Remembered'
    BY <2>22 DEF Forget, Traveling
  <2>23. CASE TornElsewhere
    BY <2>23 DEF TornElsewhere
  <2>24. CASE UNCHANGED vars
    BY <2>24 DEF vars
  <2>25. QED BY <2>1, <2>2, <2>3, <2>4, <2>5, <2>6, <2>7, <2>8, <2>9, <2>10, <2>11, <2>12, <2>13, <2>14, <2>15, <2>16, <2>17, <2>18, <2>19, <2>20, <2>21, <2>22, <2>23, <2>24 DEF Next
<1>3. QED BY <1>1, <1>2, TypeInvariant, DrawnInvariant, PTL DEF Spec

\* A success in the ledger goes back to an answer of Intuit.
LEMMA SeenOkInvariant == Spec => []SeenOk
<1>1. Init => SeenOk
  BY DEF Init, SeenOk, Inside
<1>2. TypeInv /\ SeenOk /\ [Next]_vars => SeenOk'
  <2> SUFFICES ASSUME TypeInv, SeenOk, [Next]_vars PROVE SeenOk'
    OBVIOUS
  <2> USE DEF TypeInv, TypeOK, Owned, Inside, SeenOk, calls, ledger, intuit, Goto
  <2>1. ASSUME NEW c \in Caller, Begin(c) PROVE SeenOk'
    BY <2>1 DEF Begin
  <2>2. ASSUME NEW c \in Caller, BeginReplay(c) PROVE SeenOk'
    BY <2>2 DEF BeginReplay
  <2>3. ASSUME NEW c \in Caller, Own(c) PROVE SeenOk'
    BY <2>3 DEF Own
  <2>4. ASSUME NEW c \in Caller, GiveUpWaiting(c) PROVE SeenOk'
    BY <2>4 DEF GiveUpWaiting, Finish
  <2>5. ASSUME NEW c \in Caller, VerifyWriteReplay(c) PROVE SeenOk'
    BY <2>5 DEF VerifyWriteReplay, MayReplay, Ambiguous
  <2>6. ASSUME NEW c \in Caller, RefuseReplay(c) PROVE SeenOk'
    BY <2>6 DEF RefuseReplay, Finish
  <2>7. ASSUME NEW c \in Caller, RecordWriteIntent(c) PROVE SeenOk'
    BY <2>7 DEF RecordWriteIntent, Append
  <2>8. ASSUME NEW c \in Caller, IntentFails(c) PROVE SeenOk'
    BY <2>8 DEF IntentFails, Finish, FailedAppend, Append
  <2>9. ASSUME NEW c \in Caller, Send(c) PROVE SeenOk'
    BY <2>9 DEF Send, BeforeDeadline, HasDeadline
  <2>10. ASSUME NEW c \in Caller, DeadlineElapsed(c) PROVE SeenOk'
    BY <2>10 DEF DeadlineElapsed
  <2>11. ASSUME NEW c \in Caller, Receive(c) PROVE SeenOk'
    BY <2>11 DEF Receive, Answers
  <2>12. ASSUME NEW c \in Caller, Retry(c) PROVE SeenOk'
    BY <2>12 DEF Retry
  <2>13. ASSUME NEW c \in Caller, NoRetry(c) PROVE SeenOk'
    BY <2>13 DEF NoRetry
  <2>14. ASSUME NEW c \in Caller, ReadBody(c) PROVE SeenOk'
    BY <2>14 DEF ReadBody
  <2>15. ASSUME NEW c \in Caller, RecordWriteOutcome(c) PROVE SeenOk'
    BY <2>15 DEF RecordWriteOutcome, Finish, Append
  <2>16. ASSUME NEW c \in Caller, OutcomeFails(c) PROVE SeenOk'
    BY <2>16 DEF OutcomeFails, Finish, FailedAppend, Append
  <2>17. ASSUME NEW c \in Caller, Crash(c) PROVE SeenOk'
    BY <2>17 DEF Crash, Finish, FailedAppend, Append
  <2>18. ASSUME NEW c \in Caller, ServerApplies(c) PROVE SeenOk'
    BY <2>18 DEF ServerApplies, ApplyOnce
  <2>19. ASSUME NEW c \in Caller, ServerRefuses(c) PROVE SeenOk'
    BY <2>19 DEF ServerRefuses
  <2>20. ASSUME NEW r \in Req, StrayArrives(r) PROVE SeenOk'
    BY <2>20 DEF StrayArrives, ApplyOnce
  <2>21. ASSUME NEW r \in Req, ReplayWindowEnds(r) PROVE SeenOk'
    BY <2>21 DEF ReplayWindowEnds
  <2>22. ASSUME NEW r \in Req, Forget(r) PROVE SeenOk'
    BY <2>22 DEF Forget, Traveling
  <2>23. CASE TornElsewhere
    BY <2>23 DEF TornElsewhere
  <2>24. CASE UNCHANGED vars
    BY <2>24 DEF vars
  <2>25. QED BY <2>1, <2>2, <2>3, <2>4, <2>5, <2>6, <2>7, <2>8, <2>9, <2>10, <2>11, <2>12, <2>13, <2>14, <2>15, <2>16, <2>17, <2>18, <2>19, <2>20, <2>21, <2>22, <2>23, <2>24 DEF Next
<1>3. QED BY <1>1, <1>2, TypeInvariant, PTL DEF Spec
-----------------------------------------------------------------------------
\* Every variable keeps its type; no call exceeds its retries.
THEOREM TypeCorrect == Spec => []TypeOK
<1>1. TypeInv => TypeOK
  BY DEF TypeInv
<1>2. QED BY <1>1, TypeInvariant, PTL

\* QuickBooks applies an id at most once.
THEOREM AtMostOnceHolds == Spec => []AtMostOnce
<1>1. Remembered => AtMostOnce
  BY DEF Remembered, AtMostOnce
<1>2. QED BY <1>1, RememberedInvariant, PTL

\* A call that is sending works under the first envelope, whose intent is the
\* latest record: nothing definitive is ever sent again.
THEOREM ResolvedNotResentHolds == Spec => ResolvedNotResent
<1>1. Bound => [\A c \in Caller : pc[c] = "send" /\ pc'[c] = "await" => Ambiguous(req[c])]_vars
  BY DEF Bound, Ambiguous
<1>2. QED BY <1>1, DrawnInvariant, PTL DEF ResolvedNotResent

\* The ledger says that QuickBooks accepted a write only when it did.
THEOREM OkMeansAppliedHolds == Spec => []OkMeansApplied
<1>1. SeenOk => OkMeansApplied
  BY DEF SeenOk, OkMeansApplied
<1>2. QED BY <1>1, SeenOkInvariant, PTL

\* Nothing is sent under an id but the envelope of its first durable intent.
THEOREM BoundEnvelopeHolds == Spec => []BoundEnvelope
<1>1. Init => BoundEnvelope
  BY DEF Init, BoundEnvelope
<1>2. TypeInv /\ Drawn /\ Bound /\ BoundEnvelope /\ [Next]_vars => BoundEnvelope'
  <2> SUFFICES ASSUME TypeInv, Drawn, Bound, BoundEnvelope, [Next]_vars PROVE BoundEnvelope'
    OBVIOUS
  <2> USE DEF TypeInv, TypeOK, Owned, Inside, Drawn, Bound, BoundEnvelope, calls, ledger, intuit, Goto
  <2>1. ASSUME NEW c \in Caller, Begin(c) PROVE BoundEnvelope'
    BY <2>1 DEF Begin
  <2>2. ASSUME NEW c \in Caller, BeginReplay(c) PROVE BoundEnvelope'
    BY <2>2 DEF BeginReplay
  <2>3. ASSUME NEW c \in Caller, Own(c) PROVE BoundEnvelope'
    BY <2>3 DEF Own
  <2>4. ASSUME NEW c \in Caller, GiveUpWaiting(c) PROVE BoundEnvelope'
    BY <2>4 DEF GiveUpWaiting, Finish
  <2>5. ASSUME NEW c \in Caller, VerifyWriteReplay(c) PROVE BoundEnvelope'
    BY <2>5 DEF VerifyWriteReplay, MayReplay, Ambiguous
  <2>6. ASSUME NEW c \in Caller, RefuseReplay(c) PROVE BoundEnvelope'
    BY <2>6 DEF RefuseReplay, Finish
  <2>7. ASSUME NEW c \in Caller, RecordWriteIntent(c) PROVE BoundEnvelope'
    BY <2>7 DEF RecordWriteIntent, Append
  <2>8. ASSUME NEW c \in Caller, IntentFails(c) PROVE BoundEnvelope'
    BY <2>8 DEF IntentFails, Finish, FailedAppend, Append
  <2>9. ASSUME NEW c \in Caller, Send(c) PROVE BoundEnvelope'
    BY <2>9 DEF Send, BeforeDeadline, HasDeadline
  <2>10. ASSUME NEW c \in Caller, DeadlineElapsed(c) PROVE BoundEnvelope'
    BY <2>10 DEF DeadlineElapsed
  <2>11. ASSUME NEW c \in Caller, Receive(c) PROVE BoundEnvelope'
    BY <2>11 DEF Receive, Answers
  <2>12. ASSUME NEW c \in Caller, Retry(c) PROVE BoundEnvelope'
    BY <2>12 DEF Retry
  <2>13. ASSUME NEW c \in Caller, NoRetry(c) PROVE BoundEnvelope'
    BY <2>13 DEF NoRetry
  <2>14. ASSUME NEW c \in Caller, ReadBody(c) PROVE BoundEnvelope'
    BY <2>14 DEF ReadBody
  <2>15. ASSUME NEW c \in Caller, RecordWriteOutcome(c) PROVE BoundEnvelope'
    BY <2>15 DEF RecordWriteOutcome, Finish, Append
  <2>16. ASSUME NEW c \in Caller, OutcomeFails(c) PROVE BoundEnvelope'
    BY <2>16 DEF OutcomeFails, Finish, FailedAppend, Append
  <2>17. ASSUME NEW c \in Caller, Crash(c) PROVE BoundEnvelope'
    BY <2>17 DEF Crash, Finish, FailedAppend, Append
  <2>18. ASSUME NEW c \in Caller, ServerApplies(c) PROVE BoundEnvelope'
    BY <2>18 DEF ServerApplies, ApplyOnce
  <2>19. ASSUME NEW c \in Caller, ServerRefuses(c) PROVE BoundEnvelope'
    BY <2>19 DEF ServerRefuses
  <2>20. ASSUME NEW r \in Req, StrayArrives(r) PROVE BoundEnvelope'
    BY <2>20 DEF StrayArrives, ApplyOnce
  <2>21. ASSUME NEW r \in Req, ReplayWindowEnds(r) PROVE BoundEnvelope'
    BY <2>21 DEF ReplayWindowEnds
  <2>22. ASSUME NEW r \in Req, Forget(r) PROVE BoundEnvelope'
    BY <2>22 DEF Forget, Traveling
  <2>23. CASE TornElsewhere
    BY <2>23 DEF TornElsewhere
  <2>24. CASE UNCHANGED vars
    BY <2>24 DEF vars
  <2>25. QED BY <2>1, <2>2, <2>3, <2>4, <2>5, <2>6, <2>7, <2>8, <2>9, <2>10, <2>11, <2>12, <2>13, <2>14, <2>15, <2>16, <2>17, <2>18, <2>19, <2>20, <2>21, <2>22, <2>23, <2>24 DEF Next
<1>3. QED BY <1>1, <1>2, TypeInvariant, DrawnInvariant, PTL DEF Spec
=============================================================================
