---------------------------- MODULE WriteRecovery ----------------------------
(***************************************************************************)
(* One QuickBooks write and its recovery: qboRequest, qboUpload and        *)
(* qboFetch of src/src/qbo.js with the write-recovery ledger of            *)
(* src/src/audit.js.  A call draws a request id, or replays one that the   *)
(* user supplies; it owns the id, makes an intent durable, sends, and      *)
(* makes the outcome durable.  Intuit applies an id once as long as it     *)
(* remembers the id.                                                       *)
(*                                                                         *)
(* Abstractions.                                                           *)
(*   - An envelope stands for company, realm, environment, method, path    *)
(*     and body hash.  Of the ledger only the first intent and the latest  *)
(*     record of an id matter to its readers.                              *)
(*   - The age of an id is "young" up to QBO_RECOVERY_REPLAY_MAX_AGE_MS    *)
(*     after its first intent and "late" from then on.                     *)
(*   - The request lock is the lock of OwnerLock seen through              *)
(*     ExclusiveLock: held by one call, freed by its end or its death.     *)
(*     The innermost ledger lock makes an append or a read one step.       *)
(*   - A timed-out attempt may still be on its way: it is a stray copy.    *)
(***************************************************************************)
EXTENDS Naturals, FiniteSets

CONSTANTS
    Caller,        \* the processes (or concurrent tool calls) that write
    Req,           \* request ids
    Env,           \* request envelopes
    None,          \* no id, no envelope, nobody
    RetryWrites,   \* the callers that run with QBO_RETRY_WRITES
    MaxRetries,    \* MAX_RETRIES
    MaxCopies,     \* bound on the copies of a write on their way at a time
    MaxFaults      \* bound on crashes and failed ledger appends

ASSUME WriteAssumption ==
    /\ None \notin Caller \cup Req \cup Env
    /\ RetryWrites \subseteq Caller
    /\ MaxRetries \in Nat
    /\ MaxCopies \in Nat \ {0}
    /\ MaxFaults \in Nat

VARIABLES
    pc,            \* the next step of each call
    req, env,      \* its request id and envelope
    replay,        \* whether the id was supplied by the user
    attempt,       \* the number of retries made
    copy,          \* what became of the message of the current attempt
    answer,        \* what qboFetch returned or threw
    owner,         \* the holder of the request lock of each id
    firstEnv,      \* the envelope of the first durable intent of each id
    latest,        \* the latest durable record of each id
    corrupt,       \* a torn line makes the ledger unreadable
    age,           \* of each id
    stray,         \* copies of abandoned attempts still on their way
    memory,        \* whether Intuit remembers the id
    applied,       \* how often Intuit applied it
    sent,          \* the envelopes sent under each id
    drawn,         \* the ids ever drawn
    faults

calls  == <<pc, req, env, replay, attempt, copy, answer>>
ledger == <<firstEnv, latest, corrupt>>
intuit == <<stray, memory, applied>>
vars   == <<pc, req, env, replay, attempt, copy, answer, owner, firstEnv, latest, corrupt,
            age, stray, memory, applied, sent, drawn, faults>>

Outcomes == {"ok", "rejected", "throttled", "ambiguous", "bodyError", "transport"}
Records  == {"none", "intent"} \cup (Outcomes \ {"throttled"})
Copies   == {"none", "traveling", "lost", "ok", "rejected", "throttled"}

\* The type invariant; with it, a call makes at most MaxRetries retries (qboFetch).
TypeOK ==
    /\ pc \in [Caller -> {"idle", "own", "verify", "intent", "send", "await", "retry", "body",
                          "outcome", "dead"}]
    /\ req \in [Caller -> Req \cup {None}]
    /\ env \in [Caller -> Env \cup {None}]
    /\ replay \in [Caller -> BOOLEAN]
    /\ attempt \in [Caller -> 0..MaxRetries]
    /\ copy \in [Caller -> Copies]
    /\ answer \in [Caller -> Outcomes \cup {"none"}]
    /\ owner \in [Req -> Caller \cup {None}]
    /\ firstEnv \in [Req -> Env \cup {None}]
    /\ latest \in [Req -> Records]
    /\ corrupt \in BOOLEAN
    /\ age \in [Req -> {"young", "late"}]
    /\ stray \in [Req -> 0..MaxCopies]
    /\ memory \in [Req -> BOOLEAN]
    /\ applied \in [Req -> Nat]
    /\ sent \in [Req -> SUBSET Env]
    /\ drawn \in SUBSET Req
    /\ faults \in 0..MaxFaults

Init ==
    /\ pc = [c \in Caller |-> "idle"]
    /\ req = [c \in Caller |-> None]
    /\ env = [c \in Caller |-> None]
    /\ replay = [c \in Caller |-> FALSE]
    /\ attempt = [c \in Caller |-> 0]
    /\ copy = [c \in Caller |-> "none"]
    /\ answer = [c \in Caller |-> "none"]
    /\ owner = [r \in Req |-> None]
    /\ firstEnv = [r \in Req |-> None]
    /\ latest = [r \in Req |-> "none"]
    /\ corrupt = FALSE
    /\ age = [r \in Req |-> "young"]
    /\ stray = [r \in Req |-> 0]
    /\ memory = [r \in Req |-> FALSE]
    /\ applied = [r \in Req |-> 0]
    /\ sent = [r \in Req |-> {}]
    /\ drawn = {}
    /\ faults = 0
-----------------------------------------------------------------------------
Goto(c, s) == pc' = [pc EXCEPT ![c] = s]

\* The call returns or throws: its locals go and the request lock is released.
\* A message that was not answered stays on its way.
Finish(c, s) ==
    /\ pc' = [pc EXCEPT ![c] = s]
    /\ req' = [req EXCEPT ![c] = None]
    /\ env' = [env EXCEPT ![c] = None]
    /\ replay' = [replay EXCEPT ![c] = FALSE]
    /\ attempt' = [attempt EXCEPT ![c] = 0]
    /\ copy' = [copy EXCEPT ![c] = "none"]
    /\ answer' = [answer EXCEPT ![c] = "none"]
    /\ owner' = [r \in Req |-> IF owner[r] = c THEN None ELSE owner[r]]
    /\ stray' = [r \in Req |-> IF r = req[c] /\ copy[c] = "traveling"
                               THEN stray[r] + 1 ELSE stray[r]]

\* A new write: randomUUID() draws the id.
Begin(c) ==
    /\ pc[c] = "idle"
    /\ \E r \in Req \ drawn, e \in Env :
          /\ req' = [req EXCEPT ![c] = r]
          /\ env' = [env EXCEPT ![c] = e]
          /\ drawn' = drawn \cup {r}
    /\ Goto(c, "own")
    /\ UNCHANGED <<replay, attempt, copy, answer, owner, ledger, age, intuit, sent, faults>>

\* A recovery: the user supplies an id, whichever, with whatever arguments.
BeginReplay(c) ==
    /\ pc[c] = "idle"
    /\ \E r \in Req, e \in Env :
          /\ req' = [req EXCEPT ![c] = r]
          /\ env' = [env EXCEPT ![c] = e]
    /\ replay' = [replay EXCEPT ![c] = TRUE]
    /\ Goto(c, "own")
    /\ UNCHANGED <<attempt, copy, answer, owner, ledger, age, intuit, sent, drawn, faults>>

\* Mutant of Own: the request is not locked against a concurrent replay.
OwnUnlocked(c) ==
    /\ pc[c] = "own"
    /\ owner' = [owner EXCEPT ![req[c]] = c]
    /\ Goto(c, IF replay[c] THEN "verify" ELSE "intent")
    /\ UNCHANGED <<req, env, replay, attempt, copy, answer, ledger, age, intuit, sent, drawn,
                   faults>>

\* withWriteRecoveryRequestLock; a dead owner's lock is reclaimed.
Own(c) ==
    /\ pc[c] = "own"
    /\ owner[req[c]] = None
    /\ owner' = [owner EXCEPT ![req[c]] = c]
    /\ Goto(c, IF replay[c] THEN "verify" ELSE "intent")
    /\ UNCHANGED <<req, env, replay, attempt, copy, answer, ledger, age, intuit, sent, drawn,
                   faults>>

\* The wait for the request lock ends with a timeout.
GiveUpWaiting(c) ==
    /\ pc[c] = "own"
    /\ owner[req[c]] # None
    /\ Finish(c, "idle")
    /\ UNCHANGED <<ledger, age, memory, applied, sent, drawn, faults>>

\* recoveryRecordIsAmbiguous
Ambiguous(r) == latest[r] \in {"intent", "transport", "bodyError", "ambiguous"}

\* Mutant of MayReplay: the envelope is not compared with the first intent's.
MayReplayAnything(r, e) ==
    /\ ~corrupt
    /\ firstEnv[r] # None
    /\ Ambiguous(r)
    /\ age[r] = "young"

\* verifyWriteReplay
MayReplay(r, e) ==
    /\ ~corrupt
    /\ firstEnv[r] = e
    /\ Ambiguous(r)
    /\ age[r] = "young"

VerifyWriteReplay(c) ==
    /\ pc[c] = "verify"
    /\ MayReplay(req[c], env[c])
    /\ Goto(c, "intent")
    /\ UNCHANGED <<req, env, replay, attempt, copy, answer, owner, ledger, age, intuit, sent,
                   drawn, faults>>

RefuseReplay(c) ==
    /\ pc[c] = "verify"
    /\ ~MayReplay(req[c], env[c])
    /\ Finish(c, "idle")
    /\ UNCHANGED <<ledger, age, memory, applied, sent, drawn, faults>>

\* Append one record and fsync it.
Append(r, rec, e) ==
    /\ latest' = [latest EXCEPT ![r] = rec]
    /\ firstEnv' = [firstEnv EXCEPT ![r] = IF @ = None THEN e ELSE @]
    /\ UNCHANGED corrupt

RecordWriteIntent(c) ==
    /\ pc[c] = "intent"
    /\ Append(req[c], "intent", env[c])
    /\ Goto(c, "send")
    /\ UNCHANGED <<req, env, replay, attempt, copy, answer, owner, age, intuit, sent, drawn,
                   faults>>

\* An append that fails, or that its process does not survive, leaves nothing,
\* the whole line, or a torn one.  A torn line stays: every reader refuses the
\* ledger from then on, whatever follows it.
FailedAppend(r, rec, e) ==
    \/ UNCHANGED ledger
    \/ Append(r, rec, e)
    \/ corrupt' = TRUE /\ UNCHANGED <<firstEnv, latest>>

\* The intent cannot be made durable: nothing is sent.
IntentFails(c) ==
    /\ pc[c] = "intent"
    /\ faults < MaxFaults
    /\ faults' = faults + 1
    /\ FailedAppend(req[c], "intent", env[c])
    /\ Finish(c, "idle")
    /\ UNCHANGED <<age, memory, applied, sent, drawn>>
-----------------------------------------------------------------------------
(* qboFetch                                                                *)

HasDeadline(c) == c \in RetryWrites \/ replay[c]

\* Mutant of BeforeDeadline: every attempt receives a fresh timeout.
BeforeDeadlineOfAttempt(c) == replay[c] => age[req[c]] = "young"

BeforeDeadline(c) == HasDeadline(c) => age[req[c]] = "young"

Send(c) ==
    /\ pc[c] = "send"
    /\ BeforeDeadline(c)
    /\ stray[req[c]] < MaxCopies
    /\ copy' = [copy EXCEPT ![c] = "traveling"]
    /\ sent' = [sent EXCEPT ![req[c]] = @ \cup {env[c]}]
    /\ Goto(c, "await")
    /\ UNCHANGED <<req, env, replay, attempt, answer, owner, ledger, age, intuit, drawn, faults>>

\* "The conservative QBO request-id replay deadline elapsed before another
\* request could be sent": recorded like a transport error.
DeadlineElapsed(c) ==
    /\ pc[c] = "send"
    /\ ~BeforeDeadline(c)
    /\ answer' = [answer EXCEPT ![c] = "transport"]
    /\ Goto(c, "outcome")
    /\ UNCHANGED <<req, env, replay, attempt, copy, owner, ledger, age, intuit, sent, drawn,
                   faults>>

\* What can come back: the answer of the server, a 408 or 5xx of something in
\* between, or nothing before AbortSignal.timeout.
Answers(x) == {"ambiguous", "transport"} \cup ({x} \cap {"ok", "rejected", "throttled"})

Receive(c) ==
    /\ pc[c] = "await"
    /\ \E a \in Answers(copy[c]) : answer' = [answer EXCEPT ![c] = a]
    /\ stray' = [stray EXCEPT ![req[c]] = IF copy[c] = "traveling" THEN @ + 1 ELSE @]
    /\ copy' = [copy EXCEPT ![c] = "none"]
    /\ Goto(c, "retry")
    /\ UNCHANGED <<req, env, replay, attempt, owner, ledger, age, memory, applied, sent, drawn,
                   faults>>

\* Mutant of Retry: one retry too many.
RetryOnceMore(c) ==
    /\ pc[c] = "retry"
    /\ c \in RetryWrites
    /\ attempt[c] <= MaxRetries
    /\ age[req[c]] = "young"
    /\ answer[c] \in {"transport", "throttled", "ambiguous"}
    /\ attempt' = [attempt EXCEPT ![c] = @ + 1]
    /\ answer' = [answer EXCEPT ![c] = "none"]
    /\ Goto(c, "send")
    /\ UNCHANGED <<req, env, replay, copy, owner, ledger, age, intuit, sent, drawn, faults>>

\* Whether the delay fits before the deadline is left open.
Retry(c) ==
    /\ pc[c] = "retry"
    /\ c \in RetryWrites
    /\ attempt[c] < MaxRetries
    /\ age[req[c]] = "young"
    /\ answer[c] \in {"transport", "throttled", "ambiguous"}
    /\ attempt' = [attempt EXCEPT ![c] = @ + 1]
    /\ answer' = [answer EXCEPT ![c] = "none"]
    /\ Goto(c, "send")
    /\ UNCHANGED <<req, env, replay, copy, owner, ledger, age, intuit, sent, drawn, faults>>

NoRetry(c) ==
    /\ pc[c] = "retry"
    /\ answer' = [answer EXCEPT ![c] = IF @ = "throttled" THEN "rejected" ELSE @]
    /\ Goto(c, IF answer[c] = "transport" THEN "outcome" ELSE "body")
    /\ UNCHANGED <<req, env, replay, attempt, copy, owner, ledger, age, intuit, sent, drawn,
                   faults>>

ReadBody(c) ==
    /\ pc[c] = "body"
    /\ \E a \in {answer[c], "bodyError"} : answer' = [answer EXCEPT ![c] = a]
    /\ Goto(c, "outcome")
    /\ UNCHANGED <<req, env, replay, attempt, copy, owner, ledger, age, intuit, sent, drawn,
                   faults>>

\* Mutant of RecordWriteOutcome: any answer counts as a success.
RecordAnsweredAsOk(c) ==
    /\ pc[c] = "outcome"
    /\ Append(req[c], IF answer[c] = "ambiguous" THEN "ok" ELSE answer[c], env[c])
    /\ Finish(c, "idle")
    /\ UNCHANGED <<age, memory, applied, sent, drawn, faults>>

RecordWriteOutcome(c) ==
    /\ pc[c] = "outcome"
    /\ Append(req[c], answer[c], env[c])
    /\ Finish(c, "idle")
    /\ UNCHANGED <<age, memory, applied, sent, drawn, faults>>

\* The outcome cannot be made durable.
OutcomeFails(c) ==
    /\ pc[c] = "outcome"
    /\ faults < MaxFaults
    /\ faults' = faults + 1
    /\ FailedAppend(req[c], answer[c], env[c])
    /\ Finish(c, "idle")
    /\ UNCHANGED <<age, memory, applied, sent, drawn>>

\* The process dies, maybe in the middle of an append.
Crash(c) ==
    /\ pc[c] # "dead"
    /\ faults < MaxFaults
    /\ faults' = faults + 1
    /\ CASE pc[c] = "intent"  -> FailedAppend(req[c], "intent", env[c])
         [] pc[c] = "outcome" -> FailedAppend(req[c], answer[c], env[c])
         [] OTHER             -> UNCHANGED ledger
    /\ Finish(c, "dead")
    /\ UNCHANGED <<age, memory, applied, sent, drawn>>
\* All ids share one ledger file: the append of another write is torn.
TornElsewhere ==
    /\ ~corrupt
    /\ faults < MaxFaults
    /\ faults' = faults + 1
    /\ corrupt' = TRUE
    /\ UNCHANGED <<calls, owner, firstEnv, latest, age, intuit, sent, drawn>>
-----------------------------------------------------------------------------
(* Intuit and the clock                                                    *)

\* An id that is remembered is answered with the original result.
ApplyOnce(r) ==
    /\ applied' = [applied EXCEPT ![r] = IF memory[r] THEN @ ELSE @ + 1]
    /\ memory' = [memory EXCEPT ![r] = TRUE]

Traveling(r) == stray[r] > 0 \/ \E c \in Caller : req[c] = r /\ copy[c] = "traveling"

ServerApplies(c) ==
    /\ copy[c] = "traveling"
    /\ ApplyOnce(req[c])
    /\ copy' = [copy EXCEPT ![c] = "ok"]
    /\ UNCHANGED <<pc, req, env, replay, attempt, answer, owner, ledger, age, stray, sent, drawn,
                   faults>>

\* Refused before the id is looked up (expired access token, throttling), or
\* refused for its content, or lost on the way.
ServerRefuses(c) ==
    /\ copy[c] = "traveling"
    /\ \E x \in {"rejected", "throttled", "lost"} : copy' = [copy EXCEPT ![c] = x]
    /\ UNCHANGED <<pc, req, env, replay, attempt, answer, owner, ledger, age, intuit, sent, drawn,
                   faults>>

StrayArrives(r) ==
    /\ stray[r] > 0
    /\ stray' = [stray EXCEPT ![r] = @ - 1]
    /\ ApplyOnce(r) \/ UNCHANGED <<memory, applied>>
    /\ UNCHANGED <<calls, owner, ledger, age, sent, drawn, faults>>

ReplayWindowEnds(r) ==
    /\ firstEnv[r] # None
    /\ age[r] = "young"
    /\ age' = [age EXCEPT ![r] = "late"]
    /\ UNCHANGED <<calls, owner, ledger, intuit, sent, drawn, faults>>

\* Intuit's retention is unknown beyond the measured window; what was sent
\* within the window still finds the id remembered.
Forget(r) ==
    /\ age[r] = "late"
    /\ memory[r]
    /\ ~Traveling(r)
    /\ memory' = [memory EXCEPT ![r] = FALSE]
    /\ UNCHANGED <<calls, owner, ledger, age, stray, applied, sent, drawn, faults>>
-----------------------------------------------------------------------------
Next ==
    \/ \E c \in Caller :
          \/ Begin(c) \/ BeginReplay(c) \/ Own(c) \/ GiveUpWaiting(c)
          \/ VerifyWriteReplay(c) \/ RefuseReplay(c)
          \/ RecordWriteIntent(c) \/ IntentFails(c)
          \/ Send(c) \/ DeadlineElapsed(c) \/ Receive(c) \/ Retry(c) \/ NoRetry(c)
          \/ ReadBody(c) \/ RecordWriteOutcome(c) \/ OutcomeFails(c) \/ Crash(c)
          \/ ServerApplies(c) \/ ServerRefuses(c)
    \/ \E r \in Req : StrayArrives(r) \/ ReplayWindowEnds(r) \/ Forget(r)
    \/ TornElsewhere

Spec == Init /\ [][Next]_vars
-----------------------------------------------------------------------------
\* However often a write is retried, replayed by any caller, timed out, crashed
\* over or answered late, QuickBooks applies its id at most once.
AtMostOnce == \A r \in Req : applied[r] <= 1

\* Nothing is sent under an id but the envelope of its first durable intent: a
\* different one would be answered with the old result and silently discarded.
BoundEnvelope == \A r \in Req : sent[r] \subseteq {firstEnv[r]}

\* After a definitive outcome is durable no call sends that id again, not even
\* one that waited for the id while the outcome was on its way.
ResolvedNotResent ==
    [][\A c \in Caller :
          pc[c] = "send" /\ pc'[c] = "await" => Ambiguous(req[c])]_vars

\* The ledger says that QuickBooks accepted a write only when it did.
OkMeansApplied == \A r \in Req : latest[r] = "ok" => applied[r] > 0

\* A write whose latest record is a rejection was not applied.  audit.js:432-433
\* say so of listUnresolvedWrites, which drops such a write from the queue: "A later
\* successful replay (or another clean 4xx rejection) resolves it", and
\* qbo.js:2158-2159: "Other 4xx responses are clean rejections."
RejectedMeansNotApplied == \A r \in Req : latest[r] = "rejected" => applied[r] = 0
=============================================================================
