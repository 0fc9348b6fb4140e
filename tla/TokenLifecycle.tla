---------------------------- MODULE TokenLifecycle ----------------------------
(***************************************************************************)
(* The credential of one company: how src/src/qbo.js uses, refreshes,      *)
(* replaces and imports it.  Intuit may replace the refresh token in every *)
(* answer, and a refresh whose answer was lost must never be repeated, so  *)
(* each refresh is written down before it is sent: in the recovery journal *)
(* when the canonical credential is refreshed, in the stage when an        *)
(* operator imports one from the OAuth Playground.                         *)
(*                                                                         *)
(* Abstractions.                                                           *)
(*   - A bundle is [at, rt, mark]: the serial number of its access token   *)
(*     (0 when it has none), its refresh token, named by the number it was *)
(*     issued under, and whether refresh_outcome_unknown_at is set.        *)
(*   - One slug with one realm: the identity checks and the realm lock can *)
(*     only make a call throw, and Abort throws anywhere.                  *)
(*   - The refresh lock is the lock of OwnerLock seen through              *)
(*     ExclusiveLock: one holder, free after its end or its death.  What a *)
(*     holder reads and writes without asking Intuit in between is a step. *)
(*   - A failed file operation either happened or not, and then the call   *)
(*     throws, so it is Abort before or after the step.                    *)
(*   - A call that carries a newly minted credential is over before that   *)
(*     credential's access token expires (an hour against timeouts of      *)
(*     minutes).  A call that refreshes may wait for any time.             *)
(*   - Disconnecting is not modelled: its journal never exists here.       *)
(***************************************************************************)
EXTENDS Naturals

CONSTANTS
    Proc,                  \* the processes (within one, refreshInFlight shares a refresh)
    None,                  \* no bundle, no journal, nobody
    PromotionInterrupted,  \* whether an import may stop between saving its credential
                           \* as the canonical one and removing its stage
    MaxIssued              \* bound on the credentials Intuit issues

ASSUME TokenAssumption ==
    /\ PromotionInterrupted \in BOOLEAN
    /\ MaxIssued \in Nat \ {0}

Bundle == [at : 0..MaxIssued, rt : 1..MaxIssued, mark : BOOLEAN]
Journal == [state : {"prepared", "ambiguous", "successor", "confirmed_rejected"},
            token_bundle : Bundle, predecessor : Bundle]

ASSUME NoneAssumption == None \notin Proc \cup Bundle \cup Journal

VARIABLES
    canon,         \* the token file of the slug
    journal,       \* its refresh recovery journal
    stage,         \* its staged token file
    lock,          \* the holder of its refresh lock
    op,            \* what each process is doing
    pc,            \* and its next step
    cur,           \* the credential it has in hand
    before,        \* the canonical credential it read earlier
    issued,        \* the serial number Intuit issued last
    expired,       \* access tokens up to this number have expired
    spent          \* refresh tokens that must not be sent again: sent without a definite
                   \* answer, or replaced

files == <<canon, journal, stage>>
vars  == <<canon, journal, stage, lock, op, pc, cur, before, issued, expired, spent>>

Ops      == {"use", "authorize", "import", "resume"}
Opening  == {"open", "openTidy", "served"}
Sending  == {"post", "await", "doubt", "mark", "reject", "rejectTidy"}
Settling == {"record", "install", "confirm"}
Saving   == {"validate", "save", "verify", "clear", "unstage"}
Waiting  == {"openLock", "lock", "saveLock", "stageLock"}
Holding  == Opening \cup Sending \cup Settling \cup Saving
              \cup {"recover", "recoverTidy", "choose", "prepare", "stage"}

\* The type invariant: the three files hold bundles of their shapes, and only a process
\* inside withRefreshLock is the holder of the lock.
TypeOK ==
    /\ canon \in Bundle \cup {None}
    /\ journal \in Journal \cup {None}
    /\ stage \in Bundle \cup {None}
    /\ op \in [Proc -> Ops]
    /\ pc \in [Proc -> {"idle", "peek", "load"} \cup Waiting \cup Holding]
    /\ cur \in [Proc -> Bundle \cup {None}]
    /\ before \in [Proc -> Bundle \cup {None}]
    /\ issued \in 1..MaxIssued
    /\ expired \in 0..issued
    /\ spent \in SUBSET (1..MaxIssued)
    /\ lock \in Proc \cup {None}
    /\ \A p \in Proc : pc[p] \in Holding <=> lock = p

Minted(n) == [at |-> n, rt |-> n, mark |-> FALSE]
Quarantined(b) == [b EXCEPT !.mark = TRUE]
Fresh(b) == b.at > expired

\* tokenMaterialChanged
Changed(a, b) == a = None \/ b = None \/ a.at # b.at \/ a.rt # b.rt

Init ==
    /\ canon \in {None, Minted(1)}
    /\ journal = None
    /\ stage = None
    /\ lock = None
    /\ op = [p \in Proc |-> "use"]
    /\ pc = [p \in Proc |-> "idle"]
    /\ cur = [p \in Proc |-> None]
    /\ before = [p \in Proc |-> None]
    /\ issued = 1
    /\ expired \in {0, 1}
    /\ spent = {}
-----------------------------------------------------------------------------
Goto(p, s) == pc' = [pc EXCEPT ![p] = s]

\* Mutant of Return: the lock is not released.
ReturnLocked(p) ==
    /\ Goto(p, "idle")
    /\ lock' = lock
    /\ op' = [op EXCEPT ![p] = "use"]
    /\ cur' = [cur EXCEPT ![p] = None]
    /\ before' = [before EXCEPT ![p] = None]

\* The call returns or throws: the lock is released and its locals go.
Return(p) ==
    /\ Goto(p, "idle")
    /\ lock' = IF lock = p THEN None ELSE lock
    /\ op' = [op EXCEPT ![p] = "use"]
    /\ cur' = [cur EXCEPT ![p] = None]
    /\ before' = [before EXCEPT ![p] = None]

\* The call throws (a failed check, a file that cannot be read or written) or its
\* process dies; a dead holder's lock is reclaimed.
Promoting(p) == op[p] \in {"import", "resume"} /\ pc[p] \in {"verify", "clear", "unstage"}

\* Mutant of Abort: a failing call cleans the journal up.
AbortAndTidy(p) ==
    /\ pc[p] # "idle"
    /\ PromotionInterrupted \/ ~Promoting(p)
    /\ Return(p)
    /\ journal' = IF lock = p THEN None ELSE journal
    /\ UNCHANGED <<canon, stage, issued, expired, spent>>

Abort(p) ==
    /\ pc[p] # "idle"
    /\ PromotionInterrupted \/ ~Promoting(p)
    /\ Return(p)
    /\ UNCHANGED <<files, issued, expired, spent>>

\* withRefreshLock
Inside(s) == CASE s = "openLock"  -> "open"
               [] s = "lock"      -> "recover"
               [] s = "saveLock"  -> "save"
               [] s = "stageLock" -> "stage"

Lock(p) ==
    /\ pc[p] \in Waiting
    /\ lock = None
    /\ lock' = p
    /\ Goto(p, Inside(pc[p]))
    /\ UNCHANGED <<files, op, cur, before, issued, expired, spent>>
-----------------------------------------------------------------------------
\* getValidTokens: the journal is looked at first.
Use(p) ==
    /\ pc[p] = "idle"
    /\ Goto(p, "peek")
    /\ UNCHANGED <<files, lock, op, cur, before, issued, expired, spent>>

Peek(p) ==
    /\ pc[p] = "peek"
    /\ Goto(p, IF journal # None THEN "openLock" ELSE "load")
    /\ UNCHANGED <<files, lock, op, cur, before, issued, expired, spent>>

\* The canonical credential is refreshed when its access token has expired; otherwise
\* the call ends: served, quarantined or not connected.
NeedsRefresh == canon # None /\ ~canon.mark /\ ~Fresh(canon)

Load(p) ==
    /\ pc[p] \in {"load", "served"}
    /\ \/ /\ NeedsRefresh
          /\ Goto(p, "lock")
          /\ lock' = IF lock = p THEN None ELSE lock
          /\ cur' = [cur EXCEPT ![p] = canon]
          /\ UNCHANGED <<op, before>>
       \/ /\ ~NeedsRefresh
          /\ Return(p)
    /\ UNCHANGED <<files, issued, expired, spent>>

\* recoverNormalRefreshLocked, for getValidTokens ("open") and for refreshTokensLocked
\* ("recover"): what an earlier refresh left in the journal is settled first.
NextStep(s) == IF s \in {"open", "openTidy"} THEN "served" ELSE "choose"
TidyStep(s) == IF s = "open" THEN "openTidy" ELSE "recoverTidy"

\* There is nothing to recover, the attempt was rejected, or a separate authorization has
\* replaced the credential whose refresh is in doubt.
Reauthorized(j) == canon # None /\ Changed(canon, j.token_bundle) /\ Fresh(canon)

\* Mutant of Settled: a prepared attempt is taken for one that was never sent.
SettledWhenPrepared ==
    \/ journal = None
    \/ journal # None /\ journal.state \in {"prepared", "confirmed_rejected"}
    \/ /\ journal # None
       /\ journal.state = "ambiguous"
       /\ Reauthorized(journal)

Settled ==
    \/ journal = None
    \/ journal # None /\ journal.state = "confirmed_rejected"
    \/ /\ journal # None
       /\ journal.state \in {"prepared", "ambiguous"}
       /\ Reauthorized(journal)

RecoverSettled(p) ==
    /\ pc[p] \in {"open", "recover"}
    /\ Settled
    /\ journal' = None
    /\ Goto(p, NextStep(pc[p]))
    /\ UNCHANGED <<canon, stage, lock, op, cur, before, issued, expired, spent>>

\* Mutant of Superseded: the token file is always overwritten.
NeverSuperseded == FALSE

\* A successor goes to the token file, unless the credential there is neither the
\* successor nor the one it replaces.
Superseded == canon # None /\ Changed(canon, journal.predecessor)

\* Mutant of Promote: the journal is removed without the promotion.
PromoteNothing(p) ==
    /\ pc[p] \in {"open", "recover"}
    /\ journal # None
    /\ journal.state = "successor"
    /\ canon = journal.token_bundle \/ ~Superseded
    /\ Goto(p, TidyStep(pc[p]))
    /\ UNCHANGED <<files, lock, op, cur, before, issued, expired, spent>>

Promote(p) ==
    /\ pc[p] \in {"open", "recover"}
    /\ journal # None
    /\ journal.state = "successor"
    /\ canon = journal.token_bundle \/ ~Superseded
    /\ canon' = journal.token_bundle
    /\ Goto(p, TidyStep(pc[p]))
    /\ UNCHANGED <<journal, stage, lock, op, cur, before, issued, expired, spent>>

Tidy(p) ==
    /\ pc[p] \in {"openTidy", "recoverTidy"}
    /\ journal' = None
    /\ Goto(p, NextStep(pc[p]))
    /\ UNCHANGED <<canon, stage, lock, op, cur, before, issued, expired, spent>>

\* Otherwise the call fails closed: Abort is its only step.
-----------------------------------------------------------------------------
\* refreshTokensLocked, chooseRefreshSource: an import sends the credential it was
\* given; otherwise what is on disk comes first, and may need no refresh by now.
Forced(p) == op[p] \in {"import", "resume"}
ServedByDisk(p) == ~Forced(p) /\ canon # None /\ canon.at # cur[p].at /\ Fresh(canon)
Source(p) == IF ~Forced(p) /\ canon # None THEN canon ELSE cur[p]

Choose(p) ==
    /\ pc[p] = "choose"
    /\ \/ /\ ServedByDisk(p) \/ Source(p).mark
          /\ Return(p)
       \/ /\ ~ServedByDisk(p) /\ ~Source(p).mark
          /\ cur' = [cur EXCEPT ![p] = Source(p)]
          /\ before' = [before EXCEPT ![p] = canon]
          /\ Goto(p, "prepare")
          /\ UNCHANGED <<lock, op>>
    /\ UNCHANGED <<files, issued, expired, spent>>

Entry(state, b, pred) == [state |-> state, token_bundle |-> b, predecessor |-> pred]

\* prepareRefreshAttempt
PrepareRefreshAttempt(p) ==
    /\ pc[p] = "prepare"
    /\ IF Forced(p)
       THEN stage' = Quarantined(cur[p]) /\ UNCHANGED journal
       ELSE journal' = Entry("prepared", cur[p], cur[p]) /\ UNCHANGED stage
    /\ Goto(p, "post")
    /\ UNCHANGED <<canon, lock, op, cur, before, issued, expired, spent>>

Post(p) ==
    /\ pc[p] = "post"
    /\ spent' = spent \cup {cur[p].rt}
    /\ Goto(p, "await")
    /\ UNCHANGED <<files, lock, op, cur, before, issued, expired>>

\* Intuit's answer: a new credential, whose refresh token may be the same; a definite
\* refusal (HTTP 4xx except 408; 429 included); or a lost, incomplete or 5xx answer.
Granted(p) ==
    /\ pc[p] = "await"
    /\ issued < MaxIssued
    /\ issued' = issued + 1
    /\ \E rt \in {cur[p].rt, issued + 1} :
          /\ cur' = [cur EXCEPT ![p] = [at |-> issued + 1, rt |-> rt, mark |-> FALSE]]
          /\ spent' = spent \ {rt}
    /\ Goto(p, "record")
    /\ UNCHANGED <<files, lock, op, before, expired>>

Rejected(p) ==
    /\ pc[p] = "await"
    /\ spent' = spent \ {cur[p].rt}
    /\ Goto(p, "reject")
    /\ UNCHANGED <<files, lock, op, cur, before, issued, expired>>

Lost(p) ==
    /\ pc[p] = "await"
    /\ Goto(p, "doubt")
    /\ UNCHANGED <<files, lock, op, cur, before, issued, expired, spent>>

\* clearRefreshAttemptAfterDefiniteFailure
Reject(p) ==
    /\ pc[p] = "reject"
    /\ \/ /\ Forced(p)
          /\ stage' = None
          /\ Return(p)
          /\ UNCHANGED journal
       \/ /\ ~Forced(p)
          /\ journal' = Entry("confirmed_rejected", journal.token_bundle, journal.predecessor)
          /\ Goto(p, "rejectTidy")
          /\ UNCHANGED <<stage, lock, op, cur, before>>
    /\ UNCHANGED <<canon, issued, expired, spent>>

RejectTidy(p) ==
    /\ pc[p] = "rejectTidy"
    /\ journal' = None
    /\ Return(p)
    /\ UNCHANGED <<canon, stage, issued, expired, spent>>

\* Mutant of Adoptable: whatever is on disk is quarantined.
NeverAdoptable(p) == FALSE

\* failAmbiguousRefresh: a credential that somebody else stored meanwhile is adopted;
\* otherwise the attempt is quarantined, in the journal (which may fail) and in the
\* token file, or in the stage.
Adoptable(p) == canon # None /\ Changed(canon, before[p]) /\ Fresh(canon)

FailAmbiguousRefresh(p) ==
    /\ pc[p] = "doubt"
    /\ \/ /\ Forced(p)
          /\ stage' = Quarantined(cur[p])
          /\ Return(p)
          /\ UNCHANGED journal
       \/ /\ ~Forced(p) /\ Adoptable(p)
          /\ journal' = None
          /\ Return(p)
          /\ UNCHANGED stage
       \/ /\ ~Forced(p) /\ ~Adoptable(p)
          /\ journal' \in {journal, Entry("ambiguous", journal.token_bundle, journal.predecessor)}
          /\ before' = [before EXCEPT ![p] = canon]
          /\ Goto(p, "mark")
          /\ UNCHANGED <<stage, lock, op, cur>>
    /\ UNCHANGED <<canon, issued, expired, spent>>

Mark(p) ==
    /\ pc[p] = "mark"
    /\ canon' = IF before[p] = None THEN canon ELSE Quarantined(before[p])
    /\ Return(p)
    /\ UNCHANGED <<journal, stage, issued, expired, spent>>

\* persistSuccessfulRefresh: the successor is durable in the journal before it goes to
\* the token file, and the journal is removed after; an import stages it.
Record(p) ==
    /\ pc[p] = "record"
    /\ IF Forced(p)
       THEN stage' = cur[p] /\ Goto(p, "validate") /\ UNCHANGED journal
       ELSE /\ journal' = Entry("successor", cur[p], journal.token_bundle)
            /\ Goto(p, "install")
            /\ UNCHANGED stage
    /\ UNCHANGED <<canon, lock, op, cur, before, issued, expired, spent>>

Install(p) ==
    /\ pc[p] = "install"
    /\ canon' = cur[p]
    /\ Goto(p, "confirm")
    /\ UNCHANGED <<journal, stage, lock, op, cur, before, issued, expired, spent>>

Confirm(p) ==
    /\ pc[p] = "confirm"
    /\ journal' = IF canon = cur[p] THEN None ELSE journal
    /\ Return(p)
    /\ UNCHANGED <<canon, stage, issued, expired, spent>>
-----------------------------------------------------------------------------
\* The operator authorizes the company in the browser (the credential is in hand before
\* the lock is taken), imports a refresh token from the Playground, or resumes such an
\* import.
Authorize(p) ==
    /\ pc[p] = "idle"
    /\ issued < MaxIssued
    /\ issued' = issued + 1
    /\ op' = [op EXCEPT ![p] = "authorize"]
    /\ cur' = [cur EXCEPT ![p] = Minted(issued + 1)]
    /\ Goto(p, "saveLock")
    /\ UNCHANGED <<files, lock, before, expired, spent>>

Import(p) ==
    /\ pc[p] = "idle"
    /\ issued < MaxIssued
    /\ issued' = issued + 1
    /\ op' = [op EXCEPT ![p] = "import"]
    /\ cur' = [cur EXCEPT ![p] = [at |-> 0, rt |-> issued + 1, mark |-> FALSE]]
    /\ Goto(p, "stageLock")
    /\ UNCHANGED <<files, lock, before, expired, spent>>

Resume(p) ==
    /\ pc[p] = "idle"
    /\ op' = [op EXCEPT ![p] = "resume"]
    /\ Goto(p, "stageLock")
    /\ UNCHANGED <<files, lock, cur, before, issued, expired, spent>>

\* importRefreshToken
ImportRefreshToken(p) ==
    /\ pc[p] = "stage" /\ op[p] = "import"
    /\ \/ /\ stage # None
          /\ Return(p)
       \/ /\ stage = None
          /\ Goto(p, "choose")
          /\ UNCHANGED <<lock, op, cur, before>>
    /\ UNCHANGED <<files, issued, expired, spent>>

\* recoverStagedTokenImport
RecoverStagedTokenImport(p) ==
    /\ pc[p] = "stage" /\ op[p] = "resume"
    /\ \/ /\ stage = None \/ (stage # None /\ stage.mark)
          /\ Return(p)
       \/ /\ stage # None /\ ~stage.mark
          /\ cur' = [cur EXCEPT ![p] = stage]
          /\ Goto(p, IF Fresh(stage) THEN "validate" ELSE "choose")
          /\ UNCHANGED <<lock, op, before>>
    /\ UNCHANGED <<files, issued, expired, spent>>

\* validateAndPromoteStagedTokens: CompanyInfo answers for the staged credential.
Validate(p) ==
    /\ pc[p] = "validate"
    /\ Goto(p, "save")
    /\ UNCHANGED <<files, lock, op, cur, before, issued, expired, spent>>

\* persistAuthorizationLocked: save, verify or roll back, clear the journal.
Save(p) ==
    /\ pc[p] = "save"
    /\ before' = [before EXCEPT ![p] = canon]
    /\ canon' = cur[p]
    /\ Goto(p, "verify")
    /\ UNCHANGED <<journal, stage, lock, op, cur, issued, expired, spent>>

Verify(p) ==
    /\ pc[p] = "verify"
    /\ canon = cur[p]
    /\ Goto(p, "clear")
    /\ UNCHANGED <<files, lock, op, cur, before, issued, expired, spent>>

\* rollbackAuthorizationSave
RollBack(p) ==
    /\ pc[p] = "verify"
    /\ canon' = IF canon = cur[p] THEN before[p] ELSE canon
    /\ Return(p)
    /\ UNCHANGED <<journal, stage, issued, expired, spent>>

Clear(p) ==
    /\ pc[p] = "clear"
    /\ journal' = None
    /\ \/ /\ Forced(p)
          /\ Goto(p, "unstage")
          /\ UNCHANGED <<lock, op, cur, before>>
       \/ /\ ~Forced(p)
          /\ Return(p)
    /\ UNCHANGED <<canon, stage, issued, expired, spent>>

Unstage(p) ==
    /\ pc[p] = "unstage"
    /\ stage' = None
    /\ Return(p)
    /\ UNCHANGED <<canon, journal, issued, expired, spent>>
-----------------------------------------------------------------------------
\* A writer outside this module completes an authorization (the case
\* failAmbiguousRefresh and rollbackAuthorizationSave look for).
OutsideAuthorization ==
    /\ issued < MaxIssued
    /\ issued' = issued + 1
    /\ canon' = Minted(issued + 1)
    /\ UNCHANGED <<journal, stage, lock, op, pc, cur, before, expired, spent>>

\* Time passes, but never an hour while a call carries a newly minted credential.
Expire ==
    /\ \E n \in (expired + 1)..issued :
          /\ \A p \in Proc : (cur[p] # None /\ (op[p] # "use" \/ pc[p] \in Settling))
                                => cur[p].at \notin (expired + 1)..n
          /\ expired' = n
    /\ UNCHANGED <<files, lock, op, pc, cur, before, issued, spent>>

Step(p) ==
    \/ Abort(p) \/ Lock(p)
    \/ Use(p) \/ Peek(p) \/ Load(p)
    \/ RecoverSettled(p) \/ Promote(p) \/ Tidy(p)
    \/ Choose(p) \/ PrepareRefreshAttempt(p) \/ Post(p)
    \/ Granted(p) \/ Rejected(p) \/ Lost(p)
    \/ Reject(p) \/ RejectTidy(p) \/ FailAmbiguousRefresh(p) \/ Mark(p)
    \/ Record(p) \/ Install(p) \/ Confirm(p)
    \/ Authorize(p) \/ Import(p) \/ Resume(p)
    \/ ImportRefreshToken(p) \/ RecoverStagedTokenImport(p)
    \/ Validate(p) \/ Save(p) \/ Verify(p) \/ RollBack(p) \/ Clear(p) \/ Unstage(p)

Next == (\E p \in Proc : Step(p)) \/ OutsideAuthorization \/ Expire

Spec == Init /\ [][Next]_vars
-----------------------------------------------------------------------------
\* A refresh token whose last refresh had no definite answer, or that was replaced, is
\* never sent again, by whichever process and after whichever crash
\* (refreshTokensLocked, recoverNormalRefreshLocked, failAmbiguousRefresh).
NoReplay == \A p \in Proc : pc[p] = "post" => cur[p].rt \notin spent

\* While the canonical refresh token may have been consumed, its token file is marked or
\* a journal that blocks or replaces it exists (prepareRefreshAttempt,
\* persistSuccessfulRefresh, clearRefreshAttemptAfterDefiniteFailure).
SpentIsGuarded ==
    canon # None /\ canon.rt \in spent =>
        canon.mark \/ (journal # None /\ journal.state # "confirmed_rejected")

\* A quarantined token file never holds a live access token: chooseRefreshSource hands
\* out a fresh one on disk without looking at the mark.
QuarantinedIsExpired == canon # None /\ canon.mark => ~Fresh(canon)

\* A durable successor leaves the journal only when the token file no longer holds the
\* credential it replaces (persistSuccessfulRefresh, recoverNormalRefreshLocked).
SuccessorKept ==
    [][journal # None /\ journal.state = "successor" /\ journal' # journal
         => Changed(canon', journal.predecessor) /\ canon' # None]_vars

\* Recovery never puts an older credential in place of a newer one
\* (recoverNormalRefreshLocked).
RecoveryMovesForward ==
    [][\A p \in Proc : pc[p] \in {"open", "recover"} /\ pc'[p] # pc[p] /\ canon' # canon
         => canon = None \/ canon'.at > canon.at]_vars
=============================================================================
