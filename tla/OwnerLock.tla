------------------------------ MODULE OwnerLock ------------------------------
(***************************************************************************)
(* The owner-marker directory lock of src/src/owner-lock.js, one action    *)
(* per filesystem call.                                                    *)
(*                                                                         *)
(* The lock is the directory at lockPath.  A process that created it with  *)
(* mkdir publishes a uniquely named marker inside it; the marker, not the  *)
(* directory, is the ownership.  Processes may stop for any time between   *)
(* two calls, crash, or get an I/O error; a directory left empty for long  *)
(* enough is claimed and moved away, and a marker whose process is dead is *)
(* removed.                                                                *)
(*                                                                         *)
(* Abstractions.                                                           *)
(*   - A marker is <<process, serial>>: its UUID and the pid written in    *)
(*     it.  A new UUID is any pair that occurs nowhere in the state.  A    *)
(*     claim marker (.reclaim-..) and an owner marker are treated alike by  *)
(*     the code and so are here.                                           *)
(*   - A directory is its inode.  mkdir may take any free one, also one an *)
(*     other process remembers from an earlier lstat: inodes are reused.   *)
(*   - Age is a free choice: a process may stop for longer than            *)
(*     staleAfterMs before it looks.                                       *)
(*   - A directory left behind in a quarantine container is never touched  *)
(*     again, so it is forgotten, and its inode counts as free.            *)
(***************************************************************************)
EXTENDS Naturals, FiniteSets

CONSTANTS
    Proc,          \* the processes
    Serial,        \* tells the markers of one process apart
    Dir,           \* inodes
    NoDir,         \* nothing at lockPath, or no directory remembered
    NoToken,       \* no marker
    Remote,        \* the processes that run on another host
    PidReused,     \* processes whose pid another program has after their death
    Windows,       \* whether process.platform is "win32"
    FaultySteps,   \* the steps at which a filesystem call may fail
    MaxFaults      \* bound on crashes and failed filesystem calls

ASSUME ConstantsAssumption ==
    /\ NoDir \notin Dir
    /\ NoToken \notin Proc \X Serial
    /\ Remote \subseteq Proc
    /\ PidReused \subseteq Proc
    /\ Windows \in BOOLEAN
    /\ MaxFaults \in Nat

Token == Proc \X Serial
PidOf(t) == t[1]

VARIABLES
    lock,          \* the directory at lockPath, or NoDir
    contents,      \* the markers in each directory
    pc,            \* the next filesystem call of each process
    tok,           \* the owner marker of a process's call
    claim,         \* the marker of its attempt to reclaim an empty directory
    seen,          \* the directory it remembers from lstat
    obs,           \* the marker it found in the lock directory
    moved,         \* the directory it moved to its quarantine container
    faults         \* how many crashes and failed calls there were

fs   == <<lock, contents>>
mem  == <<tok, claim, seen, obs, moved>>
vars == <<lock, contents, pc, tok, claim, seen, obs, moved, faults>>

AcquireSteps == {"mkdir", "stat", "publish", "verify", "confirm", "abandon", "preserve"}
ReleaseSteps == {"release", "rmdir"}
InspectSteps == {"look", "list", "read", "wait"}
ReclaimSteps == {"reclaim", "reclaimRmdir", "judge", "claim", "claimStat", "claimList",
                 "drop", "dropThrow", "isolate", "undo", "undoRmdir"}
QuarantineSteps == {"quarUnlink", "quarRmdir"}
Steps == {"idle", "held", "down"} \cup AcquireSteps \cup ReleaseSteps \cup InspectSteps
            \cup ReclaimSteps \cup QuarantineSteps

\* The type invariant: the marker names, inodes and program counter of every call
\* of withOwnerDirectoryLock are of their kinds, and the fault budget is kept.
TypeOK ==
    /\ lock \in Dir \cup {NoDir}
    /\ contents \in [Dir -> SUBSET Token]
    /\ pc \in [Proc -> Steps]
    /\ tok \in [Proc -> Token \cup {NoToken}]
    /\ claim \in [Proc -> Token \cup {NoToken}]
    /\ seen \in [Proc -> Dir \cup {NoDir}]
    /\ obs \in [Proc -> Token \cup {NoToken}]
    /\ moved \in [Proc -> Dir \cup {NoDir}]
    /\ faults \in 0..MaxFaults

Init ==
    /\ lock = NoDir
    /\ contents = [d \in Dir |-> {}]
    /\ pc = [p \in Proc |-> "idle"]
    /\ tok = [p \in Proc |-> NoToken]
    /\ claim = [p \in Proc |-> NoToken]
    /\ seen = [p \in Proc |-> NoDir]
    /\ obs = [p \in Proc |-> NoToken]
    /\ moved = [p \in Proc |-> NoDir]
    /\ faults = 0
-----------------------------------------------------------------------------
Down == {p \in Proc : pc[p] = "down"}

\* The directories that sit in a quarantine container of a running cleanup.
Isolated == {moved[p] : p \in {q \in Proc : pc[q] \in QuarantineSteps}}

\* The marker t is in the directory now at lockPath.
AtLock(t) == lock # NoDir /\ t \in contents[lock]

\* randomUUID(): a marker name that occurs nowhere.
Fresh(p) ==
    {t \in Token : /\ PidOf(t) = p
                   /\ \A d \in Dir : t \notin contents[d]
                   /\ \A q \in Proc : t \notin {tok[q], claim[q], obs[q]}}

\* rename(temporary file, lockPath/marker): it lands in the directory that is
\* at lockPath now, whoever created it.
PutMarker(t) ==
    /\ contents' = [contents EXCEPT ![lock] = @ \cup {t}]
    /\ UNCHANGED lock

\* unlink(lockPath/marker); nothing happens when the name is not there.
Unlink(t) ==
    /\ contents' = IF AtLock(t) THEN [contents EXCEPT ![lock] = @ \ {t}] ELSE contents
    /\ UNCHANGED lock

\* rmdir(lockPath): fails with ENOENT or ENOTEMPTY and then changes nothing.
Rmdir ==
    /\ lock' = IF lock # NoDir /\ contents[lock] = {} THEN NoDir ELSE lock
    /\ UNCHANGED contents

\* The directory in p's quarantine container is removed, or never looked at
\* again.
ForgetQuarantine(p) ==
    /\ contents' = [d \in Dir |-> IF pc[p] \in QuarantineSteps /\ d = moved[p]
                                  THEN {} ELSE contents[d]]
    /\ UNCHANGED lock

\* Continue in the same scope ...
Step(p, s) == pc' = [pc EXCEPT ![p] = s] /\ UNCHANGED mem

\* ... or leave it, and with it what was observed there; the owner marker's
\* name lives as long as the call.
Leave(p, s) ==
    /\ pc' = [pc EXCEPT ![p] = s]
    /\ tok' = IF s \in {"idle", "down"} THEN [tok EXCEPT ![p] = NoToken] ELSE tok
    /\ claim' = [claim EXCEPT ![p] = NoToken]
    /\ seen' = [seen EXCEPT ![p] = NoDir]
    /\ obs' = [obs EXCEPT ![p] = NoToken]
    /\ moved' = [moved EXCEPT ![p] = NoDir]
-----------------------------------------------------------------------------
(* tryAcquire                                                              *)

\* Mutant of Call: no UUID is drawn for the owner marker.
CallWithoutToken(p) ==
    /\ pc[p] = "idle"
    /\ Step(p, "mkdir")
    /\ UNCHANGED <<fs, faults>>

Call(p) ==
    /\ pc[p] = "idle"
    /\ \E t \in Fresh(p) : tok' = [tok EXCEPT ![p] = t]
    /\ pc' = [pc EXCEPT ![p] = "mkdir"]
    /\ UNCHANGED <<fs, claim, seen, obs, moved, faults>>

Mkdir(p) ==
    /\ pc[p] = "mkdir"
    /\ lock = NoDir
    /\ \E d \in Dir \ Isolated :
          /\ lock' = d
          /\ contents' = [contents EXCEPT ![d] = {}]
    /\ Step(p, "stat")
    /\ UNCHANGED faults

MkdirExists(p) ==
    /\ pc[p] = "mkdir"
    /\ lock # NoDir
    /\ Step(p, "look")
    /\ UNCHANGED <<fs, faults>>

\* createdDirectoryStat; the directory it describes need not be the one that
\* this process created.  Without one the call fails and leaves nothing.
CreatedStat(p) ==
    /\ pc[p] = "stat"
    /\ IF lock = NoDir
       THEN Leave(p, "idle")
       ELSE /\ seen' = [seen EXCEPT ![p] = lock]
            /\ pc' = [pc EXCEPT ![p] = "publish"]
            /\ UNCHANGED <<tok, claim, obs, moved>>
    /\ UNCHANGED <<fs, faults>>

\* writeOwnerMarker: without a directory the rename fails and the call with it.
Publish(p) ==
    /\ pc[p] = "publish"
    /\ IF lock = NoDir
       THEN Leave(p, "idle") /\ UNCHANGED fs
       ELSE Step(p, "verify") /\ PutMarker(tok[p])
    /\ UNCHANGED faults

\* currentDirectoryStat against createdDirectoryStat.
Verify(p) ==
    /\ pc[p] = "verify"
    /\ Step(p, CASE lock = NoDir   -> "abandon"
                 [] lock = seen[p] -> "confirm"
                 [] OTHER          -> "preserve")
    /\ UNCHANGED <<fs, faults>>

\* Mutant of Confirm: the directory is not listed after publication.
ConfirmUnlisted(p) ==
    /\ pc[p] = "confirm"
    /\ IF lock # NoDir THEN Leave(p, "held") ELSE Step(p, "abandon")
    /\ UNCHANGED <<fs, faults>>

\* Mutant of Confirm: other markers beside the own one are tolerated.
ConfirmAmongOthers(p) ==
    /\ pc[p] = "confirm"
    /\ IF AtLock(tok[p]) THEN Leave(p, "held") ELSE Step(p, "abandon")
    /\ UNCHANGED <<fs, faults>>

\* readdir: only a directory that holds exactly the own marker is owned.
Confirm(p) ==
    /\ pc[p] = "confirm"
    /\ IF lock # NoDir /\ contents[lock] = {tok[p]}
       THEN Leave(p, "held")
       ELSE Step(p, "abandon")
    /\ UNCHANGED <<fs, faults>>

\* Mutant of Preserve: the marker stays in the directory that is preserved.
PreserveMarker(p) ==
    /\ pc[p] = "preserve"
    /\ Leave(p, "idle")
    /\ UNCHANGED <<fs, faults>>

\* cleanupFailedAcquisition with preserveDirectory.
Preserve(p) ==
    /\ pc[p] = "preserve"
    /\ Unlink(tok[p])
    /\ Leave(p, "idle")
    /\ UNCHANGED faults
-----------------------------------------------------------------------------
(* release, and cleanupFailedAcquisition with the marker inside            *)

\* fn returned or threw.
EndOperation(p) ==
    /\ pc[p] = "held"
    /\ Step(p, "release")
    /\ UNCHANGED <<fs, faults>>

\* removeMarkerThenDirectory: rmdir only after the unlink succeeded.
RemoveMarker(p) ==
    /\ pc[p] \in {"release", "abandon"}
    /\ Unlink(tok[p])
    /\ Leave(p, IF AtLock(tok[p]) THEN "rmdir" ELSE "idle")
    /\ UNCHANGED faults

RemoveDirectory(p) ==
    /\ pc[p] = "rmdir"
    /\ Rmdir
    /\ Leave(p, "idle")
    /\ UNCHANGED faults
-----------------------------------------------------------------------------
(* inspectLock and the wait loop                                           *)

Look(p) ==
    /\ pc[p] = "look"
    /\ IF lock = NoDir
       THEN Leave(p, "mkdir")
       ELSE /\ seen' = [seen EXCEPT ![p] = lock]
            /\ pc' = [pc EXCEPT ![p] = "list"]
            /\ UNCHANGED <<tok, claim, obs, moved>>
    /\ UNCHANGED <<fs, faults>>

ListMissing(p) ==
    /\ pc[p] = "list"
    /\ lock = NoDir
    /\ Leave(p, "mkdir")
    /\ UNCHANGED <<fs, faults>>

ListEmpty(p) ==
    /\ pc[p] = "list"
    /\ lock # NoDir
    /\ contents[lock] = {}
    /\ Step(p, "judge")
    /\ UNCHANGED <<fs, faults>>

\* One entry: remember it.
ListMarker(p) ==
    /\ pc[p] = "list"
    /\ lock # NoDir
    /\ \E t \in Token :
          /\ contents[lock] = {t}
          /\ obs' = [obs EXCEPT ![p] = t]
    /\ pc' = [pc EXCEPT ![p] = "read"]
    /\ UNCHANGED <<fs, tok, claim, seen, moved, faults>>

\* More than one entry: malformed, the call fails.
ListMalformed(p) ==
    /\ pc[p] = "list"
    /\ lock # NoDir
    /\ contents[lock] # {}
    /\ \A t \in Token : contents[lock] # {t}
    /\ Leave(p, "idle")
    /\ UNCHANGED <<fs, faults>>

SameHost(p, q) == (p \in Remote) = (q \in Remote)

\* Mutant of KnownDead: pids of another host are looked up on this one.
KnownDeadAnyHost(p, q) == ~SameHost(p, q) \/ (q \in Down /\ q \notin PidReused)

\* isProcessAlive says no.
KnownDead(p, q) == SameHost(p, q) /\ q \in Down /\ q \notin PidReused

\* Read the marker.  The owner's liveness is asked for right after: a dead
\* process stays dead.
ReadChanged(p) ==
    /\ pc[p] = "read"
    /\ ~AtLock(obs[p])
    /\ Leave(p, "mkdir")
    /\ UNCHANGED <<fs, faults>>

ReadDead(p) ==
    /\ pc[p] = "read"
    /\ AtLock(obs[p])
    /\ KnownDead(p, PidOf(obs[p]))
    /\ Step(p, "reclaim")
    /\ UNCHANGED <<fs, faults>>

\* Mutant of ReadBusy: a busy lock is tried again at once, past the deadline.
ReadBusySpins(p) ==
    /\ pc[p] = "read"
    /\ AtLock(obs[p])
    /\ ~KnownDead(p, PidOf(obs[p]))
    /\ Leave(p, "mkdir")
    /\ UNCHANGED <<fs, faults>>

ReadBusy(p) ==
    /\ pc[p] = "read"
    /\ AtLock(obs[p])
    /\ ~KnownDead(p, PidOf(obs[p]))
    /\ Leave(p, "wait")
    /\ UNCHANGED <<fs, faults>>

\* An EPERM on Windows is waited out and never authorizes a cleanup.
Transient(p) ==
    /\ Windows
    /\ pc[p] \in {"mkdir", "look", "list", "read"}
    /\ Leave(p, "wait")
    /\ UNCHANGED <<fs, faults>>

Retry(p) ==
    /\ pc[p] = "wait"
    /\ Leave(p, "mkdir")
    /\ UNCHANGED <<fs, faults>>

TimeOut(p) ==
    /\ pc[p] = "wait"
    /\ Leave(p, "idle")
    /\ UNCHANGED <<fs, faults>>
-----------------------------------------------------------------------------
(* reclaimDeadOwner                                                        *)

\* Mutant of ReclaimMarker: the dead owner's directory is emptied recursively.
ReclaimAllMarkers(p) ==
    /\ pc[p] = "reclaim"
    /\ contents' = [d \in Dir |-> IF d = lock THEN {} ELSE contents[d]]
    /\ Step(p, "reclaimRmdir")
    /\ UNCHANGED <<lock, faults>>

\* Remove exactly the marker observed; when it is gone, never touch the
\* directory.
ReclaimMarker(p) ==
    /\ pc[p] = "reclaim"
    /\ Unlink(obs[p])
    /\ IF AtLock(obs[p]) THEN Step(p, "reclaimRmdir") ELSE Leave(p, "wait")
    /\ UNCHANGED faults

\* ENOENT counts as reclaimed, ENOTEMPTY fails the call.
ReclaimDirectory(p) ==
    /\ pc[p] = "reclaimRmdir"
    /\ Rmdir
    /\ Leave(p, IF lock # NoDir /\ contents[lock] # {} THEN "idle" ELSE "mkdir")
    /\ UNCHANGED faults
-----------------------------------------------------------------------------
(* reclaimOldEmptyDirectory                                                *)

JudgeOld(p) ==
    /\ pc[p] = "judge"
    /\ Step(p, "claim")
    /\ UNCHANGED <<fs, faults>>

JudgeYoung(p) ==
    /\ pc[p] = "judge"
    /\ Leave(p, "wait")
    /\ UNCHANGED <<fs, faults>>

\* Publish the claim; ENOENT ends the attempt.
PublishClaim(p) ==
    /\ pc[p] = "claim"
    /\ IF lock = NoDir
       THEN Leave(p, "wait") /\ UNCHANGED fs
       ELSE \E t \in Fresh(p) :
               /\ PutMarker(t)
               /\ claim' = [claim EXCEPT ![p] = t]
               /\ pc' = [pc EXCEPT ![p] = "claimStat"]
               /\ UNCHANGED <<tok, seen, obs, moved>>
    /\ UNCHANGED faults

\* The claim may have landed in a replacement of the directory observed.
ClaimStat(p) ==
    /\ pc[p] = "claimStat"
    /\ Step(p, IF lock = seen[p] THEN "claimList" ELSE "drop")
    /\ UNCHANGED <<fs, faults>>

\* Mutant of ClaimList: other markers beside the claim are tolerated.
ClaimListAmongOthers(p) ==
    /\ pc[p] = "claimList"
    /\ Step(p, IF AtLock(claim[p]) THEN "isolate" ELSE "drop")
    /\ UNCHANGED <<fs, faults>>

\* Mutant of ClaimList: the directory is expected to be still empty.
ClaimListExpectsEmpty(p) ==
    /\ pc[p] = "claimList"
    /\ Step(p, IF lock # NoDir /\ contents[lock] = {} THEN "isolate" ELSE "drop")
    /\ UNCHANGED <<fs, faults>>

\* Somebody else's marker or claim is there too: give up.
ClaimList(p) ==
    /\ pc[p] = "claimList"
    /\ Step(p, IF lock # NoDir /\ contents[lock] = {claim[p]} THEN "isolate" ELSE "drop")
    /\ UNCHANGED <<fs, faults>>

\* removeUniqueClaim, then report no success ("drop") or throw ("dropThrow").
DropClaim(p) ==
    /\ pc[p] \in {"drop", "dropThrow"}
    /\ Unlink(claim[p])
    /\ Leave(p, IF pc[p] = "drop" THEN "wait" ELSE "idle")
    /\ UNCHANGED faults

\* Move whatever is at lockPath into the quarantine container.  The claim pins
\* it there (ClaimPinsDirectory), so the rename finds it.
Isolate(p) ==
    /\ pc[p] = "isolate"
    /\ lock # NoDir
    /\ moved' = [moved EXCEPT ![p] = lock]
    /\ lock' = NoDir
    /\ pc' = [pc EXCEPT ![p] = "quarUnlink"]
    /\ UNCHANGED <<contents, tok, claim, seen, obs, faults>>

QuarantineUnlink(p) ==
    /\ pc[p] = "quarUnlink"
    /\ contents' = [contents EXCEPT ![moved[p]] = @ \ {claim[p]}]
    /\ Step(p, "quarRmdir")
    /\ UNCHANGED <<lock, faults>>

\* A marker that was moved along keeps the quarantined directory: the call
\* fails and the directory stays where it is.
QuarantineRmdir(p) ==
    /\ pc[p] = "quarRmdir"
    /\ Leave(p, IF contents[moved[p]] = {} THEN "mkdir" ELSE "idle")
    /\ ForgetQuarantine(p)
    /\ UNCHANGED faults

\* removeMarkerThenDirectory for a claim whose publication or isolation failed.
UndoClaim(p) ==
    /\ pc[p] = "undo"
    /\ Unlink(claim[p])
    /\ Leave(p, IF AtLock(claim[p]) THEN "undoRmdir" ELSE "idle")
    /\ UNCHANGED faults

UndoDirectory(p) ==
    /\ pc[p] = "undoRmdir"
    /\ Rmdir
    /\ Leave(p, "idle")
    /\ UNCHANGED faults
-----------------------------------------------------------------------------
(* crashes and failed calls                                                *)

\* Where a call that fails with anything but the errors handled above leads.
FaultTargets(s) ==
    CASE s \in {"verify", "confirm"} -> {"abandon"}
      [] s = "claimStat"             -> {"dropThrow", "undo"}
      [] s = "claimList"             -> {"dropThrow"}
      [] s = "isolate"               -> {"undo"}
      [] s = "quarUnlink"            -> {"idle", "undo"}
      [] s \in {"idle", "held", "down", "wait", "judge"} -> {}
      [] OTHER                       -> {"idle"}

Fault(p) ==
    /\ pc[p] \in FaultySteps
    /\ faults < MaxFaults
    /\ \E s \in FaultTargets(pc[p]) : IF s = "idle" THEN Leave(p, s) ELSE Step(p, s)
    /\ faults' = faults + 1
    /\ ForgetQuarantine(p)

\* The process dies; what it left in the filesystem stays.
Crash(p) ==
    /\ pc[p] # "down"
    /\ faults < MaxFaults
    /\ Leave(p, "down")
    /\ faults' = faults + 1
    /\ ForgetQuarantine(p)
-----------------------------------------------------------------------------
Acquiring(p) ==
    \/ Mkdir(p) \/ MkdirExists(p) \/ CreatedStat(p) \/ Publish(p)
    \/ Verify(p) \/ Confirm(p) \/ Preserve(p)

Releasing(p) == EndOperation(p) \/ RemoveMarker(p) \/ RemoveDirectory(p)

Inspecting(p) ==
    \/ Look(p) \/ ListMissing(p) \/ ListEmpty(p) \/ ListMarker(p) \/ ListMalformed(p)
    \/ ReadChanged(p) \/ ReadDead(p) \/ ReadBusy(p) \/ Retry(p) \/ TimeOut(p)

Reclaiming(p) ==
    \/ ReclaimMarker(p) \/ ReclaimDirectory(p)
    \/ JudgeOld(p) \/ JudgeYoung(p) \/ PublishClaim(p) \/ ClaimStat(p) \/ ClaimList(p)
    \/ DropClaim(p) \/ Isolate(p) \/ QuarantineUnlink(p) \/ QuarantineRmdir(p)
    \/ UndoClaim(p) \/ UndoDirectory(p)

Next == \E p \in Proc :
    \/ Call(p)
    \/ Acquiring(p) \/ Releasing(p) \/ Inspecting(p) \/ Reclaiming(p)
    \/ Transient(p) \/ Fault(p) \/ Crash(p)

Spec == Init /\ [][Next]_vars
-----------------------------------------------------------------------------
(* Safety                                                                  *)

\* p is inside fn, or about to start its release.
InFn(p) == pc[p] \in {"held", "release"}

\* No two processes run fn of one lock path at once, whatever mixture of
\* stalls, crashes, failed calls, dead-owner reclaims and quarantines of old
\* empty directories preceded (withOwnerDirectoryLock).
MutualExclusion == \A p, q \in Proc : InFn(p) /\ InFn(q) => p = q

\* As long as an owner lives its marker stays in the directory at lockPath: its
\* release never finds the marker gone or the directory replaced, so a finished
\* operation is not reported as "its unique owner marker disappeared".
OwnerKeepsMarker == \A p \in Proc : InFn(p) => AtLock(tok[p])

\* A reclaimer about to move the directory away still has its claim in it, and
\* nobody is inside fn: the rename hits neither a missing nor an owned directory
\* (reclaimOldEmptyDirectory, between readdir and rename).
ClaimPinsDirectory ==
    \A p \in Proc : pc[p] = "isolate" =>
        /\ AtLock(claim[p])
        /\ \A q \in Proc : ~InFn(q)

\* The steps during which a live process has its owner marker, or its claim, in
\* the directory at lockPath.
OwnerMarkerSteps == {"verify", "confirm", "preserve", "abandon", "held", "release"}
ClaimMarkerSteps == {"claimStat", "claimList", "drop", "dropThrow", "isolate", "undo"}

\* A call that ended, however it failed, left no marker of its live process at
\* lockPath: nobody would ever reclaim it, and every process, itself included,
\* would time out until it exits.  (Provided unlink itself does not fail.)
UnlinkSteps == {"preserve", "release", "abandon", "drop", "dropThrow", "undo"}
NoLiveLeftover ==
    UnlinkSteps \cap FaultySteps = {} =>
        \A p \in Proc, t \in Token :
            PidOf(t) = p /\ pc[p] # "down" /\ AtLock(t) =>
                \/ t = tok[p] /\ pc[p] \in OwnerMarkerSteps
                \/ t = claim[p] /\ pc[p] \in ClaimMarkerSteps

\* A marker disappears from lockPath only by a step of its own process, or after
\* the death of that process, or with the whole directory going to quarantine.
OnlyOwnMarkersRemoved ==
    [][\A t \in Token : AtLock(t) /\ ~AtLock(t)' =>
          \/ PidOf(t) \in Down
          \/ pc'[PidOf(t)] # pc[PidOf(t)]
          \/ lock \in Isolated']_vars

\* The protocol implements the abstract lock.
Lock == INSTANCE ExclusiveLock WITH holders <- {p \in Proc : InFn(p)}
ImplementsExclusiveLock == Lock!Spec

\* owner-lock.js:595-597 promise that a new owner can acquire lockPath "without
\* any delayed rmdir being able to touch it": the directory that a process has
\* just created and is about to publish its marker in disappears from lockPath
\* only into quarantine.
NoDelayedRmdir ==
    [][\A p \in Proc :
          pc[p] = "publish" /\ lock = seen[p] /\ lock' # lock => lock \in Isolated']_vars
-----------------------------------------------------------------------------
(* Liveness                                                                *)

\* A process that lives takes its next step.  An fn that never returns is the
\* caller's affair, but every fn of this program ends (its HTTP calls have
\* deadlines).  The wait loop compares with the clock: a process that waits again
\* and again sooner or later reads the deadline (TimeOut) and sees the directory
\* older than staleAfterMs (JudgeOld).
Fairness == \A p \in Proc :
    /\ WF_vars(Acquiring(p) \/ Releasing(p) \/ Inspecting(p) \/ Reclaiming(p))
    /\ SF_vars(TimeOut(p))
    /\ SF_vars(JudgeOld(p))

FairSpec == Spec /\ Fairness

Ended(p) == pc[p] \in {"idle", "held", "down"}
OthersQuiet(p) == \A q \in Proc \ {p} : Ended(q)

\* Nothing that other processes left behind keeps a caller busy for ever: once
\* they are quiet it gets the lock or an error.
CallEnds == \A p \in Proc : <>[]OthersQuiet(p) => []<>Ended(p)

\* A crash at any step of one process, with whatever it leaves in the directory,
\* does not wedge the lock: a process that keeps calling while the others are
\* idle or dead enters fn again and again.  (Two crashes can: two markers in one
\* directory are malformed for ever, and an operator must remove the path.  A
\* marker of another host, or of a pid in use again, is never reclaimed either.)
CrashRecovers == \A p \in Proc :
    /\ <>[](\A q \in Proc \ {p} : pc[q] = "idle" \/ KnownDead(p, q))
    /\ []<>(pc[p] = "mkdir")
    => []<>(pc[p] = "held")
=============================================================================
