-------------------------- MODULE AuthorizationProofs --------------------------
(***************************************************************************)
(* Proofs about Authorization, for any numbers of slugs, realms, callbacks,*)
(* processes and grants.  The inductive invariant is built in layers, each *)
(* with a lemma of its own that goes through the actions: Shape (types and *)
(* what each phase of a call implies), Locked (who is inside a lock),      *)
(* Homes (a grant belongs to one slug), Alone (a company that is being     *)
(* saved or revoked is nobody else's), Ordered (realm locks), Marked (what *)
(* was sent is marked) and Kept (a disconnect's journal); Served is the    *)
(* layer of the callback listener.                                         *)
(***************************************************************************)
EXTENDS Authorization, FiniteSetTheorems, WellFoundedInduction, TLAPS

\* What the next step of a call says about its locals.
Phases ==
    \A c \in Call :
        /\ pc[c] # "idle" => at[c] \in Slug
        /\ pc[c] \notin Inside =>
              cur[c] = None /\ prev[c] = None /\ book[c] = NoEntries /\ todo[c] = {} /\ durable[c]
        /\ pc[c] \in {"listen", "exchange"} => c \in Attempt
        /\ c \in Attempt => op[c] = "connect"
        /\ pc[c] \in Inside /\ op[c] # "disconnect" => cur[c] # None
        /\ pc[c] \in {"write", "verify"} => op[c] # "disconnect"
        /\ pc[c] = "unstage" => op[c] \in {"import", "resume"}
        /\ pc[c] \in Revoking \cup Removing => op[c] = "disconnect"
        /\ pc[c] \in {"post", "await"} => cur[c] # None /\ book[c][cur[c]] # "absent"

Shape == TypeOK /\ Phases

USE AuthorizationAssumption, NoRecordAssumption DEF files, locks, server, local, intuit, Call
-----------------------------------------------------------------------------
\* The initial state has every layer.
LEMMA InitShape == Init => Shape
<1> SUFFICES ASSUME Init PROVE Shape
    OBVIOUS
<1>1. TypeOK
    BY DEF Init, TypeOK, NoEntries, Receipt, EntryState, Grant
<1>2. Phases
    BY DEF Init, Phases, Inside, Persisting, Revoking, Removing
<1> QED
    BY <1>1, <1>2 DEF Shape

\* An entry that is rewritten leaves journals journals.
LEMMA JournalTypes ==
    ASSUME Shape, NEW p \in Call, at[p] \in Slug, NEW g \in Grant, NEW state \in EntryState,
           book' = [book EXCEPT ![p][g] = state],
           \/ receipt' = [receipt EXCEPT ![at[p]] = book'[p]]
           \/ UNCHANGED receipt
    PROVE  book' \in [Call -> Receipt] /\ receipt' \in [Slug -> Receipt \cup {None}]
<1>1. [book[p] EXCEPT ![g] = state] \in Receipt
    BY DEF Shape, TypeOK, Receipt
<1>2. book' \in [Call -> Receipt] /\ book'[p] \in Receipt
    BY <1>1 DEF Shape, TypeOK
<1> QED
    BY <1>2 DEF Shape, TypeOK

\* Each action keeps the types and what the phases say.
LEMMA ShapeStep ==
    ASSUME Shape, [Next]_vars PROVE Shape'
<1> USE DEF Shape
<1>1. CASE CancelAuthorization
  <2>1. TypeOK'
      BY <1>1 DEF CancelAuthorization, TypeOK, Quiet, StopListening, Owner, Grant,
              Receipt, Pending, Inside, PortWithout, Reset, Deaf, EntryState,
              Persisting, Revoking, Removing
  <2>2. Phases'
      BY <1>1 DEF CancelAuthorization, TypeOK, Phases, Quiet, StopListening, Owner,
              Grant, Receipt, Pending, Inside, NoEntries, Revoking, Removing,
              PortWithout, Reset, Deaf, EntryState, Persisting
  <2> QED
      BY <2>1, <2>2
<1>2. CASE Expire
  <2>1. TypeOK'
      BY <1>2 DEF Expire, TypeOK, Waiting, StopListening, Owner, Grant, Receipt,
              Pending, Inside, PortWithout, Reset, Deaf, EntryState, Persisting,
              Revoking, Removing
  <2>2. Phases'
      BY <1>2 DEF Expire, TypeOK, Phases, Waiting, StopListening, Owner, Grant, Receipt,
              Pending, Inside, NoEntries, Revoking, Removing, PortWithout, Reset, Deaf,
              EntryState, Persisting
  <2> QED
      BY <2>1, <2>2
<1>3. CASE ServerDies
  <2>1. TypeOK'
      BY <1>3 DEF ServerDies, TypeOK, End, Grant, Receipt, Pending, Inside, Reset,
              NoEntries, Without, PortWithout, EntryState, Persisting, Revoking,
              Removing
  <2>2. Phases'
      BY <1>3 DEF ServerDies, TypeOK, Phases, End, Grant, Receipt, Pending, Inside,
              NoEntries, Revoking, Removing, Reset, Without, PortWithout, EntryState,
              Persisting
  <2> QED
      BY <2>1, <2>2
<1>4. ASSUME NEW a \in Attempt, NEW s \in Slug, BeginAuthorization(a, s)
     PROVE  Shape'
  <2>1. TypeOK'
      BY <1>4 DEF BeginAuthorization, TypeOK, Deaf, Owner, Waiting, Quiet, PortWithout,
              Reset, Grant, Receipt, Pending, Inside, EntryState, Persisting, Revoking,
              Removing
  <2>2. Phases'
      BY <1>4 DEF BeginAuthorization, TypeOK, Phases, Deaf, Owner, Waiting, Quiet,
              PortWithout, Reset, Grant, Receipt, Pending, Inside, NoEntries, Revoking,
              Removing, EntryState, Persisting
  <2> QED
      BY <2>1, <2>2
<1>5. ASSUME NEW a \in Attempt, BadCallback(a)
     PROVE  Shape'
  <2>1. TypeOK'
      BY <1>5 DEF BadCallback, TypeOK, WithError, StopListening, Grant, Receipt,
              Pending, Inside, PortWithout, Reset, Deaf, EntryState, Persisting,
              Revoking, Removing
  <2>2. Phases'
      BY <1>5 DEF BadCallback, TypeOK, Phases, WithError, StopListening, Grant, Receipt,
              Pending, Inside, NoEntries, Revoking, Removing, PortWithout, Reset, Deaf,
              EntryState, Persisting
  <2> QED
      BY <2>1, <2>2
<1>6. ASSUME NEW a \in Attempt, Callback(a)
     PROVE  Shape'
  <2>1. TypeOK'
      BY <1>6 DEF Callback, TypeOK, Goto, Grant, Receipt, Pending, Inside, EntryState,
              Persisting, Revoking, Removing
  <2>2. Phases'
      BY <1>6 DEF Callback, TypeOK, Phases, Goto, Grant, Receipt, Pending, Inside,
              NoEntries, Revoking, Removing, EntryState, Persisting
  <2> QED
      BY <2>1, <2>2
<1>7. ASSUME NEW a \in Attempt, Exchange(a)
     PROVE  Shape'
  <2>1. TypeOK'
    <3>1. at[a] \in Slug /\ issued + 1 \in Grant
        BY <1>7 DEF Exchange, Issue, TypeOK, Phases, Grant
    <3>2. /\ realmOf' \in [Grant -> Realm \cup {None}] /\ issued' \in 0..MaxGrant
          /\ \A g \in Grant : realmOf'[g] \in Realm <=> g <= issued'
        BY <1>7, <3>1 DEF Exchange, Issue, TypeOK, Grant
    <3> QED
        BY <1>7, <3>1, <3>2 DEF Exchange, Issue, TakeSlugLock, Goto, TypeOK, Inside
  <2>2. Phases'
      BY <1>7 DEF Exchange, TypeOK, Phases, TakeSlugLock, Issue, Goto, Grant, Receipt,
              Pending, Inside, NoEntries, Revoking, Removing, EntryState, Persisting
  <2> QED
      BY <2>1, <2>2
<1>8. ASSUME NEW c \in Call, Fail(c)
     PROVE  Shape'
  <2>1. TypeOK'
      BY <1>8 DEF Fail, TypeOK, WithError, End, Grant, Receipt, Pending, Inside, Reset,
              NoEntries, Without, PortWithout, EntryState, Persisting, Revoking,
              Removing
  <2>2. Phases'
      BY <1>8 DEF Fail, TypeOK, Phases, WithError, End, Grant, Receipt, Pending, Inside,
              NoEntries, Revoking, Removing, Reset, Without, PortWithout, EntryState,
              Persisting
  <2> QED
      BY <2>1, <2>2
<1>9. ASSUME NEW c \in Call, LockRealm(c)
     PROVE  Shape'
  <2>1. TypeOK'
      BY <1>9 DEF LockRealm, TypeOK, Missing, NextRealm, Grant, Receipt, Pending,
              Inside, Wanted, EntryState, Persisting, Revoking, Removing, Listed
  <2>2. Phases'
      BY <1>9 DEF LockRealm, TypeOK, Phases, Missing, NextRealm, Grant, Receipt,
              Pending, Inside, NoEntries, Revoking, Removing, Wanted, EntryState,
              Persisting, Listed
  <2> QED
      BY <2>1, <2>2
<1>10. ASSUME NEW c \in Call, Vet(c)
     PROVE  Shape'
  <2>1. TypeOK'
      BY <1>10 DEF Vet, TypeOK, Phases, Goto, Inside, Persisting, Revoking, Removing
  <2>2. Phases'
      BY <1>10 DEF Vet, TypeOK, Phases, Missing, Replaceable, Elsewhere, Goto, Grant,
              Receipt, Pending, Inside, NoEntries, Revoking, Removing, Wanted,
              EntryState, Persisting, Listed
  <2> QED
      BY <2>1, <2>2
<1>11. ASSUME NEW c \in Call, Write(c)
     PROVE  Shape'
  <2>1. TypeOK'
      BY <1>11 DEF Write, TypeOK, Goto, Grant, Receipt, Pending, Inside, EntryState,
              Persisting, Revoking, Removing
  <2>2. Phases'
      BY <1>11 DEF Write, TypeOK, Phases, Goto, Grant, Receipt, Pending, Inside,
              NoEntries, Revoking, Removing, EntryState, Persisting
  <2> QED
      BY <2>1, <2>2
<1>12. ASSUME NEW c \in Call, Connected(c)
     PROVE  Shape'
  <2>1. TypeOK'
      BY <1>12 DEF Connected, TypeOK, Verified, WithResult, End, Grant, Receipt,
              Pending, Inside, Elsewhere, Reset, NoEntries, Without, PortWithout,
              EntryState, Persisting, Revoking, Removing
  <2>2. Phases'
      BY <1>12 DEF Connected, TypeOK, Phases, Verified, WithResult, End, Grant, Receipt,
              Pending, Inside, NoEntries, Revoking, Removing, Elsewhere, Reset, Without,
              PortWithout, EntryState, Persisting
  <2> QED
      BY <2>1, <2>2
<1>13. ASSUME NEW c \in Call, RollBack(c)
     PROVE  Shape'
  <2>1. TypeOK'
      BY <1>13 DEF RollBack, TypeOK, WithError, End, Grant, Receipt, Pending, Inside,
              Reset, NoEntries, Without, PortWithout, EntryState, Persisting, Revoking,
              Removing
  <2>2. Phases'
      BY <1>13 DEF RollBack, TypeOK, Phases, WithError, End, Grant, Receipt, Pending,
              Inside, NoEntries, Revoking, Removing, Reset, Without, PortWithout,
              EntryState, Persisting
  <2> QED
      BY <2>1, <2>2
<1>14. ASSUME NEW p \in Proc, NEW s \in Slug, RunAuthorizationFlow(p, s)
     PROVE  Shape'
  <2>1. TypeOK'
      BY <1>14 DEF RunAuthorizationFlow, TypeOK, Begin, Issue, Grant, Receipt, Pending,
              Inside, TakeSlugLock, Goto, EntryState, Persisting, Revoking, Removing
  <2>2. Phases'
      BY <1>14 DEF RunAuthorizationFlow, TypeOK, Phases, Begin, Issue, Grant, Receipt,
              Pending, Inside, NoEntries, Revoking, Removing, TakeSlugLock, Goto,
              EntryState, Persisting
  <2> QED
      BY <2>1, <2>2
<1>15. ASSUME NEW p \in Proc, NEW s \in Slug, ImportRefreshToken(p, s)
     PROVE  Shape'
  <2>1. TypeOK'
      BY <1>15 DEF ImportRefreshToken, TypeOK, Begin, Issue, Grant, Receipt, Pending,
              Inside, TakeSlugLock, Goto, EntryState, Persisting, Revoking, Removing
  <2>2. Phases'
      BY <1>15 DEF ImportRefreshToken, TypeOK, Phases, Begin, Issue, Grant, Receipt,
              Pending, Inside, NoEntries, Revoking, Removing, TakeSlugLock, Goto,
              EntryState, Persisting
  <2> QED
      BY <2>1, <2>2
<1>16. ASSUME NEW p \in Proc, NEW s \in Slug, RecoverStagedTokenImport(p, s)
     PROVE  Shape'
  <2>1. TypeOK'
      BY <1>16 DEF RecoverStagedTokenImport, TypeOK, Begin, Grant, Receipt, Pending,
              Inside, TakeSlugLock, Goto, EntryState, Persisting, Revoking, Removing
  <2>2. Phases'
      BY <1>16 DEF RecoverStagedTokenImport, TypeOK, Phases, Begin, Grant, Receipt,
              Pending, Inside, NoEntries, Revoking, Removing, TakeSlugLock, Goto,
              EntryState, Persisting
  <2> QED
      BY <2>1, <2>2
<1>17. ASSUME NEW p \in Proc, NEW s \in Slug, DisconnectCompany(p, s)
     PROVE  Shape'
  <2>1. TypeOK'
      BY <1>17 DEF DisconnectCompany, TypeOK, Begin, Listed, Entries, Grant, Receipt,
              Pending, Inside, TakeSlugLock, Goto, EntryState, Persisting, Revoking,
              Removing
  <2>2. Phases'
      BY <1>17 DEF DisconnectCompany, TypeOK, Phases, Begin, Listed, Entries, Grant,
              Receipt, Pending, Inside, NoEntries, Revoking, Removing, TakeSlugLock,
              Goto, EntryState, Persisting
  <2> QED
      BY <2>1, <2>2
<1>18. ASSUME NEW p \in Proc, VerifyImport(p)
     PROVE  Shape'
  <2>1. TypeOK'
      BY <1>18 DEF VerifyImport, TypeOK, Verified, Without, Goto, Grant, Receipt,
              Pending, Inside, Elsewhere, EntryState, Persisting, Revoking, Removing
  <2>2. Phases'
      BY <1>18 DEF VerifyImport, TypeOK, Phases, Verified, Without, Goto, Grant,
              Receipt, Pending, Inside, NoEntries, Revoking, Removing, Elsewhere,
              EntryState, Persisting
  <2> QED
      BY <2>1, <2>2
<1>19. ASSUME NEW p \in Proc, Unstage(p)
     PROVE  Shape'
  <2>1. TypeOK'
      BY <1>19 DEF Unstage, TypeOK, End, Grant, Receipt, Pending, Inside, Reset,
              NoEntries, Without, PortWithout, EntryState, Persisting, Revoking,
              Removing
  <2>2. Phases'
      BY <1>19 DEF Unstage, TypeOK, Phases, End, Grant, Receipt, Pending, Inside,
              NoEntries, Revoking, Removing, Reset, Without, PortWithout, EntryState,
              Persisting
  <2> QED
      BY <2>1, <2>2
<1>20. ASSUME NEW p \in Proc, CheckIdentities(p)
     PROVE  Shape'
  <2>1. TypeOK'
      BY <1>20 DEF CheckIdentities, TypeOK, Missing, Wanted, Elsewhere, Goto, Grant,
              Receipt, Pending, Inside, Listed, EntryState, Persisting, Revoking,
              Removing
  <2>2. Phases'
      BY <1>20 DEF CheckIdentities, TypeOK, Phases, Missing, Wanted, Elsewhere, Goto,
              Grant, Receipt, Pending, Inside, NoEntries, Revoking, Removing, Listed,
              EntryState, Persisting
  <2> QED
      BY <2>1, <2>2
<1>21. ASSUME NEW p \in Proc, MarkAttempt(p)
     PROVE  Shape'
  <2>1. TypeOK'
    <3>1. PICK g \in Grant :
              /\ book' = [book EXCEPT ![p][g] = InFlight(book[p][g])]
              /\ receipt' = [receipt EXCEPT ![at[p]] = book'[p]]
              /\ cur' = [cur EXCEPT ![p] = g]
        BY <1>21 DEF MarkAttempt
    <3>2. at[p] \in Slug /\ InFlight(book[p][g]) \in EntryState
        BY <1>21 DEF MarkAttempt, InFlight, EntryState, Phases
    <3>3. book' \in [Call -> Receipt] /\ receipt' \in [Slug -> Receipt \cup {None}]
        BY <3>1, <3>2, JournalTypes
    <3> QED
        BY <1>21, <3>1, <3>3 DEF MarkAttempt, Goto, TypeOK, Inside, Revoking
  <2>2. Phases'
      BY <1>21 DEF MarkAttempt, TypeOK, Phases, Grant, Revocable, InFlight, Goto,
              Receipt, Pending, Inside, NoEntries, Revoking, Removing, EntryState,
              Persisting
  <2> QED
      BY <2>1, <2>2
<1>22. ASSUME NEW p \in Proc, LocalFailure(p)
     PROVE  Shape'
  <2>1. TypeOK'
      BY <1>22 DEF LocalFailure, TypeOK, Grant, Revocable, Receipt, Pending, Inside,
              EntryState, Persisting, Revoking, Removing
  <2>2. Phases'
      BY <1>22 DEF LocalFailure, TypeOK, Phases, Grant, Revocable, Receipt, Pending,
              Inside, NoEntries, Revoking, Removing, EntryState, Persisting
  <2> QED
      BY <2>1, <2>2
<1>23. ASSUME NEW p \in Proc, PostRevocation(p)
     PROVE  Shape'
  <2>1. TypeOK'
      BY <1>23 DEF PostRevocation, TypeOK, Phases, Goto, Inside, Persisting, Revoking,
              Removing
  <2>2. Phases'
      BY <1>23 DEF PostRevocation, TypeOK, Phases, Goto, Grant, Receipt, Pending,
              Inside, NoEntries, Revoking, Removing, EntryState, Persisting
  <2> QED
      BY <2>1, <2>2
<1>24. ASSUME NEW p \in Proc, RevocationConfirmed(p)
     PROVE  Shape'
  <2>1. TypeOK'
    <3>1. at[p] \in Slug /\ cur[p] \in Grant /\ "confirmed" \in EntryState
        BY <1>24 DEF RevocationConfirmed, RecordOutcome, EntryState, TypeOK, Phases
    <3>2. book' \in [Call -> Receipt] /\ receipt' \in [Slug -> Receipt \cup {None}]
        BY <1>24, <3>1, JournalTypes DEF RevocationConfirmed, RecordOutcome
    <3> QED
        BY <1>24, <3>1, <3>2 DEF RevocationConfirmed, RecordOutcome, Goto, TypeOK,
                Inside, Revoking
  <2>2. Phases'
      BY <1>24 DEF RevocationConfirmed, TypeOK, Phases, RecordOutcome, Grant, Receipt,
              Pending, Inside, NoEntries, Revoking, Removing, Goto, EntryState,
              Persisting
  <2> QED
      BY <2>1, <2>2
<1>25. ASSUME NEW p \in Proc, RevocationLost(p)
     PROVE  Shape'
  <2>1. TypeOK'
    <3>1. at[p] \in Slug /\ cur[p] \in Grant /\ "ambiguous" \in EntryState
        BY <1>25 DEF RevocationLost, RecordOutcome, EntryState, TypeOK, Phases
    <3>2. book' \in [Call -> Receipt] /\ receipt' \in [Slug -> Receipt \cup {None}]
        BY <1>25, <3>1, JournalTypes DEF RevocationLost, RecordOutcome
    <3> QED
        BY <1>25, <3>1, <3>2 DEF RevocationLost, RecordOutcome, Goto, TypeOK, Inside,
                Revoking
  <2>2. Phases'
      BY <1>25 DEF RevocationLost, TypeOK, Phases, RecordOutcome, Grant, Receipt,
              Pending, Inside, NoEntries, Revoking, Removing, Goto, EntryState,
              Persisting
  <2> QED
      BY <2>1, <2>2
<1>26. ASSUME NEW p \in Proc, RevocationRefused(p)
     PROVE  Shape'
  <2>1. TypeOK'
    <3>1. at[p] \in Slug /\ cur[p] \in Grant /\ Refused(book[p][cur[p]]) \in EntryState
        BY <1>26 DEF RevocationRefused, RecordOutcome, Refused, EntryState, TypeOK, Phases
    <3>2. book' \in [Call -> Receipt] /\ receipt' \in [Slug -> Receipt \cup {None}]
        BY <1>26, <3>1, JournalTypes DEF RevocationRefused, RecordOutcome
    <3> QED
        BY <1>26, <3>1, <3>2 DEF RevocationRefused, RecordOutcome, Goto, TypeOK, Inside,
                Revoking
  <2>2. Phases'
      BY <1>26 DEF RevocationRefused, TypeOK, Phases, RecordOutcome, Refused, Grant,
              Receipt, Pending, Inside, NoEntries, Revoking, Removing, Goto, EntryState,
              Persisting
  <2> QED
      BY <2>1, <2>2
<1>27. ASSUME NEW p \in Proc, UnlinkFile(p)
     PROVE  Shape'
  <2>1. TypeOK'
      BY <1>27 DEF UnlinkFile, TypeOK, AllConfirmed, Goto, Grant, Receipt, Pending,
              Inside, Listed, EntryState, Persisting, Revoking, Removing
  <2>2. Phases'
      BY <1>27 DEF UnlinkFile, TypeOK, Phases, AllConfirmed, Goto, Grant, Receipt,
              Pending, Inside, NoEntries, Revoking, Removing, Listed, EntryState,
              Persisting
  <2> QED
      BY <2>1, <2>2
<1>28. ASSUME NEW p \in Proc, UnlinkStage(p)
     PROVE  Shape'
  <2>1. TypeOK'
      BY <1>28 DEF UnlinkStage, TypeOK, Goto, Grant, Receipt, Pending, Inside,
              EntryState, Persisting, Revoking, Removing
  <2>2. Phases'
      BY <1>28 DEF UnlinkStage, TypeOK, Phases, Goto, Grant, Receipt, Pending, Inside,
              NoEntries, Revoking, Removing, EntryState, Persisting
  <2> QED
      BY <2>1, <2>2
<1>29. ASSUME NEW p \in Proc, UnlinkReceipt(p)
     PROVE  Shape'
  <2>1. TypeOK'
      BY <1>29 DEF UnlinkReceipt, TypeOK, End, Grant, Receipt, Pending, Inside, Reset,
              NoEntries, Without, PortWithout, EntryState, Persisting, Revoking,
              Removing
  <2>2. Phases'
      BY <1>29 DEF UnlinkReceipt, TypeOK, Phases, End, Grant, Receipt, Pending, Inside,
              NoEntries, Revoking, Removing, Reset, Without, PortWithout, EntryState,
              Persisting
  <2> QED
      BY <2>1, <2>2
<1>30. CASE UNCHANGED vars
    BY <1>30 DEF vars, TypeOK, Phases, Grant, Receipt, Pending, Inside, NoEntries,
            Revoking, Removing, EntryState, Persisting
<1> QED
    BY <1>1, <1>2, <1>3, <1>4, <1>5, <1>6, <1>7, <1>8, <1>9, <1>10, <1>11, <1>12, <1>13,
            <1>14, <1>15, <1>16, <1>17, <1>18, <1>19, <1>20, <1>21, <1>22, <1>23, <1>24,
            <1>25, <1>26, <1>27, <1>28, <1>29, <1>30 DEF
            Next, Listener, Start, Authorize, Maintain

-----------------------------------------------------------------------------
\* Who is inside holds the lock of its slug, and a realm lock has its holder inside.
Locked ==
    /\ \A c \in Call : pc[c] \in Inside => slugLock[at[c]] = c
    /\ \A r \in Realm, c \in Call : realmLock[r] = c => pc[c] \in Inside \ {"unstage"}

LEMMA InitLocked == Init => Locked
    BY DEF Init, Locked, Inside, Persisting, Revoking, Removing

\* Each action keeps the locks with those who are inside.
LEMMA LockedStep ==
    ASSUME Shape, Shape', Locked, [Next]_vars PROVE Locked'
<1>0. TypeOK /\ Phases /\ TypeOK' /\ Phases'
    BY DEF Shape
<1>1. CASE CancelAuthorization
    BY <1>1, <1>0 DEF CancelAuthorization, Locked, TypeOK, Phases, StopListening, Owner,
            Inside, Grant, Revoking, Removing, PortWithout, Reset, Deaf, Persisting
<1>2. CASE Expire
    BY <1>2, <1>0 DEF Expire, Locked, TypeOK, Phases, StopListening, Owner, Inside,
            Grant, Revoking, Removing, PortWithout, Reset, Deaf, Persisting
<1>3. CASE ServerDies
    BY <1>3, <1>0 DEF ServerDies, Locked, TypeOK, Phases, End, Inside, Grant, Revoking,
            Removing, Reset, Without, PortWithout, Persisting
<1>4. ASSUME NEW a \in Attempt, NEW s \in Slug, BeginAuthorization(a, s)
     PROVE  Locked'
    BY <1>4, <1>0 DEF BeginAuthorization, Locked, TypeOK, Phases, Deaf, Owner,
            PortWithout, Reset, Inside, Grant, Revoking, Removing, Persisting
<1>5. ASSUME NEW a \in Attempt, BadCallback(a)
     PROVE  Locked'
    BY <1>5, <1>0 DEF BadCallback, Locked, TypeOK, Phases, StopListening, Inside, Grant,
            Revoking, Removing, PortWithout, Reset, Deaf, Persisting
<1>6. ASSUME NEW a \in Attempt, Callback(a)
     PROVE  Locked'
    BY <1>6, <1>0 DEF Callback, Locked, TypeOK, Phases, Goto, Inside, Grant, Revoking,
            Removing, Persisting
<1>7. ASSUME NEW a \in Attempt, Exchange(a)
     PROVE  Locked'
    BY <1>7, <1>0 DEF Exchange, Locked, TypeOK, Phases, TakeSlugLock, Issue, Goto,
            Inside, Grant, Revoking, Removing, Persisting
<1>8. ASSUME NEW c \in Call, Fail(c)
     PROVE  Locked'
    BY <1>8, <1>0 DEF Fail, Locked, TypeOK, Phases, End, Inside, Grant, Revoking,
            Removing, Reset, Without, PortWithout, Persisting
<1>9. ASSUME NEW c \in Call, LockRealm(c)
     PROVE  Locked'
    BY <1>9, <1>0 DEF LockRealm, Locked, TypeOK, Phases, Inside, Grant, Revoking,
            Removing, Persisting
<1>10. ASSUME NEW c \in Call, Vet(c)
     PROVE  Locked'
    BY <1>10, <1>0 DEF Vet, Locked, TypeOK, Phases, Goto, Inside, Grant, Revoking,
            Removing, Persisting
<1>11. ASSUME NEW c \in Call, Write(c)
     PROVE  Locked'
    BY <1>11, <1>0 DEF Write, Locked, TypeOK, Phases, Goto, Inside, Grant, Revoking,
            Removing, Persisting
<1>12. ASSUME NEW c \in Call, Connected(c)
     PROVE  Locked'
    BY <1>12, <1>0 DEF Connected, Locked, TypeOK, Phases, Verified, End, Inside, Grant,
            Revoking, Removing, Reset, Without, PortWithout, Persisting
<1>13. ASSUME NEW c \in Call, RollBack(c)
     PROVE  Locked'
    BY <1>13, <1>0 DEF RollBack, Locked, TypeOK, Phases, End, Inside, Grant, Revoking,
            Removing, Reset, Without, PortWithout, Persisting
<1>14. ASSUME NEW p \in Proc, NEW s \in Slug, RunAuthorizationFlow(p, s)
     PROVE  Locked'
    BY <1>14, <1>0 DEF RunAuthorizationFlow, Locked, TypeOK, Phases, Begin, Issue,
            Inside, Grant, Revoking, Removing, TakeSlugLock, Goto, Persisting
<1>15. ASSUME NEW p \in Proc, NEW s \in Slug, ImportRefreshToken(p, s)
     PROVE  Locked'
    BY <1>15, <1>0 DEF ImportRefreshToken, Locked, TypeOK, Phases, Begin, Issue, Inside,
            Grant, Revoking, Removing, TakeSlugLock, Goto, Persisting
<1>16. ASSUME NEW p \in Proc, NEW s \in Slug, RecoverStagedTokenImport(p, s)
     PROVE  Locked'
    BY <1>16, <1>0 DEF RecoverStagedTokenImport, Locked, TypeOK, Phases, Begin, Inside,
            Grant, Revoking, Removing, TakeSlugLock, Goto, Persisting
<1>17. ASSUME NEW p \in Proc, NEW s \in Slug, DisconnectCompany(p, s)
     PROVE  Locked'
    BY <1>17, <1>0 DEF DisconnectCompany, Locked, TypeOK, Phases, Begin, Inside, Grant,
            Revoking, Removing, TakeSlugLock, Goto, Persisting
<1>18. ASSUME NEW p \in Proc, VerifyImport(p)
     PROVE  Locked'
    BY <1>18, <1>0 DEF VerifyImport, Locked, TypeOK, Phases, Verified, Without, Goto,
            Inside, Grant, Revoking, Removing, Persisting
<1>19. ASSUME NEW p \in Proc, Unstage(p)
     PROVE  Locked'
    BY <1>19, <1>0 DEF Unstage, Locked, TypeOK, Phases, End, Inside, Grant, Revoking,
            Removing, Reset, Without, PortWithout, Persisting
<1>20. ASSUME NEW p \in Proc, CheckIdentities(p)
     PROVE  Locked'
    BY <1>20, <1>0 DEF CheckIdentities, Locked, TypeOK, Phases, Goto, Inside, Grant,
            Revoking, Removing, Persisting
<1>21. ASSUME NEW p \in Proc, MarkAttempt(p)
     PROVE  Locked'
    BY <1>21, <1>0 DEF MarkAttempt, Locked, TypeOK, Phases, Grant, Goto, Inside,
            Revoking, Removing, Persisting
<1>22. ASSUME NEW p \in Proc, LocalFailure(p)
     PROVE  Locked'
    BY <1>22, <1>0 DEF LocalFailure, Locked, TypeOK, Phases, Grant, Inside, Revoking,
            Removing, Persisting
<1>23. ASSUME NEW p \in Proc, PostRevocation(p)
     PROVE  Locked'
    BY <1>23, <1>0 DEF PostRevocation, Locked, TypeOK, Phases, Goto, Inside, Grant,
            Revoking, Removing, Persisting
<1>24. ASSUME NEW p \in Proc, RevocationConfirmed(p)
     PROVE  Locked'
    BY <1>24, <1>0 DEF RevocationConfirmed, Locked, TypeOK, Phases, RecordOutcome,
            Inside, Grant, Revoking, Removing, Goto, Persisting
<1>25. ASSUME NEW p \in Proc, RevocationLost(p)
     PROVE  Locked'
    BY <1>25, <1>0 DEF RevocationLost, Locked, TypeOK, Phases, RecordOutcome, Inside,
            Grant, Revoking, Removing, Goto, Persisting
<1>26. ASSUME NEW p \in Proc, RevocationRefused(p)
     PROVE  Locked'
    BY <1>26, <1>0 DEF RevocationRefused, Locked, TypeOK, Phases, RecordOutcome, Inside,
            Grant, Revoking, Removing, Goto, Persisting
<1>27. ASSUME NEW p \in Proc, UnlinkFile(p)
     PROVE  Locked'
    BY <1>27, <1>0 DEF UnlinkFile, Locked, TypeOK, Phases, Goto, Inside, Grant,
            Revoking, Removing, Persisting
<1>28. ASSUME NEW p \in Proc, UnlinkStage(p)
     PROVE  Locked'
    BY <1>28, <1>0 DEF UnlinkStage, Locked, TypeOK, Phases, Goto, Inside, Grant,
            Revoking, Removing, Persisting
<1>29. ASSUME NEW p \in Proc, UnlinkReceipt(p)
     PROVE  Locked'
    BY <1>29, <1>0 DEF UnlinkReceipt, Locked, TypeOK, Phases, End, Inside, Grant,
            Revoking, Removing, Reset, Without, PortWithout, Persisting
<1>30. CASE UNCHANGED vars
    BY <1>30, <1>0 DEF vars, Locked, TypeOK, Phases, Inside, Grant, Revoking, Removing,
            Persisting
<1> QED
    BY <1>1, <1>2, <1>3, <1>4, <1>5, <1>6, <1>7, <1>8, <1>9, <1>10, <1>11, <1>12, <1>13,
            <1>14, <1>15, <1>16, <1>17, <1>18, <1>19, <1>20, <1>21, <1>22, <1>23, <1>24,
            <1>25, <1>26, <1>27, <1>28, <1>29, <1>30 DEF
            Next, Listener, Start, Authorize, Maintain

-----------------------------------------------------------------------------
\* A slug has a grant in its files, in its journal, or in the memory of its calls.
Stores(s, g) ==
    file[s] = g \/ stage[s] = g \/ (receipt[s] # None /\ receipt[s][g] # "absent")
Carries(c, g) == cur[c] = g \/ prev[c] = g \/ book[c][g] # "absent"
Has(s, g) == Stores(s, g) \/ \E c \in Call : at[c] = s /\ Carries(c, g)

\* A grant that somebody has was issued, and a grant has one slug.
Homes ==
    /\ \A s \in Slug, g \in Grant : Has(s, g) => g <= issued
    /\ \A s, t \in Slug, g \in Grant : Has(s, g) /\ Has(t, g) => s = t
    /\ \A g \in revoking : g <= issued

LEMMA InitHomes == Init => Homes
    BY DEF Init, Homes, Has, Stores, Carries, Grant, NoEntries

\* A step brings no slug a grant it does not have, except that one may be issued to one.
Gains(s, g) == Has(s, g)' /\ ~Has(s, g)
Keeps ==
    /\ UNCHANGED <<issued, realmOf>>
    /\ \A s \in Slug, g \in Grant : ~Gains(s, g)
Issued(s) ==
    /\ issued' = issued + 1
    /\ \A g \in 1..issued : realmOf'[g] = realmOf[g]
    /\ \A t \in Slug, g \in Grant : Gains(t, g) => t = s /\ g = issued'
Flow == Keeps \/ \E s \in Slug : Issued(s)

\* A call that ends, or a server that closes, gives no slug a grant.
LEMMA EndKeeps ==
    ASSUME Shape, NEW gone \in SUBSET Call, End(gone)
    PROVE  \A c \in Call, s \in Slug, g \in Grant :
              at'[c] = s /\ Carries(c, g)' => Has(s, g)
    BY DEF Shape, TypeOK, End, Reset, NoEntries, Carries, Has

LEMMA DeafKeeps ==
    ASSUME Shape, NEW gone \in SUBSET Attempt, StopListening(gone)
    PROVE  \A c \in Call, s \in Slug, g \in Grant :
              at'[c] = s /\ Carries(c, g)' => Has(s, g)
    BY DEF Shape, TypeOK, StopListening, Deaf, Reset, Carries, Has

\* Outside the locks a call has no grant.
LEMMA OutsideCarriesNothing ==
    ASSUME Shape, NEW c \in Call, pc[c] \notin Inside
    PROVE  \A g \in Grant : ~Carries(c, g)
<1>1. cur[c] = None /\ prev[c] = None /\ book[c] = NoEntries
    BY DEF Shape, Phases
<1> QED
    BY <1>1 DEF Carries, NoEntries

\* Only the actions that issue a grant bring one to a slug.
LEMMA FlowStep ==
    ASSUME Shape, Shape', [Next]_vars PROVE Flow
<1>0. TypeOK /\ Phases /\ TypeOK' /\ Phases'
    BY DEF Shape
<1>1. CASE CancelAuthorization
  <2>1. \A t \in Slug, g \in Grant : Stores(t, g)' => Has(t, g)
      BY <1>1, <1>0 DEF CancelAuthorization, Stores, Has, Carries, StopListening, Owner,
              PortWithout, Reset, Deaf, TypeOK, Phases
  <2>2. \A d \in Call, t \in Slug, g \in Grant : at'[d] = t /\ Carries(d, g)' => Has(t, g)
      BY <1>1, <1>0, DeafKeeps DEF CancelAuthorization, Owner, Waiting, TypeOK, Pending
  <2> QED
      BY <1>1, <2>1, <2>2 DEF CancelAuthorization, StopListening, Flow, Keeps, Gains,
              Has
<1>2. CASE Expire
  <2>1. \A t \in Slug, g \in Grant : Stores(t, g)' => Has(t, g)
      BY <1>2, <1>0 DEF Expire, Stores, Has, Carries, StopListening, Owner, PortWithout,
              Reset, Deaf, TypeOK, Phases
  <2>2. \A d \in Call, t \in Slug, g \in Grant : at'[d] = t /\ Carries(d, g)' => Has(t, g)
      BY <1>2, <1>0, DeafKeeps DEF Expire, Owner, Waiting, TypeOK, Pending
  <2> QED
      BY <1>2, <2>1, <2>2 DEF Expire, StopListening, Flow, Keeps, Gains, Has
<1>3. CASE ServerDies
  <2>1. \A t \in Slug, g \in Grant : Stores(t, g)' => Has(t, g)
      BY <1>3, <1>0 DEF ServerDies, Stores, Has, Carries, End, Reset, NoEntries,
              Without, PortWithout, Grant, TypeOK, Phases
  <2>2. \A d \in Call, t \in Slug, g \in Grant : at'[d] = t /\ Carries(d, g)' => Has(t, g)
      BY <1>3, EndKeeps DEF ServerDies
  <2> QED
      BY <1>3, <2>1, <2>2 DEF ServerDies, Flow, Keeps, Gains, Has
<1>4. ASSUME NEW a \in Attempt, NEW s \in Slug, BeginAuthorization(a, s)
     PROVE  Flow
  <2>1. \A t \in Slug, g \in Grant : Stores(t, g)' => Has(t, g)
      BY <1>4, <1>0 DEF BeginAuthorization, Stores, Has, Carries, Deaf, Owner,
              PortWithout, Reset, TypeOK, Phases
  <2>2. \A d \in Call, t \in Slug, g \in Grant : at'[d] = t /\ Carries(d, g)' => Has(t, g)
    <3>1. \A g \in Grant : ~Carries(a, g)
      <4>1. pc[a] \notin Inside
          BY <1>4 DEF BeginAuthorization, Deaf, Inside, Persisting, Revoking, Removing
      <4> QED
          BY <4>1, OutsideCarriesNothing
    <3>2. \A d \in Call : d # a => at'[d] \in {None, at[d]}
        BY <1>4, <1>0 DEF BeginAuthorization, Reset, TypeOK
    <3> QED
        BY <1>4, <1>0, <3>1, <3>2 DEF BeginAuthorization, Carries, Has, TypeOK
  <2> QED
      BY <1>4, <2>1, <2>2 DEF BeginAuthorization, Flow, Keeps, Gains, Has
<1>5. ASSUME NEW a \in Attempt, BadCallback(a)
     PROVE  Flow
  <2>1. \A t \in Slug, g \in Grant : Stores(t, g)' => Has(t, g)
      BY <1>5, <1>0 DEF BadCallback, Stores, Has, Carries, StopListening, PortWithout,
              Reset, Deaf, TypeOK, Phases
  <2>2. \A d \in Call, t \in Slug, g \in Grant : at'[d] = t /\ Carries(d, g)' => Has(t, g)
      BY <1>5, <1>0, DeafKeeps DEF BadCallback, Owner, Waiting, TypeOK, Pending
  <2> QED
      BY <1>5, <2>1, <2>2 DEF BadCallback, StopListening, Flow, Keeps, Gains, Has
<1>6. ASSUME NEW a \in Attempt, Callback(a)
     PROVE  Flow
  <2>1. \A t \in Slug, g \in Grant : Stores(t, g)' => Has(t, g)
      BY <1>6, <1>0 DEF Callback, Stores, Has, Carries, Goto, TypeOK, Phases
  <2>2. \A d \in Call, t \in Slug, g \in Grant : at'[d] = t /\ Carries(d, g)' => Has(t, g)
      BY <1>6, <1>0 DEF Callback, Carries, Has, Goto, TypeOK, Phases
  <2> QED
      BY <1>6, <2>1, <2>2 DEF Callback, Flow, Keeps, Gains, Has
<1>7. ASSUME NEW a \in Attempt, Exchange(a)
     PROVE  Flow
  <2>1. \A t \in Slug, g \in Grant : Stores(t, g)' => Has(t, g) \/ (t = at[a] /\ g = issued')
      BY <1>7, <1>0 DEF Exchange, Stores, Has, TakeSlugLock, Issue, Goto, TypeOK
  <2>2. \A c \in Call, t \in Slug, g \in Grant :
           at'[c] = t /\ Carries(c, g)' => Has(t, g) \/ (t = at[a] /\ g = issued')
      BY <1>7, <1>0 DEF Exchange, Carries, Has, TakeSlugLock, Issue, Goto, TypeOK
  <2>3. /\ issued' = issued + 1
        /\ \A g \in 1..issued : realmOf'[g] = realmOf[g]
        /\ at[a] \in Slug
      BY <1>7, <1>0 DEF Exchange, Issue, TypeOK, Phases
  <2> QED
      BY <2>1, <2>2, <2>3 DEF Flow, Issued, Gains, Has
<1>8. ASSUME NEW c \in Call, Fail(c)
     PROVE  Flow
  <2>1. \A t \in Slug, g \in Grant : Stores(t, g)' => Has(t, g)
      BY <1>8, <1>0 DEF Fail, Stores, Has, Carries, End, Reset, NoEntries, Without,
              PortWithout, Grant, TypeOK, Phases
  <2>2. \A d \in Call, t \in Slug, g \in Grant : at'[d] = t /\ Carries(d, g)' => Has(t, g)
      BY <1>8, EndKeeps DEF Fail
  <2> QED
      BY <1>8, <2>1, <2>2 DEF Fail, Flow, Keeps, Gains, Has
<1>9. ASSUME NEW c \in Call, LockRealm(c)
     PROVE  Flow
  <2>1. \A t \in Slug, g \in Grant : Stores(t, g)' => Has(t, g)
      BY <1>9, <1>0 DEF LockRealm, Stores, Has, Carries, TypeOK, Phases
  <2>2. \A d \in Call, t \in Slug, g \in Grant : at'[d] = t /\ Carries(d, g)' => Has(t, g)
      BY <1>9, <1>0 DEF LockRealm, Carries, Has, TypeOK, Phases
  <2> QED
      BY <1>9, <2>1, <2>2 DEF LockRealm, Flow, Keeps, Gains, Has
<1>10. ASSUME NEW c \in Call, Vet(c)
     PROVE  Flow
  <2>1. \A t \in Slug, g \in Grant : Stores(t, g)' => Has(t, g)
      BY <1>10, <1>0 DEF Vet, Stores, Has, Carries, Goto, TypeOK, Phases
  <2>2. \A d \in Call, t \in Slug, g \in Grant : at'[d] = t /\ Carries(d, g)' => Has(t, g)
      BY <1>10, <1>0 DEF Vet, Carries, Has, Goto, Stores, TypeOK, Phases
  <2> QED
      BY <1>10, <2>1, <2>2 DEF Vet, Flow, Keeps, Gains, Has
<1>11. ASSUME NEW c \in Call, Write(c)
     PROVE  Flow
  <2>1. \A t \in Slug, g \in Grant : Stores(t, g)' => Has(t, g)
      BY <1>11, <1>0 DEF Write, Stores, Has, Carries, Goto, TypeOK, Phases
  <2>2. \A d \in Call, t \in Slug, g \in Grant : at'[d] = t /\ Carries(d, g)' => Has(t, g)
      BY <1>11, <1>0 DEF Write, Carries, Has, Goto, TypeOK, Phases
  <2> QED
      BY <1>11, <2>1, <2>2 DEF Write, Flow, Keeps, Gains, Has
<1>12. ASSUME NEW c \in Call, Connected(c)
     PROVE  Flow
  <2>1. \A t \in Slug, g \in Grant : Stores(t, g)' => Has(t, g)
      BY <1>12, <1>0 DEF Connected, Stores, Has, Carries, Verified, End, Reset,
              NoEntries, Without, PortWithout, Grant, TypeOK, Phases
  <2>2. \A d \in Call, t \in Slug, g \in Grant : at'[d] = t /\ Carries(d, g)' => Has(t, g)
      BY <1>12, EndKeeps DEF Connected
  <2> QED
      BY <1>12, <2>1, <2>2 DEF Connected, Flow, Keeps, Gains, Has
<1>13. ASSUME NEW c \in Call, RollBack(c)
     PROVE  Flow
  <2>1. \A t \in Slug, g \in Grant : Stores(t, g)' => Has(t, g)
      BY <1>13, <1>0 DEF RollBack, Stores, Has, Carries, End, Reset, NoEntries, Without,
              PortWithout, Grant, TypeOK, Phases
  <2>2. \A d \in Call, t \in Slug, g \in Grant : at'[d] = t /\ Carries(d, g)' => Has(t, g)
      BY <1>13, EndKeeps DEF RollBack
  <2> QED
      BY <1>13, <2>1, <2>2 DEF RollBack, Flow, Keeps, Gains, Has
<1>14. ASSUME NEW p \in Proc, NEW s \in Slug, RunAuthorizationFlow(p, s)
     PROVE  Flow
  <2>1. \A t \in Slug, g \in Grant : Stores(t, g)' => Has(t, g) \/ (t = s /\ g = issued')
      BY <1>14, <1>0 DEF RunAuthorizationFlow, Stores, Has, Begin, Issue, TakeSlugLock,
              Goto, TypeOK
  <2>2. \A c \in Call, t \in Slug, g \in Grant :
           at'[c] = t /\ Carries(c, g)' => Has(t, g) \/ (t = s /\ g = issued')
    <3>1. /\ p \in Call /\ s # None /\ \A g \in Grant : ~Carries(p, g)
          /\ \A d \in Call : at'[d] = IF d = p THEN s ELSE at[d]
      <4>1. pc[p] \notin Inside /\ at' = [at EXCEPT ![p] = s]
          BY <1>14 DEF RunAuthorizationFlow, Begin, Inside, Persisting, Revoking, Removing
      <4> QED
          BY <1>0, <4>1, OutsideCarriesNothing DEF TypeOK
    <3>2. cur' = [cur EXCEPT ![p] = issued'] /\ UNCHANGED <<prev, book>>
        BY <1>14 DEF RunAuthorizationFlow, Issue
    <3> QED
        BY <1>0, <3>1, <3>2 DEF Carries, Has, TypeOK
  <2>3. /\ issued' = issued + 1
        /\ \A g \in 1..issued : realmOf'[g] = realmOf[g]
        /\ s \in Slug
      BY <1>14, <1>0 DEF RunAuthorizationFlow, Begin, Issue, TypeOK, Phases
  <2> QED
      BY <2>1, <2>2, <2>3 DEF Flow, Issued, Gains, Has
<1>15. ASSUME NEW p \in Proc, NEW s \in Slug, ImportRefreshToken(p, s)
     PROVE  Flow
  <2>1. \A t \in Slug, g \in Grant : Stores(t, g)' => Has(t, g) \/ (t = s /\ g = issued')
      BY <1>15, <1>0 DEF ImportRefreshToken, Stores, Has, Begin, Issue, TakeSlugLock,
              Goto, TypeOK
  <2>2. \A c \in Call, t \in Slug, g \in Grant :
           at'[c] = t /\ Carries(c, g)' => Has(t, g) \/ (t = s /\ g = issued')
    <3>1. /\ p \in Call /\ s # None /\ \A g \in Grant : ~Carries(p, g)
          /\ \A d \in Call : at'[d] = IF d = p THEN s ELSE at[d]
      <4>1. pc[p] \notin Inside /\ at' = [at EXCEPT ![p] = s]
          BY <1>15 DEF ImportRefreshToken, Begin, Inside, Persisting, Revoking, Removing
      <4> QED
          BY <1>0, <4>1, OutsideCarriesNothing DEF TypeOK
    <3>2. cur' = [cur EXCEPT ![p] = issued'] /\ UNCHANGED <<prev, book>>
        BY <1>15 DEF ImportRefreshToken, Issue
    <3> QED
        BY <1>0, <3>1, <3>2 DEF Carries, Has, TypeOK
  <2>3. /\ issued' = issued + 1
        /\ \A g \in 1..issued : realmOf'[g] = realmOf[g]
        /\ s \in Slug
      BY <1>15, <1>0 DEF ImportRefreshToken, Begin, Issue, TypeOK, Phases
  <2> QED
      BY <2>1, <2>2, <2>3 DEF Flow, Issued, Gains, Has
<1>16. ASSUME NEW p \in Proc, NEW s \in Slug, RecoverStagedTokenImport(p, s)
     PROVE  Flow
  <2>1. \A t \in Slug, g \in Grant : Stores(t, g)' => Has(t, g)
      BY <1>16, <1>0 DEF RecoverStagedTokenImport, Stores, Has, Carries, Begin,
              TakeSlugLock, Goto, TypeOK, Phases
  <2>2. \A d \in Call, t \in Slug, g \in Grant : at'[d] = t /\ Carries(d, g)' => Has(t, g)
    <3>1. /\ p \in Call /\ s # None /\ \A g \in Grant : ~Carries(p, g)
          /\ \A d \in Call : at'[d] = IF d = p THEN s ELSE at[d]
      <4>1. pc[p] \notin Inside /\ at' = [at EXCEPT ![p] = s]
          BY <1>16 DEF RecoverStagedTokenImport, Begin, Inside, Persisting, Revoking,
                  Removing
      <4> QED
          BY <1>0, <4>1, OutsideCarriesNothing DEF TypeOK
    <3>2. cur' = [cur EXCEPT ![p] = stage[s]] /\ UNCHANGED <<prev, book>>
        BY <1>16 DEF RecoverStagedTokenImport
    <3> QED
        BY <1>0, <3>1, <3>2 DEF Carries, Has, Stores, TypeOK
  <2> QED
      BY <1>16, <2>1, <2>2 DEF RecoverStagedTokenImport, Begin, Flow, Keeps, Gains, Has
<1>17. ASSUME NEW p \in Proc, NEW s \in Slug, DisconnectCompany(p, s)
     PROVE  Flow
  <2>1. \A t \in Slug, g \in Grant : Stores(t, g)' => Has(t, g)
      BY <1>17, <1>0 DEF DisconnectCompany, Stores, Has, Carries, Begin, Entries,
              TakeSlugLock, Goto, Grant, TypeOK, Phases
  <2>2. \A d \in Call, t \in Slug, g \in Grant : at'[d] = t /\ Carries(d, g)' => Has(t, g)
    <3>1. /\ p \in Call /\ s # None /\ \A g \in Grant : ~Carries(p, g)
          /\ \A d \in Call : at'[d] = IF d = p THEN s ELSE at[d]
      <4>1. pc[p] \notin Inside /\ at' = [at EXCEPT ![p] = s]
          BY <1>17 DEF DisconnectCompany, Begin, Inside, Persisting, Revoking, Removing
      <4> QED
          BY <1>0, <4>1, OutsideCarriesNothing DEF TypeOK
    <3>2. book' = [book EXCEPT ![p] = Entries(s)] /\ UNCHANGED <<cur, prev>>
        BY <1>17 DEF DisconnectCompany
    <3>3. \A g \in Grant : Entries(s)[g] # "absent" => Stores(s, g)
        BY DEF Entries, Stores
    <3> QED
        BY <1>0, <3>1, <3>2, <3>3 DEF Carries, Has, TypeOK
  <2> QED
      BY <1>17, <2>1, <2>2 DEF DisconnectCompany, Begin, Entries, Grant, Flow, Keeps,
              Gains, Has
<1>18. ASSUME NEW p \in Proc, VerifyImport(p)
     PROVE  Flow
  <2>1. \A t \in Slug, g \in Grant : Stores(t, g)' => Has(t, g)
      BY <1>18, <1>0 DEF VerifyImport, Stores, Has, Carries, Verified, Without, Goto,
              TypeOK, Phases
  <2>2. \A d \in Call, t \in Slug, g \in Grant : at'[d] = t /\ Carries(d, g)' => Has(t, g)
      BY <1>18, <1>0 DEF VerifyImport, Carries, Has, Verified, Without, Goto, TypeOK,
              Phases
  <2> QED
      BY <1>18, <2>1, <2>2 DEF VerifyImport, Verified, Flow, Keeps, Gains, Has
<1>19. ASSUME NEW p \in Proc, Unstage(p)
     PROVE  Flow
  <2>1. \A t \in Slug, g \in Grant : Stores(t, g)' => Has(t, g)
      BY <1>19, <1>0 DEF Unstage, Stores, Has, Carries, End, Reset, NoEntries, Without,
              PortWithout, Grant, TypeOK, Phases
  <2>2. \A d \in Call, t \in Slug, g \in Grant : at'[d] = t /\ Carries(d, g)' => Has(t, g)
      BY <1>19, EndKeeps DEF Unstage
  <2> QED
      BY <1>19, <2>1, <2>2 DEF Unstage, Flow, Keeps, Gains, Has
<1>20. ASSUME NEW p \in Proc, CheckIdentities(p)
     PROVE  Flow
  <2>1. \A t \in Slug, g \in Grant : Stores(t, g)' => Has(t, g)
      BY <1>20, <1>0 DEF CheckIdentities, Stores, Has, Carries, Goto, TypeOK, Phases
  <2>2. \A d \in Call, t \in Slug, g \in Grant : at'[d] = t /\ Carries(d, g)' => Has(t, g)
      BY <1>20, <1>0 DEF CheckIdentities, Carries, Has, Goto, TypeOK, Phases
  <2> QED
      BY <1>20, <2>1, <2>2 DEF CheckIdentities, Flow, Keeps, Gains, Has
<1>21. ASSUME NEW p \in Proc, MarkAttempt(p)
     PROVE  Flow
  <2>1. \A t \in Slug, g \in Grant : Stores(t, g)' => Has(t, g)
      BY <1>21, <1>0 DEF MarkAttempt, Stores, Has, Carries, Grant, Revocable, Goto,
              TypeOK, Phases
  <2>2. \A d \in Call, t \in Slug, g \in Grant : at'[d] = t /\ Carries(d, g)' => Has(t, g)
      BY <1>21, <1>0 DEF MarkAttempt, Carries, Has, Grant, Revocable, Goto, TypeOK,
              Phases
  <2> QED
      BY <1>21, <2>1, <2>2 DEF MarkAttempt, Grant, Revocable, Flow, Keeps, Gains, Has
<1>22. ASSUME NEW p \in Proc, LocalFailure(p)
     PROVE  Flow
  <2>1. \A t \in Slug, g \in Grant : Stores(t, g)' => Has(t, g)
      BY <1>22, <1>0 DEF LocalFailure, Stores, Has, Carries, Grant, Revocable, TypeOK,
              Phases
  <2>2. \A d \in Call, t \in Slug, g \in Grant : at'[d] = t /\ Carries(d, g)' => Has(t, g)
      BY <1>22, <1>0 DEF LocalFailure, Carries, Has, Grant, Revocable, TypeOK, Phases
  <2> QED
      BY <1>22, <2>1, <2>2 DEF LocalFailure, Grant, Revocable, Flow, Keeps, Gains, Has
<1>23. ASSUME NEW p \in Proc, PostRevocation(p)
     PROVE  Flow
  <2>1. \A t \in Slug, g \in Grant : Stores(t, g)' => Has(t, g)
      BY <1>23, <1>0 DEF PostRevocation, Stores, Has, Carries, Goto, TypeOK, Phases
  <2>2. \A d \in Call, t \in Slug, g \in Grant : at'[d] = t /\ Carries(d, g)' => Has(t, g)
      BY <1>23, <1>0 DEF PostRevocation, Carries, Has, Goto, TypeOK, Phases
  <2> QED
      BY <1>23, <2>1, <2>2 DEF PostRevocation, Flow, Keeps, Gains, Has
<1>24. ASSUME NEW p \in Proc, RevocationConfirmed(p)
     PROVE  Flow
  <2>1. \A t \in Slug, g \in Grant : Stores(t, g)' => Has(t, g)
    <3>1. at[p] \in Slug /\ cur[p] \in Grant /\ book[p][cur[p]] # "absent" /\ p \in Call
        BY <1>24, <1>0 DEF RevocationConfirmed, RecordOutcome, TypeOK, Phases
    <3>2. \A g \in Grant : book'[p][g] # "absent" => book[p][g] # "absent"
        BY <1>24, <1>0, <3>1 DEF RevocationConfirmed, RecordOutcome, TypeOK, Receipt
    <3>3. \A t \in Slug : receipt'[t] = receipt[t] \/ (t = at[p] /\ receipt'[t] = book'[p])
        BY <1>24, <1>0 DEF RevocationConfirmed, RecordOutcome, TypeOK
    <3> QED
        BY <1>24, <3>1, <3>2, <3>3 DEF RevocationConfirmed, RecordOutcome, Stores,
                Carries, Has
  <2>2. \A d \in Call, t \in Slug, g \in Grant : at'[d] = t /\ Carries(d, g)' => Has(t, g)
      BY <1>24, <1>0 DEF RevocationConfirmed, Carries, Has, RecordOutcome, Goto, TypeOK,
              Phases
  <2> QED
      BY <1>24, <2>1, <2>2 DEF RevocationConfirmed, RecordOutcome, Flow, Keeps, Gains,
              Has
<1>25. ASSUME NEW p \in Proc, RevocationLost(p)
     PROVE  Flow
  <2>1. \A t \in Slug, g \in Grant : Stores(t, g)' => Has(t, g)
    <3>1. at[p] \in Slug /\ cur[p] \in Grant /\ book[p][cur[p]] # "absent" /\ p \in Call
        BY <1>25, <1>0 DEF RevocationLost, RecordOutcome, TypeOK, Phases
    <3>2. \A g \in Grant : book'[p][g] # "absent" => book[p][g] # "absent"
        BY <1>25, <1>0, <3>1 DEF RevocationLost, RecordOutcome, TypeOK, Receipt
    <3>3. \A t \in Slug : receipt'[t] = receipt[t] \/ (t = at[p] /\ receipt'[t] = book'[p])
        BY <1>25, <1>0 DEF RevocationLost, RecordOutcome, TypeOK
    <3> QED
        BY <1>25, <3>1, <3>2, <3>3 DEF RevocationLost, RecordOutcome, Stores, Carries, Has
  <2>2. \A d \in Call, t \in Slug, g \in Grant : at'[d] = t /\ Carries(d, g)' => Has(t, g)
      BY <1>25, <1>0 DEF RevocationLost, Carries, Has, RecordOutcome, Goto, TypeOK,
              Phases
  <2> QED
      BY <1>25, <2>1, <2>2 DEF RevocationLost, RecordOutcome, Flow, Keeps, Gains, Has
<1>26. ASSUME NEW p \in Proc, RevocationRefused(p)
     PROVE  Flow
  <2>1. \A t \in Slug, g \in Grant : Stores(t, g)' => Has(t, g)
    <3>1. at[p] \in Slug /\ cur[p] \in Grant /\ book[p][cur[p]] # "absent" /\ p \in Call
        BY <1>26, <1>0 DEF RevocationRefused, RecordOutcome, TypeOK, Phases
    <3>2. \A g \in Grant : book'[p][g] # "absent" => book[p][g] # "absent"
        BY <1>26, <1>0, <3>1 DEF RevocationRefused, RecordOutcome, TypeOK, Receipt
    <3>3. \A t \in Slug : receipt'[t] = receipt[t] \/ (t = at[p] /\ receipt'[t] = book'[p])
        BY <1>26, <1>0 DEF RevocationRefused, RecordOutcome, TypeOK
    <3> QED
        BY <1>26, <3>1, <3>2, <3>3 DEF RevocationRefused, RecordOutcome, Stores, Carries,
                Has
  <2>2. \A d \in Call, t \in Slug, g \in Grant : at'[d] = t /\ Carries(d, g)' => Has(t, g)
      BY <1>26, <1>0 DEF RevocationRefused, Carries, Has, RecordOutcome, Goto, TypeOK,
              Phases
  <2> QED
      BY <1>26, <2>1, <2>2 DEF RevocationRefused, RecordOutcome, Flow, Keeps, Gains, Has
<1>27. ASSUME NEW p \in Proc, UnlinkFile(p)
     PROVE  Flow
  <2>1. \A t \in Slug, g \in Grant : Stores(t, g)' => Has(t, g)
      BY <1>27, <1>0 DEF UnlinkFile, Stores, Has, Carries, Goto, TypeOK, Phases
  <2>2. \A d \in Call, t \in Slug, g \in Grant : at'[d] = t /\ Carries(d, g)' => Has(t, g)
      BY <1>27, <1>0 DEF UnlinkFile, Carries, Has, Goto, TypeOK, Phases
  <2> QED
      BY <1>27, <2>1, <2>2 DEF UnlinkFile, Flow, Keeps, Gains, Has
<1>28. ASSUME NEW p \in Proc, UnlinkStage(p)
     PROVE  Flow
  <2>1. \A t \in Slug, g \in Grant : Stores(t, g)' => Has(t, g)
      BY <1>28, <1>0 DEF UnlinkStage, Stores, Has, Carries, Goto, TypeOK, Phases
  <2>2. \A d \in Call, t \in Slug, g \in Grant : at'[d] = t /\ Carries(d, g)' => Has(t, g)
      BY <1>28, <1>0 DEF UnlinkStage, Carries, Has, Goto, TypeOK, Phases
  <2> QED
      BY <1>28, <2>1, <2>2 DEF UnlinkStage, Flow, Keeps, Gains, Has
<1>29. ASSUME NEW p \in Proc, UnlinkReceipt(p)
     PROVE  Flow
  <2>1. \A t \in Slug, g \in Grant : Stores(t, g)' => Has(t, g)
      BY <1>29, <1>0 DEF UnlinkReceipt, Stores, Has, Carries, End, Reset, NoEntries,
              Without, PortWithout, Grant, TypeOK, Phases
  <2>2. \A d \in Call, t \in Slug, g \in Grant : at'[d] = t /\ Carries(d, g)' => Has(t, g)
      BY <1>29, EndKeeps DEF UnlinkReceipt
  <2> QED
      BY <1>29, <2>1, <2>2 DEF UnlinkReceipt, Flow, Keeps, Gains, Has
<1>30. CASE UNCHANGED vars
    BY <1>30 DEF vars, Flow, Keeps, Gains, Has, Stores, Carries
<1> QED
    BY <1>1, <1>2, <1>3, <1>4, <1>5, <1>6, <1>7, <1>8, <1>9, <1>10, <1>11, <1>12, <1>13,
            <1>14, <1>15, <1>16, <1>17, <1>18, <1>19, <1>20, <1>21, <1>22, <1>23, <1>24,
            <1>25, <1>26, <1>27, <1>28, <1>29, <1>30 DEF
            Next, Listener, Start, Authorize, Maintain

\* So a grant stays issued, and stays with one slug.
LEMMA HomesStep ==
    ASSUME Shape, Shape', Homes, [Next]_vars PROVE Homes'
<1>1. Flow
    BY FlowStep
<1>2. /\ issued \in Nat /\ revoking \subseteq Grant
      /\ \A s \in Slug, g \in Grant : Has(s, g) => g <= issued
      /\ \A g \in revoking : g <= issued
      /\ \A s, t \in Slug, g \in Grant : Has(s, g) /\ Has(t, g) => s = t
    BY DEF Shape, TypeOK, Homes
<1>3. \A s \in Slug, g \in Grant : Has(s, g)' => g <= issued'
    BY <1>1, <1>2 DEF Flow, Keeps, Issued, Gains, Grant
<1>4. \A s, t \in Slug, g \in Grant : Has(s, g)' /\ Has(t, g)' => s = t
    BY <1>1, <1>2 DEF Flow, Keeps, Issued, Gains, Grant
<1>5. \A g \in revoking' : g <= issued'
  <2>1. \A g \in revoking' : g \in revoking \/ \E p \in Proc : PostRevocation(p) /\ g = cur[p]
      BY DEF Next, Listener, Start, Authorize, Maintain, CancelAuthorization, Expire,
              ServerDies, BeginAuthorization, BadCallback, Callback, Exchange, Fail,
              LockRealm, Vet, Write, Connected, RollBack, RunAuthorizationFlow,
              ImportRefreshToken, RecoverStagedTokenImport, DisconnectCompany,
              VerifyImport, Unstage, CheckIdentities, MarkAttempt, LocalFailure,
              PostRevocation, RevocationConfirmed, RevocationLost, RevocationRefused,
              UnlinkFile, UnlinkStage, UnlinkReceipt, RecordOutcome, Issue, vars
  <2>2. ASSUME NEW p \in Proc, PostRevocation(p) PROVE cur[p] \in Grant /\ cur[p] <= issued
    <3>1. at[p] \in Slug /\ cur[p] \in Grant /\ p \in Call
        BY <2>2 DEF PostRevocation, Shape, TypeOK, Phases, Inside, Revoking
    <3> QED
        BY <3>1, <1>2 DEF Has, Carries
  <2>3. issued <= issued'
      BY <1>1, <1>2 DEF Flow, Keeps, Issued
  <2>4. issued' \in Nat
      BY DEF Shape, TypeOK
  <2>5. \A g \in revoking' : g \in Nat /\ g <= issued
    <3>1. \A g \in Grant : g \in Nat
        BY DEF Grant
    <3>2. \A g \in revoking : g \in Grant /\ g <= issued
        BY <1>2
    <3> QED
        BY <2>1, <2>2, <3>1, <3>2
  <2> QED
      BY <1>2, <2>3, <2>4, <2>5
<1> QED
    BY <1>3, <1>4, <1>5 DEF Homes

-----------------------------------------------------------------------------
\* A call that saves a grant, or revokes those in its journal, guards their companies.
Guards(c, g) ==
    \/ pc[c] \in {"write", "verify"} /\ g = cur[c]
    \/ pc[c] \in Revoking /\ book[c][g] # "absent"

\* A guarded company is locked and nobody else's; a slug keeps its company.
Alone ==
    \A c \in Call :
        /\ \A g \in Grant :
              Guards(c, g) => realmLock[realmOf[g]] = c /\ ~Elsewhere(at[c], realmOf[g])
        /\ pc[c] \in {"write", "verify"} /\ prev[c] # None => realmOf[prev[c]] = realmOf[cur[c]]

LEMMA InitAlone == Init => Alone
    BY DEF Init, Alone, Guards, Revoking

\* What is guarded is a grant the slug has, of a known company.
LEMMA GuardsHas ==
    ASSUME Shape, Homes, NEW c \in Call, NEW g \in Grant, Guards(c, g)
    PROVE  at[c] \in Slug /\ Has(at[c], g) /\ g <= issued /\ realmOf[g] \in Realm
<1>1. at[c] \in Slug /\ Has(at[c], g)
    BY DEF Shape, TypeOK, Phases, Guards, Has, Carries, Revoking
<1>2. g <= issued
    BY <1>1 DEF Homes
<1> QED
    BY <1>1, <1>2 DEF Shape, TypeOK

\* Every guard of the next state was or is set up in this one.
Secure ==
    \A c \in Call, g \in Grant :
        Guards(c, g)' =>
            /\ at'[c] = at[c] /\ at[c] \in Slug /\ Has(at[c], g)
            /\ realmLock[realmOf[g]] = c /\ realmLock'[realmOf[g]] = c
            /\ ~Elsewhere(at[c], realmOf[g])

\* A call that ends leaves the guards of the others alone.
LEMMA EndSecure ==
    ASSUME Shape, Homes, Alone, NEW gone \in SUBSET Call, End(gone)
    PROVE  Secure
<1> SUFFICES ASSUME NEW c \in Call, NEW g \in Grant, Guards(c, g)'
             PROVE  /\ at'[c] = at[c] /\ at[c] \in Slug /\ Has(at[c], g)
                    /\ realmLock[realmOf[g]] = c /\ realmLock'[realmOf[g]] = c
                    /\ ~Elsewhere(at[c], realmOf[g])
    BY DEF Secure
<1>1. c \notin gone
    BY DEF End, Reset, Guards, Revoking, Shape, TypeOK
<1>2. Guards(c, g) /\ at'[c] = at[c]
    BY <1>1 DEF End, Reset, Guards, Shape, TypeOK
<1>3. /\ at[c] \in Slug /\ Has(at[c], g) /\ realmOf[g] \in Realm
      /\ realmLock[realmOf[g]] = c /\ ~Elsewhere(at[c], realmOf[g])
    BY <1>2, GuardsHas DEF Alone
<1>4. realmLock'[realmOf[g]] = c
    BY <1>1, <1>3 DEF End, Without, Shape, TypeOK
<1> QED
    BY <1>2, <1>3, <1>4

\* A token file changes only in the hands of the guard of its company.
Saved ==
    \A t \in Slug :
        \/ file'[t] \in {file[t], None}
        \/ \E d \in Call :
              /\ at[d] = t /\ cur[d] \in Grant /\ Guards(d, cur[d])
              /\ Has(t, file'[t]) /\ realmOf[file'[t]] = realmOf[cur[d]]

\* What a save remembers for its rollback is a grant of the same company.
Prior ==
    \A c \in Call :
        pc'[c] \in {"write", "verify"} /\ prev'[c] # None =>
            Has(at[c], prev'[c]) /\ realmOf[prev'[c]] = realmOf[cur'[c]]

\* A guard is set up by Vet and CheckIdentities, under the lock.
LEMMA SecureStep ==
    ASSUME Shape, Shape', Homes, Alone, [Next]_vars PROVE Secure
<1>0. TypeOK /\ Phases /\ TypeOK' /\ Phases'
    BY DEF Shape
<1>00. \A c \in Call, g \in Grant :
         Guards(c, g) => at[c] \in Slug /\ Has(at[c], g) /\ realmOf[g] \in Realm
    BY GuardsHas
<1>1. CASE CancelAuthorization
    BY <1>1, <1>0, <1>00 DEF CancelAuthorization, Secure, Guards, Alone, TypeOK, Phases,
            StopListening, Owner, Grant, Revoking, Inside, NoEntries, Removing,
            PortWithout, Reset, Deaf, Persisting
<1>2. CASE Expire
    BY <1>2, <1>0, <1>00 DEF Expire, Secure, Guards, Alone, TypeOK, Phases,
            StopListening, Owner, Grant, Revoking, Inside, NoEntries, Removing,
            PortWithout, Reset, Deaf, Persisting
<1>3. CASE ServerDies
    BY <1>3, EndSecure DEF ServerDies
<1>4. ASSUME NEW a \in Attempt, NEW s \in Slug, BeginAuthorization(a, s)
     PROVE  Secure
    BY <1>4, <1>0, <1>00 DEF BeginAuthorization, Secure, Guards, Alone, TypeOK, Phases,
            Deaf, Owner, PortWithout, Reset, Grant, Revoking, Inside, NoEntries,
            Removing, Persisting
<1>5. ASSUME NEW a \in Attempt, BadCallback(a)
     PROVE  Secure
    BY <1>5, <1>0, <1>00 DEF BadCallback, Secure, Guards, Alone, TypeOK, Phases,
            StopListening, Grant, Revoking, Inside, NoEntries, Removing, PortWithout,
            Reset, Deaf, Persisting
<1>6. ASSUME NEW a \in Attempt, Callback(a)
     PROVE  Secure
    BY <1>6, <1>0, <1>00 DEF Callback, Secure, Guards, Alone, TypeOK, Phases, Goto,
            Grant, Revoking, Inside, NoEntries, Removing, Persisting
<1>7. ASSUME NEW a \in Attempt, Exchange(a)
     PROVE  Secure
    BY <1>7, <1>0, <1>00 DEF Exchange, Secure, Guards, Alone, TypeOK, Phases,
            TakeSlugLock, Issue, Goto, Grant, Revoking, Inside, NoEntries, Removing,
            Persisting
<1>8. ASSUME NEW c \in Call, Fail(c)
     PROVE  Secure
    BY <1>8, EndSecure DEF Fail
<1>9. ASSUME NEW c \in Call, LockRealm(c)
     PROVE  Secure
    BY <1>9, <1>0, <1>00 DEF LockRealm, Secure, Guards, Alone, TypeOK, Phases, Missing,
            Grant, Revoking, Inside, NoEntries, Removing, Wanted, Persisting, Listed
<1>10. ASSUME NEW c \in Call, Vet(c)
     PROVE  Secure
  <2>1. \A d \in Call, g \in Grant : Guards(d, g)' => Guards(d, g) \/ (d = c /\ g = cur[c])
      BY <1>10, <1>0 DEF Vet, Guards, Goto, Revoking, TypeOK
  <2>2. \A g \in Grant :
            g = cur[c] =>
               Has(at[c], g) /\ realmLock[realmOf[g]] = c /\ ~Elsewhere(at[c], realmOf[g])
      BY <1>10, <1>0 DEF Vet, Missing, Wanted, Has, Carries, TypeOK, Phases
  <2> QED
      BY <1>10, <1>0, <1>00, <2>1, <2>2 DEF Vet, Secure, Alone, Inside, Persisting,
              Revoking, Removing, Phases
<1>11. ASSUME NEW c \in Call, Write(c)
     PROVE  Secure
    BY <1>11, <1>0, <1>00 DEF Write, Secure, Guards, Alone, TypeOK, Phases, Goto, Grant,
            Revoking, Inside, NoEntries, Removing, Persisting
<1>12. ASSUME NEW c \in Call, Connected(c)
     PROVE  Secure
    BY <1>12, EndSecure DEF Connected
<1>13. ASSUME NEW c \in Call, RollBack(c)
     PROVE  Secure
    BY <1>13, EndSecure DEF RollBack
<1>14. ASSUME NEW p \in Proc, NEW s \in Slug, RunAuthorizationFlow(p, s)
     PROVE  Secure
    BY <1>14, <1>0, <1>00 DEF RunAuthorizationFlow, Secure, Guards, Alone, TypeOK,
            Phases, Begin, Issue, Grant, Revoking, Inside, NoEntries, Removing,
            TakeSlugLock, Goto, Persisting
<1>15. ASSUME NEW p \in Proc, NEW s \in Slug, ImportRefreshToken(p, s)
     PROVE  Secure
    BY <1>15, <1>0, <1>00 DEF ImportRefreshToken, Secure, Guards, Alone, TypeOK, Phases,
            Begin, Issue, Grant, Revoking, Inside, NoEntries, Removing, TakeSlugLock,
            Goto, Persisting
<1>16. ASSUME NEW p \in Proc, NEW s \in Slug, RecoverStagedTokenImport(p, s)
     PROVE  Secure
    BY <1>16, <1>0, <1>00 DEF RecoverStagedTokenImport, Secure, Guards, Alone, TypeOK,
            Phases, Begin, Grant, Revoking, Inside, NoEntries, Removing, TakeSlugLock,
            Goto, Persisting
<1>17. ASSUME NEW p \in Proc, NEW s \in Slug, DisconnectCompany(p, s)
     PROVE  Secure
    BY <1>17, <1>0, <1>00 DEF DisconnectCompany, Secure, Guards, Alone, TypeOK, Phases,
            Begin, Listed, Grant, Revoking, Inside, NoEntries, Removing, TakeSlugLock,
            Goto, Persisting
<1>18. ASSUME NEW p \in Proc, VerifyImport(p)
     PROVE  Secure
  <2>1. \A d \in Call, g \in Grant : Guards(d, g)' => Guards(d, g) /\ d # p
      BY <1>18, <1>0 DEF VerifyImport, Verified, Guards, Goto, Revoking, TypeOK
  <2> QED
      BY <1>18, <1>0, <1>00, <2>1 DEF VerifyImport, Without, Secure, Alone, TypeOK
<1>19. ASSUME NEW p \in Proc, Unstage(p)
     PROVE  Secure
    BY <1>19, EndSecure DEF Unstage
<1>20. ASSUME NEW p \in Proc, CheckIdentities(p)
     PROVE  Secure
  <2>1. \A d \in Call, g \in Grant :
            Guards(d, g)' => Guards(d, g) \/ (d = p /\ book[p][g] # "absent")
      BY <1>20, <1>0 DEF CheckIdentities, Guards, Goto, Revoking, TypeOK
  <2>2. \A g \in Grant :
            book[p][g] # "absent" =>
               Has(at[p], g) /\ realmLock[realmOf[g]] = p /\ ~Elsewhere(at[p], realmOf[g])
      BY <1>20, <1>0 DEF CheckIdentities, Missing, Wanted, Listed, Has, Carries, TypeOK,
              Phases
  <2> QED
      BY <1>20, <1>0, <1>00, <2>1, <2>2 DEF CheckIdentities, Secure, Alone, Inside,
              Persisting, Revoking, Removing, Phases
<1>21. ASSUME NEW p \in Proc, MarkAttempt(p)
     PROVE  Secure
    BY <1>21, <1>0, <1>00 DEF MarkAttempt, Secure, Guards, Alone, TypeOK, Phases, Grant,
            Revocable, Goto, Revoking, Inside, NoEntries, Removing, Persisting
<1>22. ASSUME NEW p \in Proc, LocalFailure(p)
     PROVE  Secure
    BY <1>22, <1>0, <1>00 DEF LocalFailure, Secure, Guards, Alone, TypeOK, Phases,
            Grant, Revocable, Revoking, Inside, NoEntries, Removing, Persisting
<1>23. ASSUME NEW p \in Proc, PostRevocation(p)
     PROVE  Secure
    BY <1>23, <1>0, <1>00 DEF PostRevocation, Secure, Guards, Alone, TypeOK, Phases,
            Goto, Grant, Revoking, Inside, NoEntries, Removing, Persisting
<1>24. ASSUME NEW p \in Proc, RevocationConfirmed(p)
     PROVE  Secure
    BY <1>24, <1>0, <1>00 DEF RevocationConfirmed, Secure, Guards, Alone, TypeOK,
            Phases, RecordOutcome, Grant, Revoking, Inside, NoEntries, Removing, Goto,
            Persisting
<1>25. ASSUME NEW p \in Proc, RevocationLost(p)
     PROVE  Secure
    BY <1>25, <1>0, <1>00 DEF RevocationLost, Secure, Guards, Alone, TypeOK, Phases,
            RecordOutcome, Grant, Revoking, Inside, NoEntries, Removing, Goto,
            Persisting
<1>26. ASSUME NEW p \in Proc, RevocationRefused(p)
     PROVE  Secure
    BY <1>26, <1>0, <1>00 DEF RevocationRefused, Secure, Guards, Alone, TypeOK, Phases,
            RecordOutcome, Grant, Revoking, Inside, NoEntries, Removing, Goto,
            Persisting
<1>27. ASSUME NEW p \in Proc, UnlinkFile(p)
     PROVE  Secure
    BY <1>27, <1>0, <1>00 DEF UnlinkFile, Secure, Guards, Alone, TypeOK, Phases, Goto,
            Grant, Revoking, Inside, NoEntries, Removing, Persisting
<1>28. ASSUME NEW p \in Proc, UnlinkStage(p)
     PROVE  Secure
    BY <1>28, <1>0, <1>00 DEF UnlinkStage, Secure, Guards, Alone, TypeOK, Phases, Goto,
            Grant, Revoking, Inside, NoEntries, Removing, Persisting
<1>29. ASSUME NEW p \in Proc, UnlinkReceipt(p)
     PROVE  Secure
    BY <1>29, EndSecure DEF UnlinkReceipt
<1>30. CASE UNCHANGED vars
    BY <1>30, <1>0, <1>00 DEF vars, Secure, Guards, Alone, TypeOK, Phases, Grant,
            Revoking, Inside, NoEntries, Removing, Persisting
<1> QED
    BY <1>1, <1>2, <1>3, <1>4, <1>5, <1>6, <1>7, <1>8, <1>9, <1>10, <1>11, <1>12, <1>13,
            <1>14, <1>15, <1>16, <1>17, <1>18, <1>19, <1>20, <1>21, <1>22, <1>23, <1>24,
            <1>25, <1>26, <1>27, <1>28, <1>29, <1>30 DEF
            Next, Listener, Start, Authorize, Maintain

\* Write and RollBack are the actions of a guard.
LEMMA SavedStep ==
    ASSUME Shape, Shape', Alone, [Next]_vars PROVE Saved
<1>0. TypeOK /\ Phases /\ TypeOK' /\ Phases'
    BY DEF Shape
<1>1. CASE CancelAuthorization
    BY <1>1, <1>0 DEF CancelAuthorization, Saved, Guards, Alone, TypeOK, Phases, Has,
            Carries, Owner, Grant, Revoking, Inside, NoEntries, Removing, Persisting
<1>2. CASE Expire
    BY <1>2, <1>0 DEF Expire, Saved, Guards, Alone, TypeOK, Phases, Has, Carries, Owner,
            Grant, Revoking, Inside, NoEntries, Removing, Persisting
<1>3. CASE ServerDies
    BY <1>3, <1>0 DEF ServerDies, Saved, Guards, Alone, TypeOK, Phases, Has, Carries,
            Grant, Revoking, Inside, NoEntries, Removing, Persisting
<1>4. ASSUME NEW a \in Attempt, NEW s \in Slug, BeginAuthorization(a, s)
     PROVE  Saved
    BY <1>4, <1>0 DEF BeginAuthorization, Saved, Guards, Alone, TypeOK, Phases, Has,
            Carries, Deaf, Owner, PortWithout, Reset, Grant, Revoking, Inside,
            NoEntries, Removing, Persisting
<1>5. ASSUME NEW a \in Attempt, BadCallback(a)
     PROVE  Saved
    BY <1>5, <1>0 DEF BadCallback, Saved, Guards, Alone, TypeOK, Phases, Has, Carries,
            Grant, Revoking, Inside, NoEntries, Removing, Persisting
<1>6. ASSUME NEW a \in Attempt, Callback(a)
     PROVE  Saved
    BY <1>6, <1>0 DEF Callback, Saved, Guards, Alone, TypeOK, Phases, Has, Carries,
            Goto, Grant, Revoking, Inside, NoEntries, Removing, Persisting
<1>7. ASSUME NEW a \in Attempt, Exchange(a)
     PROVE  Saved
    BY <1>7, <1>0 DEF Exchange, Saved, Guards, Alone, TypeOK, Phases, Has, Carries,
            TakeSlugLock, Issue, Goto, Grant, Revoking, Inside, NoEntries, Removing,
            Persisting
<1>8. ASSUME NEW c \in Call, Fail(c)
     PROVE  Saved
    BY <1>8, <1>0 DEF Fail, Saved, Guards, Alone, TypeOK, Phases, Has, Carries, Grant,
            Revoking, Inside, NoEntries, Removing, Persisting
<1>9. ASSUME NEW c \in Call, LockRealm(c)
     PROVE  Saved
    BY <1>9, <1>0 DEF LockRealm, Saved, Guards, Alone, TypeOK, Phases, Has, Carries,
            Grant, Revoking, Inside, NoEntries, Removing, Persisting
<1>10. ASSUME NEW c \in Call, Vet(c)
     PROVE  Saved
    BY <1>10, <1>0 DEF Vet, Saved, Guards, Alone, TypeOK, Phases, Has, Carries, Goto,
            Grant, Revoking, Inside, NoEntries, Removing, Persisting
<1>11. ASSUME NEW c \in Call, Write(c)
     PROVE  Saved
  <2>1. at[c] \in Slug /\ cur[c] \in Grant /\ Has(at[c], cur[c]) /\ Guards(c, cur[c])
      BY <1>11, <1>0 DEF Write, Guards, Has, Carries, Inside, Persisting, TypeOK, Phases
  <2>2. file' = [file EXCEPT ![at[c]] = cur[c]]
      BY <1>11 DEF Write
  <2> QED
      BY <1>0, <2>1, <2>2 DEF Saved, TypeOK
<1>12. ASSUME NEW c \in Call, Connected(c)
     PROVE  Saved
    BY <1>12, <1>0 DEF Connected, Saved, Guards, Alone, TypeOK, Phases, Has, Carries,
            Verified, Grant, Revoking, Inside, NoEntries, Removing, Persisting
<1>13. ASSUME NEW c \in Call, RollBack(c)
     PROVE  Saved
    BY <1>13, <1>0 DEF RollBack, Saved, Guards, Alone, TypeOK, Phases, Has, Carries,
            Grant, Revoking, Inside, NoEntries, Removing, Persisting
<1>14. ASSUME NEW p \in Proc, NEW s \in Slug, RunAuthorizationFlow(p, s)
     PROVE  Saved
    BY <1>14, <1>0 DEF RunAuthorizationFlow, Saved, Guards, Alone, TypeOK, Phases, Has,
            Carries, Begin, Issue, Grant, Revoking, Inside, NoEntries, Removing,
            TakeSlugLock, Goto, Persisting
<1>15. ASSUME NEW p \in Proc, NEW s \in Slug, ImportRefreshToken(p, s)
     PROVE  Saved
    BY <1>15, <1>0 DEF ImportRefreshToken, Saved, Guards, Alone, TypeOK, Phases, Has,
            Carries, Begin, Issue, Grant, Revoking, Inside, NoEntries, Removing,
            TakeSlugLock, Goto, Persisting
<1>16. ASSUME NEW p \in Proc, NEW s \in Slug, RecoverStagedTokenImport(p, s)
     PROVE  Saved
    BY <1>16, <1>0 DEF RecoverStagedTokenImport, Saved, Guards, Alone, TypeOK, Phases,
            Has, Carries, Begin, Grant, Revoking, Inside, NoEntries, Removing,
            TakeSlugLock, Goto, Persisting
<1>17. ASSUME NEW p \in Proc, NEW s \in Slug, DisconnectCompany(p, s)
     PROVE  Saved
    BY <1>17, <1>0 DEF DisconnectCompany, Saved, Guards, Alone, TypeOK, Phases, Has,
            Carries, Begin, Grant, Revoking, Inside, NoEntries, Removing, TakeSlugLock,
            Goto, Persisting
<1>18. ASSUME NEW p \in Proc, VerifyImport(p)
     PROVE  Saved
    BY <1>18, <1>0 DEF VerifyImport, Saved, Guards, Alone, TypeOK, Phases, Has, Carries,
            Verified, Without, Goto, Grant, Revoking, Inside, NoEntries, Removing,
            Persisting
<1>19. ASSUME NEW p \in Proc, Unstage(p)
     PROVE  Saved
    BY <1>19, <1>0 DEF Unstage, Saved, Guards, Alone, TypeOK, Phases, Has, Carries,
            Grant, Revoking, Inside, NoEntries, Removing, Persisting
<1>20. ASSUME NEW p \in Proc, CheckIdentities(p)
     PROVE  Saved
    BY <1>20, <1>0 DEF CheckIdentities, Saved, Guards, Alone, TypeOK, Phases, Has,
            Carries, Goto, Grant, Revoking, Inside, NoEntries, Removing, Persisting
<1>21. ASSUME NEW p \in Proc, MarkAttempt(p)
     PROVE  Saved
    BY <1>21, <1>0 DEF MarkAttempt, Saved, Guards, Alone, TypeOK, Phases, Has, Carries,
            Grant, Revocable, Goto, Revoking, Inside, NoEntries, Removing, Persisting
<1>22. ASSUME NEW p \in Proc, LocalFailure(p)
     PROVE  Saved
    BY <1>22, <1>0 DEF LocalFailure, Saved, Guards, Alone, TypeOK, Phases, Has, Carries,
            Grant, Revocable, Revoking, Inside, NoEntries, Removing, Persisting
<1>23. ASSUME NEW p \in Proc, PostRevocation(p)
     PROVE  Saved
    BY <1>23, <1>0 DEF PostRevocation, Saved, Guards, Alone, TypeOK, Phases, Has,
            Carries, Goto, Grant, Revoking, Inside, NoEntries, Removing, Persisting
<1>24. ASSUME NEW p \in Proc, RevocationConfirmed(p)
     PROVE  Saved
    BY <1>24, <1>0 DEF RevocationConfirmed, Saved, Guards, Alone, TypeOK, Phases, Has,
            Carries, RecordOutcome, Grant, Revoking, Inside, NoEntries, Removing, Goto,
            Persisting
<1>25. ASSUME NEW p \in Proc, RevocationLost(p)
     PROVE  Saved
    BY <1>25, <1>0 DEF RevocationLost, Saved, Guards, Alone, TypeOK, Phases, Has,
            Carries, RecordOutcome, Grant, Revoking, Inside, NoEntries, Removing, Goto,
            Persisting
<1>26. ASSUME NEW p \in Proc, RevocationRefused(p)
     PROVE  Saved
    BY <1>26, <1>0 DEF RevocationRefused, Saved, Guards, Alone, TypeOK, Phases, Has,
            Carries, RecordOutcome, Grant, Revoking, Inside, NoEntries, Removing, Goto,
            Persisting
<1>27. ASSUME NEW p \in Proc, UnlinkFile(p)
     PROVE  Saved
    BY <1>27, <1>0 DEF UnlinkFile, Saved, Guards, Alone, TypeOK, Phases, Has, Carries,
            Goto, Grant, Revoking, Inside, NoEntries, Removing, Persisting
<1>28. ASSUME NEW p \in Proc, UnlinkStage(p)
     PROVE  Saved
    BY <1>28, <1>0 DEF UnlinkStage, Saved, Guards, Alone, TypeOK, Phases, Has, Carries,
            Goto, Grant, Revoking, Inside, NoEntries, Removing, Persisting
<1>29. ASSUME NEW p \in Proc, UnlinkReceipt(p)
     PROVE  Saved
    BY <1>29, <1>0 DEF UnlinkReceipt, Saved, Guards, Alone, TypeOK, Phases, Has,
            Carries, Grant, Revoking, Inside, NoEntries, Removing, Persisting
<1>30. CASE UNCHANGED vars
    BY <1>30, <1>0 DEF vars, Saved, Guards, Alone, TypeOK, Phases, Has, Carries, Grant,
            Revoking, Inside, NoEntries, Removing, Persisting
<1> QED
    BY <1>1, <1>2, <1>3, <1>4, <1>5, <1>6, <1>7, <1>8, <1>9, <1>10, <1>11, <1>12, <1>13,
            <1>14, <1>15, <1>16, <1>17, <1>18, <1>19, <1>20, <1>21, <1>22, <1>23, <1>24,
            <1>25, <1>26, <1>27, <1>28, <1>29, <1>30 DEF
            Next, Listener, Start, Authorize, Maintain

\* Vet keeps the slug its company.
LEMMA PriorStep ==
    ASSUME Shape, Shape', Alone, [Next]_vars PROVE Prior
<1>0. TypeOK /\ Phases /\ TypeOK' /\ Phases'
    BY DEF Shape
<1>1. CASE CancelAuthorization
    BY <1>1, <1>0 DEF CancelAuthorization, Prior, Alone, TypeOK, Phases, Has,
            StopListening, Owner, Grant, Inside, NoEntries, Revoking, Removing, Stores,
            Carries, PortWithout, Reset, Deaf, Persisting
<1>2. CASE Expire
    BY <1>2, <1>0 DEF Expire, Prior, Alone, TypeOK, Phases, Has, StopListening, Owner,
            Grant, Inside, NoEntries, Revoking, Removing, Stores, Carries, PortWithout,
            Reset, Deaf, Persisting
<1>3. CASE ServerDies
    BY <1>3, <1>0 DEF ServerDies, Prior, Alone, TypeOK, Phases, Has, End, Grant, Inside,
            NoEntries, Revoking, Removing, Stores, Carries, Reset, Without, PortWithout,
            Persisting
<1>4. ASSUME NEW a \in Attempt, NEW s \in Slug, BeginAuthorization(a, s)
     PROVE  Prior
    BY <1>4, <1>0 DEF BeginAuthorization, Prior, Alone, TypeOK, Phases, Has, Deaf,
            Owner, PortWithout, Reset, Grant, Inside, NoEntries, Revoking, Removing,
            Stores, Carries, Persisting
<1>5. ASSUME NEW a \in Attempt, BadCallback(a)
     PROVE  Prior
    BY <1>5, <1>0 DEF BadCallback, Prior, Alone, TypeOK, Phases, Has, StopListening,
            Grant, Inside, NoEntries, Revoking, Removing, Stores, Carries, PortWithout,
            Reset, Deaf, Persisting
<1>6. ASSUME NEW a \in Attempt, Callback(a)
     PROVE  Prior
    BY <1>6, <1>0 DEF Callback, Prior, Alone, TypeOK, Phases, Has, Goto, Grant, Inside,
            NoEntries, Revoking, Removing, Stores, Carries, Persisting
<1>7. ASSUME NEW a \in Attempt, Exchange(a)
     PROVE  Prior
    BY <1>7, <1>0 DEF Exchange, Prior, Alone, TypeOK, Phases, Has, TakeSlugLock, Issue,
            Goto, Grant, Inside, NoEntries, Revoking, Removing, Stores, Carries,
            Persisting
<1>8. ASSUME NEW c \in Call, Fail(c)
     PROVE  Prior
    BY <1>8, <1>0 DEF Fail, Prior, Alone, TypeOK, Phases, Has, End, Grant, Inside,
            NoEntries, Revoking, Removing, Stores, Carries, Reset, Without, PortWithout,
            Persisting
<1>9. ASSUME NEW c \in Call, LockRealm(c)
     PROVE  Prior
    BY <1>9, <1>0 DEF LockRealm, Prior, Alone, TypeOK, Phases, Has, Grant, Inside,
            NoEntries, Revoking, Removing, Stores, Carries, Persisting
<1>10. ASSUME NEW c \in Call, Vet(c)
     PROVE  Prior
    BY <1>10, <1>0 DEF Vet, Prior, Alone, TypeOK, Phases, Has, Replaceable, Goto, Grant,
            Inside, NoEntries, Revoking, Removing, Stores, Carries, Persisting
<1>11. ASSUME NEW c \in Call, Write(c)
     PROVE  Prior
    BY <1>11, <1>0 DEF Write, Prior, Alone, TypeOK, Phases, Has, Goto, Grant, Inside,
            NoEntries, Revoking, Removing, Stores, Carries, Persisting
<1>12. ASSUME NEW c \in Call, Connected(c)
     PROVE  Prior
    BY <1>12, <1>0 DEF Connected, Prior, Alone, TypeOK, Phases, Has, Verified, End,
            Grant, Inside, NoEntries, Revoking, Removing, Stores, Carries, Reset,
            Without, PortWithout, Persisting
<1>13. ASSUME NEW c \in Call, RollBack(c)
     PROVE  Prior
    BY <1>13, <1>0 DEF RollBack, Prior, Alone, TypeOK, Phases, Has, End, Grant, Inside,
            NoEntries, Revoking, Removing, Stores, Carries, Reset, Without, PortWithout,
            Persisting
<1>14. ASSUME NEW p \in Proc, NEW s \in Slug, RunAuthorizationFlow(p, s)
     PROVE  Prior
    BY <1>14, <1>0 DEF RunAuthorizationFlow, Prior, Alone, TypeOK, Phases, Has, Begin,
            Issue, Grant, Inside, NoEntries, Revoking, Removing, Stores, Carries,
            TakeSlugLock, Goto, Persisting
<1>15. ASSUME NEW p \in Proc, NEW s \in Slug, ImportRefreshToken(p, s)
     PROVE  Prior
    BY <1>15, <1>0 DEF ImportRefreshToken, Prior, Alone, TypeOK, Phases, Has, Begin,
            Issue, Grant, Inside, NoEntries, Revoking, Removing, Stores, Carries,
            TakeSlugLock, Goto, Persisting
<1>16. ASSUME NEW p \in Proc, NEW s \in Slug, RecoverStagedTokenImport(p, s)
     PROVE  Prior
    BY <1>16, <1>0 DEF RecoverStagedTokenImport, Prior, Alone, TypeOK, Phases, Has,
            Begin, Grant, Inside, NoEntries, Revoking, Removing, Stores, Carries,
            TakeSlugLock, Goto, Persisting
<1>17. ASSUME NEW p \in Proc, NEW s \in Slug, DisconnectCompany(p, s)
     PROVE  Prior
    BY <1>17, <1>0 DEF DisconnectCompany, Prior, Alone, TypeOK, Phases, Has, Begin,
            Grant, Inside, NoEntries, Revoking, Removing, Stores, Carries, TakeSlugLock,
            Goto, Persisting
<1>18. ASSUME NEW p \in Proc, VerifyImport(p)
     PROVE  Prior
    BY <1>18, <1>0 DEF VerifyImport, Prior, Alone, TypeOK, Phases, Has, Verified,
            Without, Goto, Grant, Inside, NoEntries, Revoking, Removing, Stores,
            Carries, Persisting
<1>19. ASSUME NEW p \in Proc, Unstage(p)
     PROVE  Prior
    BY <1>19, <1>0 DEF Unstage, Prior, Alone, TypeOK, Phases, Has, End, Grant, Inside,
            NoEntries, Revoking, Removing, Stores, Carries, Reset, Without, PortWithout,
            Persisting
<1>20. ASSUME NEW p \in Proc, CheckIdentities(p)
     PROVE  Prior
    BY <1>20, <1>0 DEF CheckIdentities, Prior, Alone, TypeOK, Phases, Has, Goto, Grant,
            Inside, NoEntries, Revoking, Removing, Stores, Carries, Persisting
<1>21. ASSUME NEW p \in Proc, MarkAttempt(p)
     PROVE  Prior
    BY <1>21, <1>0 DEF MarkAttempt, Prior, Alone, TypeOK, Phases, Has, Grant, Revocable,
            Goto, Inside, NoEntries, Revoking, Removing, Stores, Carries, Persisting
<1>22. ASSUME NEW p \in Proc, LocalFailure(p)
     PROVE  Prior
    BY <1>22, <1>0 DEF LocalFailure, Prior, Alone, TypeOK, Phases, Has, Grant,
            Revocable, Inside, NoEntries, Revoking, Removing, Stores, Carries,
            Persisting
<1>23. ASSUME NEW p \in Proc, PostRevocation(p)
     PROVE  Prior
    BY <1>23, <1>0 DEF PostRevocation, Prior, Alone, TypeOK, Phases, Has, Goto, Grant,
            Inside, NoEntries, Revoking, Removing, Stores, Carries, Persisting
<1>24. ASSUME NEW p \in Proc, RevocationConfirmed(p)
     PROVE  Prior
    BY <1>24, <1>0 DEF RevocationConfirmed, Prior, Alone, TypeOK, Phases, Has,
            RecordOutcome, Grant, Inside, NoEntries, Revoking, Removing, Stores,
            Carries, Goto, Persisting
<1>25. ASSUME NEW p \in Proc, RevocationLost(p)
     PROVE  Prior
    BY <1>25, <1>0 DEF RevocationLost, Prior, Alone, TypeOK, Phases, Has, RecordOutcome,
            Grant, Inside, NoEntries, Revoking, Removing, Stores, Carries, Goto,
            Persisting
<1>26. ASSUME NEW p \in Proc, RevocationRefused(p)
     PROVE  Prior
    BY <1>26, <1>0 DEF RevocationRefused, Prior, Alone, TypeOK, Phases, Has,
            RecordOutcome, Grant, Inside, NoEntries, Revoking, Removing, Stores,
            Carries, Goto, Persisting
<1>27. ASSUME NEW p \in Proc, UnlinkFile(p)
     PROVE  Prior
    BY <1>27, <1>0 DEF UnlinkFile, Prior, Alone, TypeOK, Phases, Has, Goto, Grant,
            Inside, NoEntries, Revoking, Removing, Stores, Carries, Persisting
<1>28. ASSUME NEW p \in Proc, UnlinkStage(p)
     PROVE  Prior
    BY <1>28, <1>0 DEF UnlinkStage, Prior, Alone, TypeOK, Phases, Has, Goto, Grant,
            Inside, NoEntries, Revoking, Removing, Stores, Carries, Persisting
<1>29. ASSUME NEW p \in Proc, UnlinkReceipt(p)
     PROVE  Prior
    BY <1>29, <1>0 DEF UnlinkReceipt, Prior, Alone, TypeOK, Phases, Has, End, Grant,
            Inside, NoEntries, Revoking, Removing, Stores, Carries, Reset, Without,
            PortWithout, Persisting
<1>30. CASE UNCHANGED vars
    BY <1>30, <1>0 DEF vars, Prior, Alone, TypeOK, Phases, Has, Grant, Inside,
            NoEntries, Revoking, Removing, Stores, Carries, Persisting
<1> QED
    BY <1>1, <1>2, <1>3, <1>4, <1>5, <1>6, <1>7, <1>8, <1>9, <1>10, <1>11, <1>12, <1>13,
            <1>14, <1>15, <1>16, <1>17, <1>18, <1>19, <1>20, <1>21, <1>22, <1>23, <1>24,
            <1>25, <1>26, <1>27, <1>28, <1>29, <1>30 DEF
            Next, Listener, Start, Authorize, Maintain

\* Two guards of one company would hold one lock.
LEMMA AloneStep ==
    ASSUME Shape, Shape', Homes, Alone, [Next]_vars PROVE Alone'
<1>1. Secure /\ Saved
    BY SecureStep, SavedStep
<1>2. \A g \in Grant : g <= issued => realmOf'[g] = realmOf[g]
    BY FlowStep DEF Flow, Keeps, Issued, Grant, Shape, TypeOK
<1>3. \A s \in Slug, g \in Grant : Has(s, g) => g <= issued
    BY DEF Homes
<1>4. ASSUME NEW c \in Call, NEW g \in Grant, Guards(c, g)'
     PROVE  realmLock'[realmOf'[g]] = c /\ ~Elsewhere(at[c], realmOf[g])'
  <2>1. /\ at'[c] = at[c] /\ at[c] \in Slug /\ realmOf'[g] = realmOf[g]
        /\ realmLock[realmOf[g]] = c /\ realmLock'[realmOf[g]] = c
        /\ ~Elsewhere(at[c], realmOf[g])
      BY <1>1, <1>2, <1>3, <1>4 DEF Secure
  <2>2. ASSUME NEW t \in Slug, t # at[c], file'[t] # None, realmOf'[file'[t]] = realmOf[g]
        PROVE  FALSE
    <3>1. CASE file'[t] = file[t]
      <4>1. file[t] \in Grant /\ Has(t, file[t])
          BY <2>2, <3>1 DEF Has, Stores, Shape, TypeOK
      <4> QED
          BY <1>2, <1>3, <2>1, <2>2, <3>1, <4>1 DEF Elsewhere
    <3>2. ASSUME NEW d \in Call, at[d] = t, cur[d] \in Grant, Guards(d, cur[d]),
                 Has(t, file'[t]), realmOf[file'[t]] = realmOf[cur[d]]
          PROVE  FALSE
      <4>1. file'[t] \in Grant
          BY <2>2 DEF Shape, TypeOK
      <4>2. realmOf'[file'[t]] = realmOf[file'[t]]
          BY <1>2, <1>3, <3>2, <4>1
      <4>3. realmLock[realmOf[cur[d]]] = d
          BY <3>2 DEF Alone
      <4> QED
          BY <2>1, <2>2, <3>2, <4>2, <4>3
    <3> QED
        BY <1>1, <2>2, <3>1, <3>2 DEF Saved
  <2> QED
      BY <2>1, <2>2 DEF Elsewhere
<1>5. ASSUME NEW c \in Call, pc'[c] \in {"write", "verify"}, prev'[c] # None
     PROVE  realmOf'[prev'[c]] = realmOf'[cur'[c]]
  <2>1. /\ at'[c] = at[c] /\ at[c] \in Slug /\ cur'[c] \in Grant /\ prev'[c] \in Grant
        /\ Has(at[c], cur'[c])
      BY <1>1, <1>5 DEF Secure, Guards, Shape, TypeOK, Phases, Inside, Persisting
  <2>2. Has(at[c], prev'[c]) /\ realmOf[prev'[c]] = realmOf[cur'[c]]
      BY <1>5, PriorStep DEF Prior
  <2> QED
      BY <1>2, <1>3, <2>1, <2>2
<1>6. \A c \in Call, g \in Grant :
         Guards(c, g)' => realmLock'[realmOf'[g]] = c /\ ~Elsewhere(at[c], realmOf[g])'
    BY <1>4
<1> QED
    BY <1>5, <1>6 DEF Alone

-----------------------------------------------------------------------------
\* The library's well-founded order of finite sets gives every set of numbers its least.
LEMMA LeastNumber ==
    ASSUME NEW S \in SUBSET Nat, S # {}
    PROVE  \E m \in S : \A n \in S : m <= n
<1> DEFINE Below(m) == {n \in S : n < m}
           T == {Below(m) : m \in S}
<1>0. \A n \in S : n \in Nat
    OBVIOUS
<1>1. ASSUME NEW m \in S PROVE Below(m) \in FiniteSubsetsOf(Nat)
  <2>1. IsFiniteSet(0..m)
      BY FS_Interval
  <2>2. Below(m) \in SUBSET (0..m)
    <3>1. ASSUME NEW n \in S, n < m PROVE n \in 0..m
      <4>1. n \in Nat /\ m \in Nat
          BY <1>0
      <4> QED
          BY <3>1, <4>1
    <3> QED
        BY <3>1
  <2> QED
      BY <2>1, <2>2, FS_Subset DEF FiniteSubsetsOf
<1>2. T \subseteq FiniteSubsetsOf(Nat) /\ T # {}
    BY <1>1
<1>3. PICK U \in T : \A V \in T : ~(<<V, U>> \in StrictSubsetOrdering(Nat))
  <2> HIDE DEF T
  <2> QED
      BY <1>2, FS_StrictSubsetOrderingWellFounded, WFMin
<1>4. PICK m \in S : U = Below(m)
    BY <1>3
<1>5. ASSUME NEW n \in S, n < m PROVE FALSE
  <2>1. Below(n) \subseteq Below(m) /\ n \in Below(m) /\ n \notin Below(n)
    <3>1. ASSUME NEW x \in S, x < n PROVE x < m
      <4>1. x \in Nat /\ n \in Nat /\ m \in Nat
          BY <1>0
      <4> QED
          BY <1>5, <3>1, <4>1
    <3>2. ~(n < n)
      <4>1. n \in Nat
          BY <1>0
      <4> QED
          BY <4>1
    <3> QED
        BY <1>5, <3>1, <3>2
  <2>2. Below(n) \in SUBSET Nat /\ Below(m) \in SUBSET Nat /\ Below(n) \in T
      OBVIOUS
  <2> HIDE DEF Below, T
  <2>3. <<Below(n), Below(m)>> \in StrictSubsetOrdering(Nat)
      BY <2>1, <2>2 DEF StrictSubsetOrdering
  <2> QED
      BY <1>3, <1>4, <2>2, <2>3
<1> QED
    BY <1>5

\* Realm locks are taken upwards.
Ordered ==
    \A c \in Call : pc[c] = "realmLock" => \A r \in Held(c), q \in Missing(c) : r < q

LEMMA InitOrdered == Init => Ordered
    BY DEF Init, Ordered

\* A call that is to take realm locks has just begun, keeps what it has and needs, or
\* takes the next one.
Ladder ==
    \A c \in Call : pc'[c] = "realmLock" =>
        \/ \A r \in Realm : realmLock'[r] # c
        \/ /\ pc[c] = "realmLock" /\ at[c] \in Slug
           /\ op'[c] = op[c] /\ cur'[c] = cur[c] /\ book'[c] = book[c]
           /\ \/ \A r \in Realm : realmLock'[r] = c <=> realmLock[r] = c
              \/ LockRealm(c)

\* What an action does to a call that is to take realm locks.
LEMMA LadderStep ==
    ASSUME Shape, Shape', Locked, [Next]_vars PROVE Ladder
<1>0. TypeOK /\ Phases /\ TypeOK' /\ Phases'
    BY DEF Shape
<1>1. CASE CancelAuthorization
    BY <1>1, <1>0 DEF CancelAuthorization, Ladder, Locked, TypeOK, Phases,
            StopListening, Owner, Inside, Grant, NoEntries, Revoking, Removing,
            PortWithout, Reset, Deaf, Persisting
<1>2. CASE Expire
    BY <1>2, <1>0 DEF Expire, Ladder, Locked, TypeOK, Phases, StopListening, Owner,
            Inside, Grant, NoEntries, Revoking, Removing, PortWithout, Reset, Deaf,
            Persisting
<1>3. CASE ServerDies
    BY <1>3, <1>0 DEF ServerDies, End, Reset, Without, Ladder, TypeOK, Phases, Inside
<1>4. ASSUME NEW a \in Attempt, NEW s \in Slug, BeginAuthorization(a, s)
     PROVE  Ladder
    BY <1>4, <1>0 DEF BeginAuthorization, Ladder, Locked, TypeOK, Phases, Deaf, Owner,
            PortWithout, Reset, Inside, Grant, NoEntries, Revoking, Removing, Persisting
<1>5. ASSUME NEW a \in Attempt, BadCallback(a)
     PROVE  Ladder
    BY <1>5, <1>0 DEF BadCallback, Ladder, Locked, TypeOK, Phases, StopListening,
            Inside, Grant, NoEntries, Revoking, Removing, PortWithout, Reset, Deaf,
            Persisting
<1>6. ASSUME NEW a \in Attempt, Callback(a)
     PROVE  Ladder
    BY <1>6, <1>0 DEF Callback, Ladder, Locked, TypeOK, Phases, Goto, Inside, Grant,
            NoEntries, Revoking, Removing, Persisting
<1>7. ASSUME NEW a \in Attempt, Exchange(a)
     PROVE  Ladder
    BY <1>7, <1>0 DEF Exchange, Ladder, Locked, TypeOK, Phases, TakeSlugLock, Issue,
            Goto, Inside, Grant, NoEntries, Revoking, Removing, Persisting
<1>8. ASSUME NEW c \in Call, Fail(c)
     PROVE  Ladder
    BY <1>8, <1>0 DEF Fail, End, Reset, Without, Ladder, TypeOK, Phases, Inside
<1>9. ASSUME NEW c \in Call, LockRealm(c)
     PROVE  Ladder
  <2>1. \A d \in Call : d # c => \A r \in Realm : realmLock'[r] = d <=> realmLock[r] = d
      BY <1>9, <1>0 DEF LockRealm, TypeOK
  <2>2. UNCHANGED <<pc, op, at, cur, book>>
      BY <1>9 DEF LockRealm
  <2>3. \A d \in Call : pc[d] = "realmLock" => at[d] \in Slug
      BY <1>0 DEF Phases
  <2>4. ASSUME NEW d \in Call, d # c, pc'[d] = "realmLock"
        PROVE  /\ pc[d] = "realmLock" /\ at[d] \in Slug
               /\ op'[d] = op[d] /\ cur'[d] = cur[d] /\ book'[d] = book[d]
               /\ \A r \in Realm : realmLock'[r] = d <=> realmLock[r] = d
      BY <2>1, <2>2, <2>3, <2>4
  <2>5. /\ pc[c] = "realmLock" /\ at[c] \in Slug
        /\ op'[c] = op[c] /\ cur'[c] = cur[c] /\ book'[c] = book[c]
      BY <1>9, <2>2, <2>3 DEF LockRealm
  <2> QED
      BY <1>9, <2>4, <2>5 DEF Ladder
<1>10. ASSUME NEW c \in Call, Vet(c)
     PROVE  Ladder
    BY <1>10, <1>0 DEF Vet, Ladder, Locked, TypeOK, Phases, Goto, Inside, Grant,
            NoEntries, Revoking, Removing, Persisting
<1>11. ASSUME NEW c \in Call, Write(c)
     PROVE  Ladder
    BY <1>11, <1>0 DEF Write, Ladder, Locked, TypeOK, Phases, Goto, Inside, Grant,
            NoEntries, Revoking, Removing, Persisting
<1>12. ASSUME NEW c \in Call, Connected(c)
     PROVE  Ladder
    BY <1>12, <1>0 DEF Connected, End, Reset, Without, Ladder, TypeOK, Phases, Inside
<1>13. ASSUME NEW c \in Call, RollBack(c)
     PROVE  Ladder
    BY <1>13, <1>0 DEF RollBack, End, Reset, Without, Ladder, TypeOK, Phases, Inside
<1>14. ASSUME NEW p \in Proc, NEW s \in Slug, RunAuthorizationFlow(p, s)
     PROVE  Ladder
  <2>1. \A r \in Realm : realmLock'[r] # p
      BY <1>14 DEF RunAuthorizationFlow, Begin, TakeSlugLock, Locked, Inside, Persisting,
              Revoking, Removing
  <2>2. \A d \in Call : d # p => pc'[d] = pc[d] /\ op'[d] = op[d] /\ cur'[d] = cur[d]
      BY <1>14, <1>0 DEF RunAuthorizationFlow, Begin, Goto, TypeOK
  <2>3. UNCHANGED <<realmLock, book>>
      BY <1>14 DEF RunAuthorizationFlow, Begin, TakeSlugLock
  <2> QED
      BY <1>0, <2>1, <2>2, <2>3 DEF Ladder, Phases
<1>15. ASSUME NEW p \in Proc, NEW s \in Slug, ImportRefreshToken(p, s)
     PROVE  Ladder
    BY <1>15, <1>0 DEF ImportRefreshToken, Ladder, Locked, TypeOK, Phases, Begin, Issue,
            Inside, Grant, NoEntries, Revoking, Removing, TakeSlugLock, Goto, Persisting
<1>16. ASSUME NEW p \in Proc, NEW s \in Slug, RecoverStagedTokenImport(p, s)
     PROVE  Ladder
    BY <1>16, <1>0 DEF RecoverStagedTokenImport, Ladder, Locked, TypeOK, Phases, Begin,
            Inside, Grant, NoEntries, Revoking, Removing, TakeSlugLock, Goto, Persisting
<1>17. ASSUME NEW p \in Proc, NEW s \in Slug, DisconnectCompany(p, s)
     PROVE  Ladder
    BY <1>17, <1>0 DEF DisconnectCompany, Ladder, Locked, TypeOK, Phases, Begin, Inside,
            Grant, NoEntries, Revoking, Removing, TakeSlugLock, Goto, Persisting
<1>18. ASSUME NEW p \in Proc, VerifyImport(p)
     PROVE  Ladder
    BY <1>18, <1>0 DEF VerifyImport, Ladder, Locked, TypeOK, Phases, Verified, Without,
            Goto, Inside, Grant, NoEntries, Revoking, Removing, Persisting
<1>19. ASSUME NEW p \in Proc, Unstage(p)
     PROVE  Ladder
    BY <1>19, <1>0 DEF Unstage, End, Reset, Without, Ladder, TypeOK, Phases, Inside
<1>20. ASSUME NEW p \in Proc, CheckIdentities(p)
     PROVE  Ladder
    BY <1>20, <1>0 DEF CheckIdentities, Ladder, Locked, TypeOK, Phases, Goto, Inside,
            Grant, NoEntries, Revoking, Removing, Persisting
<1>21. ASSUME NEW p \in Proc, MarkAttempt(p)
     PROVE  Ladder
    BY <1>21, <1>0 DEF MarkAttempt, Ladder, Locked, TypeOK, Phases, Grant, Goto, Inside,
            NoEntries, Revoking, Removing, Persisting
<1>22. ASSUME NEW p \in Proc, LocalFailure(p)
     PROVE  Ladder
    BY <1>22, <1>0 DEF LocalFailure, Ladder, Locked, TypeOK, Phases, Grant, Inside,
            NoEntries, Revoking, Removing, Persisting
<1>23. ASSUME NEW p \in Proc, PostRevocation(p)
     PROVE  Ladder
    BY <1>23, <1>0 DEF PostRevocation, Ladder, Locked, TypeOK, Phases, Goto, Inside,
            Grant, NoEntries, Revoking, Removing, Persisting
<1>24. ASSUME NEW p \in Proc, RevocationConfirmed(p)
     PROVE  Ladder
    BY <1>24, <1>0 DEF RevocationConfirmed, Ladder, Locked, TypeOK, Phases,
            RecordOutcome, Inside, Grant, NoEntries, Revoking, Removing, Goto,
            Persisting
<1>25. ASSUME NEW p \in Proc, RevocationLost(p)
     PROVE  Ladder
    BY <1>25, <1>0 DEF RevocationLost, Ladder, Locked, TypeOK, Phases, RecordOutcome,
            Inside, Grant, NoEntries, Revoking, Removing, Goto, Persisting
<1>26. ASSUME NEW p \in Proc, RevocationRefused(p)
     PROVE  Ladder
    BY <1>26, <1>0 DEF RevocationRefused, Ladder, Locked, TypeOK, Phases, RecordOutcome,
            Inside, Grant, NoEntries, Revoking, Removing, Goto, Persisting
<1>27. ASSUME NEW p \in Proc, UnlinkFile(p)
     PROVE  Ladder
    BY <1>27, <1>0 DEF UnlinkFile, Ladder, Locked, TypeOK, Phases, Goto, Inside, Grant,
            NoEntries, Revoking, Removing, Persisting
<1>28. ASSUME NEW p \in Proc, UnlinkStage(p)
     PROVE  Ladder
    BY <1>28, <1>0 DEF UnlinkStage, Ladder, Locked, TypeOK, Phases, Goto, Inside, Grant,
            NoEntries, Revoking, Removing, Persisting
<1>29. ASSUME NEW p \in Proc, UnlinkReceipt(p)
     PROVE  Ladder
    BY <1>29, <1>0 DEF UnlinkReceipt, End, Reset, Without, Ladder, TypeOK, Phases, Inside
<1>30. CASE UNCHANGED vars
    BY <1>30, <1>0 DEF vars, Ladder, Locked, TypeOK, Phases, Inside, Grant, NoEntries,
            Revoking, Removing, Persisting
<1> QED
    BY <1>1, <1>2, <1>3, <1>4, <1>5, <1>6, <1>7, <1>8, <1>9, <1>10, <1>11, <1>12, <1>13,
            <1>14, <1>15, <1>16, <1>17, <1>18, <1>19, <1>20, <1>21, <1>22, <1>23, <1>24,
            <1>25, <1>26, <1>27, <1>28, <1>29, <1>30 DEF
            Next, Listener, Start, Authorize, Maintain

\* The next lock is the least of those missing, so it is above those held.
LEMMA OrderedStep ==
    ASSUME Shape, Shape', Locked, Homes, Ordered, [Next]_vars PROVE Ordered'
<1> SUFFICES ASSUME NEW c \in Call, pc'[c] = "realmLock",
                    NEW r \in Realm, realmLock'[r] = c, NEW q \in Missing(c)'
             PROVE  r < q
    BY DEF Ordered, Held
<1>1. /\ pc[c] = "realmLock" /\ at[c] \in Slug
      /\ op'[c] = op[c] /\ cur'[c] = cur[c] /\ book'[c] = book[c]
      /\ \/ \A x \in Realm : realmLock'[x] = c <=> realmLock[x] = c
         \/ LockRealm(c)
    BY LadderStep DEF Ladder
<1>2. \A g \in Grant : Carries(c, g) => realmOf'[g] = realmOf[g] /\ realmOf[g] \in Realm
  <2>1. \A g \in Grant : Carries(c, g) => g <= issued
      BY <1>1 DEF Homes, Has
  <2>2. \A g \in Grant : g <= issued => realmOf'[g] = realmOf[g]
      BY FlowStep DEF Flow, Keeps, Issued, Grant, Shape, TypeOK
  <2> QED
      BY <2>1, <2>2 DEF Shape, TypeOK
<1>3. Wanted(c)' = Wanted(c) /\ Wanted(c) \subseteq Realm
  <2>1. CASE op[c] = "disconnect"
    <3>1. \A g \in Listed(book[c]) : realmOf'[g] = realmOf[g] /\ realmOf[g] \in Realm
        BY <1>2 DEF Listed, Carries
    <3>2. Listed(book[c])' = Listed(book[c])
        BY <1>1 DEF Listed
    <3> QED
        BY <1>1, <2>1, <3>1, <3>2 DEF Wanted
  <2>2. CASE op[c] # "disconnect"
    <3>1. cur[c] \in Grant
        BY <1>1, <2>2 DEF Shape, TypeOK, Phases, Inside
    <3>2. realmOf'[cur[c]] = realmOf[cur[c]] /\ realmOf[cur[c]] \in Realm
        BY <1>2, <3>1 DEF Carries
    <3> QED
        BY <1>1, <2>2, <3>2 DEF Wanted
  <2> QED
      BY <2>1, <2>2
<1>4. q \in Realm /\ q \in Wanted(c) /\ realmLock'[q] # c
    BY <1>3 DEF Missing
<1>5. CASE \A x \in Realm : realmLock'[x] = c <=> realmLock[x] = c
  <2>1. q \in Missing(c)
      BY <1>4, <1>5 DEF Missing
  <2> QED
      BY <1>1, <1>5, <2>1 DEF Ordered, Held
<1>6. CASE LockRealm(c)
  <2> DEFINE n == NextRealm(c)
  <2>1. Missing(c) \in SUBSET Nat /\ Missing(c) # {}
      BY <1>3, <1>6 DEF Missing, LockRealm
  <2>2. n \in Missing(c) /\ \A x \in Missing(c) : n <= x
    <3>1. \E m \in Missing(c) : \A x \in Missing(c) : m <= x
        BY <2>1, LeastNumber
    <3> QED
        BY <3>1 DEF NextRealm
  <2>3. realmLock' = [realmLock EXCEPT ![n] = c] /\ n \in Realm
      BY <1>3, <1>6, <2>2 DEF LockRealm, Missing
  <2>4. q \in Missing(c) /\ q # n
      BY <1>4, <2>3 DEF Missing, Shape, TypeOK
  <2> HIDE DEF n
  <2>5. CASE r = n
      BY <2>1, <2>2, <2>4, <2>5
  <2>6. CASE r # n
    <3>1. realmLock[r] = c
        BY <2>3, <2>6 DEF Shape, TypeOK
    <3> QED
        BY <1>1, <2>4, <3>1 DEF Ordered, Held
  <2> QED
      BY <2>5, <2>6
<1> QED
    BY <1>1, <1>5, <1>6

-----------------------------------------------------------------------------
\* The entries of a journal whose revocation may have reached Intuit.
Sent == {"attempting", "retrying", "ambiguous", "confirmed"}

Disconnecting(c) == pc[c] \in Inside /\ op[c] = "disconnect"

\* A grant with a revocation that may have been carried out is marked as sent wherever its
\* slug keeps it, on disk and in memory; the mark comes before the request.
Marked ==
    /\ \A s \in Slug, g \in revoking : Has(s, g) => receipt[s] # None /\ receipt[s][g] \in Sent
    /\ \A c \in Call, g \in revoking :
          Disconnecting(c) /\ Has(at[c], g) => book[c][g] \in Sent
    /\ \A c \in Call : pc[c] \in {"post", "await"} =>
          /\ receipt[at[c]] # None /\ receipt[at[c]][cur[c]] \in {"attempting", "retrying"}
          /\ book[c][cur[c]] \in {"attempting", "retrying"}
    /\ \A c \in Call : pc[c] = "post" => cur[c] \notin revoking

\* The disconnect's journal on disk and in memory, and its end: what Intuit confirmed is
\* revoked, a journal with an unrecorded answer is not acted on, and files go in order.
Kept ==
    /\ \A c \in Call : pc[c] \in {"write", "verify"} => receipt[at[c]] = None
    /\ \A c \in Call, g \in Grant : book[c][g] = "confirmed" => g \in revoked
    /\ \A s \in Slug, g \in Grant :
          receipt[s] # None /\ receipt[s][g] = "confirmed" => g \in revoked
    /\ \A c \in Call :
          pc[c] \in Revoking \cup Removing /\ durable[c] => receipt[at[c]] = book[c]
    /\ \A c \in Call : pc[c] \in Removing => AllConfirmed(c) /\ file[at[c]] = None
    /\ \A c \in Call : pc[c] = "unlinkReceipt" => stage[at[c]] = None

LEMMA InitMarked == Init => Marked
    BY DEF Init, Marked, Disconnecting, Inside, Persisting, Revoking, Removing

\* A step that has nothing to do with revocations: no journal changes, no call comes to
\* disconnect, and those that do stay where they are.
Calm ==
    /\ UNCHANGED <<revoking, receipt>>
    /\ \A c \in Call : Disconnecting(c)' =>
          /\ Disconnecting(c) /\ at[c] \in Slug /\ UNCHANGED <<at[c], book[c]>>
          /\ pc'[c] \in {"post", "await"} => pc[c] = pc'[c] /\ UNCHANGED cur[c]

\* What a slug has of the grants in question it had before.
LEMMA OldGrants ==
    ASSUME Shape, Shape', Homes, [Next]_vars, NEW s \in Slug, NEW g \in revoking, Has(s, g)'
    PROVE  Has(s, g)
<1>1. Flow /\ g \in Grant /\ g <= issued /\ issued \in Nat
    BY FlowStep DEF Homes, Shape, TypeOK
<1>2. ~(g = issued' /\ issued' = issued + 1)
    BY <1>1 DEF Grant
<1> QED
    BY <1>1, <1>2 DEF Flow, Keeps, Issued, Gains

\* A calm step keeps the marks.
LEMMA CalmStep ==
    ASSUME Shape, Shape', Homes, Marked, [Next]_vars, Calm
    PROVE  Marked'
<1>1. \A s \in Slug, g \in revoking : Has(s, g)' => Has(s, g)
    BY OldGrants
<1>2. \A c \in Call : pc'[c] \in {"post", "await"} => Disconnecting(c)'
    BY DEF Disconnecting, Inside, Revoking, Removing, Shape, Phases
<1> QED
    BY <1>1, <1>2 DEF Marked, Calm

\* Two calls that disconnect one slug are one call.
LEMMA OneDisconnects ==
    ASSUME Shape, Locked, NEW c \in Call, NEW d \in Call,
           pc[c] \in Inside, pc[d] \in Inside, at[c] = at[d]
    PROVE  c = d
    BY DEF Locked

\* A disconnecting call writes its journal: from memory, and nothing sent becomes unsent.
JournalWritten(p) ==
    /\ Disconnecting(p) /\ at[p] \in Slug
    /\ UNCHANGED <<op, at>> /\ revoking' \subseteq revoking
    /\ \A c \in Call \ {p} : UNCHANGED <<pc[c], cur[c], book[c]>>
    /\ \A s \in Slug \ {at[p]} : UNCHANGED receipt[s]
    /\ receipt'[at[p]] \in {receipt[at[p]], book'[p]}
    /\ \A g \in revoking' : book[p][g] \in Sent => book'[p][g] \in Sent
    /\ pc'[p] \in {"post", "await"} =>
          /\ receipt'[at[p]] = book'[p] /\ book'[p][cur'[p]] \in {"attempting", "retrying"}
          /\ cur'[p] \notin revoking'

\* Writing the journal keeps the marks.
LEMMA JournalStep ==
    ASSUME Shape, Shape', Locked, Homes, Marked, [Next]_vars,
           NEW p \in Call, JournalWritten(p)
    PROVE  Marked'
<1>1. \A s \in Slug, g \in revoking' : Has(s, g)' => Has(s, g) /\ g \in revoking
    BY OldGrants DEF JournalWritten
<1>2. book'[p] # None
    BY DEF Shape, TypeOK
<1>3. ASSUME NEW s \in Slug, NEW g \in revoking', Has(s, g)'
      PROVE  receipt'[s] # None /\ receipt'[s][g] \in Sent
  <2>1. Has(s, g) /\ receipt[s] # None /\ receipt[s][g] \in Sent
      BY <1>1, <1>3 DEF Marked
  <2>2. s = at[p] => book'[p][g] \in Sent
      BY <1>1, <2>1 DEF Marked, JournalWritten
  <2> QED
      BY <1>2, <2>1, <2>2 DEF JournalWritten
<1>4. ASSUME NEW c \in Call, NEW g \in revoking', Disconnecting(c)', Has(at[c], g)'
      PROVE  book'[c][g] \in Sent
  <2>1. at'[c] = at[c] /\ at[c] \in Slug
      BY <1>4 DEF JournalWritten, Disconnecting, Inside, Persisting, Revoking, Removing,
              Shape, TypeOK, Phases
  <2>2. Has(at[c], g) /\ g \in revoking
      BY <1>1, <1>4, <2>1
  <2> QED
      BY <1>4, <2>1, <2>2 DEF Marked, JournalWritten, Disconnecting
<1>5. ASSUME NEW c \in Call, c # p, pc[c] \in {"post", "await"}
      PROVE  at[c] # at[p] /\ at[c] \in Slug
    BY <1>5, OneDisconnects DEF JournalWritten, Disconnecting, Inside, Revoking, Shape,
            Phases
<1>6. ASSUME NEW c \in Call, pc'[c] \in {"post", "await"}
      PROVE  /\ receipt'[at'[c]] # None /\ receipt'[at'[c]][cur'[c]] \in {"attempting", "retrying"}
             /\ book'[c][cur'[c]] \in {"attempting", "retrying"}
  <2>1. CASE c = p
      BY <1>2, <1>6, <2>1 DEF JournalWritten
  <2>2. CASE c # p
    <3>1. pc'[c] = pc[c] /\ cur'[c] = cur[c] /\ book'[c] = book[c] /\ at'[c] = at[c]
        BY <2>2 DEF JournalWritten
    <3>2. receipt'[at[c]] = receipt[at[c]]
        BY <1>5, <1>6, <2>2, <3>1 DEF JournalWritten
    <3> QED
        BY <1>6, <3>1, <3>2 DEF Marked
  <2> QED
      BY <2>1, <2>2
<1>7. ASSUME NEW c \in Call, pc'[c] = "post" PROVE cur'[c] \notin revoking'
    BY <1>7 DEF Marked, JournalWritten
<1>8. \A c \in Call, g \in revoking' : Disconnecting(c)' /\ Has(at[c], g)' => book'[c][g] \in Sent
    BY <1>4
<1> QED
    BY <1>3, <1>6, <1>7, <1>8 DEF Marked

\* Each action keeps the marks.
LEMMA MarkedStep ==
    ASSUME Shape, Shape', Locked, Homes, Marked, Kept, [Next]_vars PROVE Marked'
<1>0. TypeOK /\ Phases /\ TypeOK' /\ Phases'
    BY DEF Shape
<1>1. CASE CancelAuthorization
  <2>1. Calm
      BY <1>1, <1>0 DEF CancelAuthorization, StopListening, Owner, PortWithout, Reset,
              Deaf, Calm, Disconnecting, Inside, Persisting, Revoking, Removing, TypeOK,
              Phases
  <2> QED
      BY <2>1, CalmStep
<1>2. CASE Expire
  <2>1. Calm
      BY <1>2, <1>0 DEF Expire, StopListening, Owner, PortWithout, Reset, Deaf, Calm,
              Disconnecting, Inside, Persisting, Revoking, Removing, TypeOK, Phases
  <2> QED
      BY <2>1, CalmStep
<1>3. CASE ServerDies
  <2>1. Calm
      BY <1>3, <1>0 DEF ServerDies, End, Reset, Without, PortWithout, Calm,
              Disconnecting, Inside, Persisting, Revoking, Removing, TypeOK, Phases
  <2> QED
      BY <2>1, CalmStep
<1>4. ASSUME NEW a \in Attempt, NEW s \in Slug, BeginAuthorization(a, s)
     PROVE  Marked'
  <2>1. Calm
      BY <1>4, <1>0 DEF BeginAuthorization, Deaf, Owner, PortWithout, Reset, Calm,
              Disconnecting, Inside, Persisting, Revoking, Removing, TypeOK, Phases
  <2> QED
      BY <2>1, CalmStep
<1>5. ASSUME NEW a \in Attempt, BadCallback(a)
     PROVE  Marked'
  <2>1. Calm
      BY <1>5, <1>0 DEF BadCallback, StopListening, PortWithout, Reset, Deaf, Calm,
              Disconnecting, Inside, Persisting, Revoking, Removing, TypeOK, Phases
  <2> QED
      BY <2>1, CalmStep
<1>6. ASSUME NEW a \in Attempt, Callback(a)
     PROVE  Marked'
  <2>1. Calm
      BY <1>6, <1>0 DEF Callback, Goto, Calm, Disconnecting, Inside, Persisting,
              Revoking, Removing, TypeOK, Phases
  <2> QED
      BY <2>1, CalmStep
<1>7. ASSUME NEW a \in Attempt, Exchange(a)
     PROVE  Marked'
  <2>1. Calm
      BY <1>7, <1>0 DEF Exchange, TakeSlugLock, Issue, Goto, Calm, Disconnecting,
              Inside, Persisting, Revoking, Removing, TypeOK, Phases
  <2> QED
      BY <2>1, CalmStep
<1>8. ASSUME NEW c \in Call, Fail(c)
     PROVE  Marked'
  <2>1. Calm
      BY <1>8, <1>0 DEF Fail, End, Reset, Without, PortWithout, Calm, Disconnecting,
              Inside, Persisting, Revoking, Removing, TypeOK, Phases
  <2> QED
      BY <2>1, CalmStep
<1>9. ASSUME NEW c \in Call, LockRealm(c)
     PROVE  Marked'
  <2>1. Calm
      BY <1>9, <1>0 DEF LockRealm, Calm, Disconnecting, Inside, Persisting, Revoking,
              Removing, TypeOK, Phases
  <2> QED
      BY <2>1, CalmStep
<1>10. ASSUME NEW c \in Call, Vet(c)
     PROVE  Marked'
  <2>1. Calm
      BY <1>10, <1>0 DEF Vet, Goto, Calm, Disconnecting, Inside, Persisting, Revoking,
              Removing, TypeOK, Phases
  <2> QED
      BY <2>1, CalmStep
<1>11. ASSUME NEW c \in Call, Write(c)
     PROVE  Marked'
  <2>1. Calm
      BY <1>11, <1>0 DEF Write, Goto, Calm, Disconnecting, Inside, Persisting, Revoking,
              Removing, TypeOK, Phases
  <2> QED
      BY <2>1, CalmStep
<1>12. ASSUME NEW c \in Call, Connected(c)
     PROVE  Marked'
  <2>1. Calm
      BY <1>12, <1>0 DEF Connected, End, Reset, Without, PortWithout, Calm,
              Disconnecting, Inside, Persisting, Revoking, Removing, TypeOK, Phases
  <2> QED
      BY <2>1, CalmStep
<1>13. ASSUME NEW c \in Call, RollBack(c)
     PROVE  Marked'
  <2>1. Calm
      BY <1>13, <1>0 DEF RollBack, End, Reset, Without, PortWithout, Calm, Disconnecting,
              Inside, Persisting, Revoking, Removing, TypeOK, Phases
  <2> QED
      BY <2>1, CalmStep
<1>14. ASSUME NEW p \in Proc, NEW s \in Slug, RunAuthorizationFlow(p, s)
     PROVE  Marked'
  <2>1. Calm
      BY <1>14, <1>0 DEF RunAuthorizationFlow, Begin, Issue, TakeSlugLock, Goto, Calm,
              Disconnecting, Inside, Persisting, Revoking, Removing, TypeOK, Phases
  <2> QED
      BY <2>1, CalmStep
<1>15. ASSUME NEW p \in Proc, NEW s \in Slug, ImportRefreshToken(p, s)
     PROVE  Marked'
  <2>1. Calm
      BY <1>15, <1>0 DEF ImportRefreshToken, Begin, Issue, TakeSlugLock, Goto, Calm,
              Disconnecting, Inside, Persisting, Revoking, Removing, TypeOK, Phases
  <2> QED
      BY <2>1, CalmStep
<1>16. ASSUME NEW p \in Proc, NEW s \in Slug, RecoverStagedTokenImport(p, s)
     PROVE  Marked'
  <2>1. Calm
      BY <1>16, <1>0 DEF RecoverStagedTokenImport, Begin, TakeSlugLock, Goto, Calm,
              Disconnecting, Inside, Persisting, Revoking, Removing, TypeOK, Phases
  <2> QED
      BY <2>1, CalmStep
<1>17. ASSUME NEW p \in Proc, NEW s \in Slug, DisconnectCompany(p, s)
     PROVE  Marked'
  <2>1. /\ pc[p] = "idle" /\ pc' = [pc EXCEPT ![p] = "realmLock"]
        /\ op' = [op EXCEPT ![p] = "disconnect"] /\ at' = [at EXCEPT ![p] = s]
        /\ book' = [book EXCEPT ![p] = Entries(s)] /\ UNCHANGED <<receipt, revoking, cur>>
      BY <1>17 DEF DisconnectCompany, Begin, Goto
  <2>2. \A t \in Slug, g \in revoking : Has(t, g)' => Has(t, g)
      BY OldGrants
  <2>3. \A g \in Grant : Has(s, g) /\ g \in revoking => Entries(s)[g] \in Sent
      BY DEF Marked, Entries, Sent
  <2>4. \A c \in Call :
            c # p /\ Disconnecting(c)' => Disconnecting(c) /\ at'[c] = at[c] /\ at[c] \in Slug
      BY <1>0, <2>1 DEF Disconnecting, Inside, Persisting, Revoking, Removing, TypeOK,
              Phases
  <2>5. \A c \in Call, g \in revoking' : Disconnecting(c)' /\ Has(at[c], g)' => book'[c][g] \in Sent
    <3>1. ASSUME NEW c \in Call, NEW g \in revoking, Disconnecting(c)', Has(at[c], g)'
          PROVE  book'[c][g] \in Sent
      <4>1. CASE c = p
          BY <1>0, <2>1, <2>2, <2>3, <3>1, <4>1 DEF TypeOK
      <4>2. CASE c # p
          BY <1>0, <2>1, <2>2, <2>4, <3>1, <4>2 DEF Marked, TypeOK
      <4> QED
          BY <4>1, <4>2
    <3> QED
        BY <2>1, <3>1
  <2>6. \A c \in Call : pc'[c] \in {"post", "await"} =>
            c # p /\ pc[c] = pc'[c] /\ at'[c] = at[c] /\ book'[c] = book[c]
      BY <1>0, <2>1 DEF TypeOK
  <2> QED
      BY <2>1, <2>2, <2>5, <2>6 DEF Marked
<1>18. ASSUME NEW p \in Proc, VerifyImport(p)
     PROVE  Marked'
  <2>1. Calm
      BY <1>18, <1>0 DEF VerifyImport, Without, Goto, Calm, Disconnecting, Inside,
              Persisting, Revoking, Removing, TypeOK, Phases
  <2> QED
      BY <2>1, CalmStep
<1>19. ASSUME NEW p \in Proc, Unstage(p)
     PROVE  Marked'
  <2>1. Calm
      BY <1>19, <1>0 DEF Unstage, End, Reset, Without, PortWithout, Calm, Disconnecting,
              Inside, Persisting, Revoking, Removing, TypeOK, Phases
  <2> QED
      BY <2>1, CalmStep
<1>20. ASSUME NEW p \in Proc, CheckIdentities(p)
     PROVE  Marked'
  <2>1. JournalWritten(p)
      BY <1>20, <1>0 DEF CheckIdentities, Goto, JournalWritten, Disconnecting, Inside,
              TypeOK, Phases
  <2> QED
      BY <2>1, JournalStep
<1>21. ASSUME NEW p \in Proc, MarkAttempt(p)
     PROVE  Marked'
  <2>1. PICK g \in Grant :
            /\ Revocable(p, g) /\ book' = [book EXCEPT ![p][g] = InFlight(book[p][g])]
            /\ receipt' = [receipt EXCEPT ![at[p]] = book'[p]] /\ cur' = [cur EXCEPT ![p] = g]
      BY <1>21 DEF MarkAttempt
  <2>2. /\ Disconnecting(p) /\ at[p] \in Slug /\ pc' = [pc EXCEPT ![p] = "post"]
        /\ UNCHANGED <<op, at, revoking>>
      BY <1>21, <1>0 DEF MarkAttempt, Goto, Disconnecting, Inside, Revoking, TypeOK, Phases
  <2>3. book'[p][g] \in {"attempting", "retrying"}
      BY <1>0, <2>1 DEF InFlight, TypeOK, Receipt
  <2>4. g \notin revoking
    <3>1. Has(at[p], g) /\ book[p][g] \notin Sent
        BY <2>1 DEF Revocable, Has, Carries, Sent
    <3> QED
        BY <2>2, <3>1 DEF Marked
  <2>5. JournalWritten(p)
      BY <1>0, <2>1, <2>2, <2>3, <2>4 DEF JournalWritten, TypeOK, Receipt
  <2> QED
      BY <2>5, JournalStep
<1>22. ASSUME NEW p \in Proc, LocalFailure(p)
     PROVE  Marked'
  <2>1. Calm
      BY <1>22, <1>0 DEF LocalFailure, Grant, Calm, Disconnecting, Inside, Persisting,
              Revoking, Removing, TypeOK, Phases
  <2> QED
      BY <2>1, CalmStep
<1>23. ASSUME NEW p \in Proc, PostRevocation(p)
     PROVE  Marked'
  <2>1. /\ Disconnecting(p) /\ at[p] \in Slug /\ cur[p] \in Grant /\ pc[p] = "post"
        /\ pc' = [pc EXCEPT ![p] = "await"] /\ revoking' = revoking \cup {cur[p]}
        /\ UNCHANGED <<file, stage, receipt, op, at, cur, prev, book>>
      BY <1>23, <1>0 DEF PostRevocation, Goto, Disconnecting, Inside, Revoking, TypeOK,
              Phases
  <2>2. \A s \in Slug, g \in Grant : Has(s, g)' <=> Has(s, g)
      BY <2>1 DEF Has, Stores, Carries
  <2>3. Has(at[p], cur[p]) /\ \A s \in Slug : Has(s, cur[p]) => s = at[p]
    <3>1. Has(at[p], cur[p])
        BY <2>1 DEF Has, Carries
    <3> QED
        BY <2>1, <3>1 DEF Homes
  <2>4. \A s \in Slug, g \in revoking' : Has(s, g)' => receipt'[s] # None /\ receipt'[s][g] \in Sent
      BY <1>0, <2>1, <2>2, <2>3 DEF Marked, Sent, TypeOK
  <2>5. \A c \in Call : Disconnecting(c) /\ Has(at[c], cur[p]) => c = p
      BY <1>0, <2>1, <2>3, OneDisconnects DEF Disconnecting, Inside, Persisting, Revoking,
              Removing, Phases
  <2>6. \A c \in Call : Disconnecting(c)' => Disconnecting(c) /\ at[c] \in Slug
      BY <1>0, <2>1 DEF Disconnecting, Inside, Persisting, Revoking, Removing, TypeOK,
              Phases
  <2>7. \A c \in Call, g \in revoking' : Disconnecting(c)' /\ Has(at[c], g)' => book'[c][g] \in Sent
    <3>1. ASSUME NEW c \in Call, NEW g \in revoking', Disconnecting(c)', Has(at[c], g)'
          PROVE  book[c][g] \in Sent
      <4>1. Disconnecting(c) /\ Has(at[c], g)
          BY <1>0, <2>1, <2>2, <2>6, <3>1 DEF TypeOK
      <4> QED
          BY <2>1, <2>5, <4>1 DEF Marked, Sent
    <3> QED
        BY <2>1, <3>1
  <2>8. \A c \in Call : c # p /\ pc'[c] \in {"post", "await"} => pc[c] = pc'[c] /\ cur[c] # cur[p]
    <3>1. \A c \in Call : pc[c] \in {"post", "await"} => Disconnecting(c) /\ Has(at[c], cur[c])
        BY <1>0 DEF Disconnecting, Inside, Revoking, Has, Carries, Phases
    <3> QED
        BY <1>0, <2>1, <2>5, <3>1 DEF TypeOK
  <2>9. \A c \in Call : pc'[c] = "post" => cur'[c] \notin revoking'
      BY <1>0, <2>1, <2>8 DEF Marked, TypeOK
  <2> QED
      BY <1>0, <2>1, <2>4, <2>7, <2>8, <2>9 DEF Marked, TypeOK
<1>24. ASSUME NEW p \in Proc, RevocationConfirmed(p)
     PROVE  Marked'
  <2>1. /\ Disconnecting(p) /\ at[p] \in Slug /\ cur[p] \in Grant
        /\ book' = [book EXCEPT ![p][cur[p]] = "confirmed"] /\ pc' = [pc EXCEPT ![p] = "revoke"]
        /\ receipt' \in {receipt, [receipt EXCEPT ![at[p]] = book'[p]]}
        /\ UNCHANGED <<op, at, cur>>
      BY <1>24, <1>0 DEF RevocationConfirmed, RecordOutcome, Goto, Disconnecting, Inside,
              Revoking, TypeOK, Phases
  <2>2. revoking' \subseteq revoking /\ \A g \in revoking' : g = cur[p] => "confirmed" \in Sent
      BY <1>24 DEF RevocationConfirmed, Sent
  <2>3. JournalWritten(p)
      BY <1>0, <2>1, <2>2 DEF JournalWritten, TypeOK, Receipt
  <2> QED
      BY <2>3, JournalStep
<1>25. ASSUME NEW p \in Proc, RevocationLost(p)
     PROVE  Marked'
  <2>1. /\ Disconnecting(p) /\ at[p] \in Slug /\ cur[p] \in Grant
        /\ book' = [book EXCEPT ![p][cur[p]] = "ambiguous"] /\ pc' = [pc EXCEPT ![p] = "revoke"]
        /\ receipt' \in {receipt, [receipt EXCEPT ![at[p]] = book'[p]]}
        /\ UNCHANGED <<op, at, cur>>
      BY <1>25, <1>0 DEF RevocationLost, RecordOutcome, Goto, Disconnecting, Inside,
              Revoking, TypeOK, Phases
  <2>2. revoking' \subseteq revoking /\ \A g \in revoking' : g = cur[p] => "ambiguous" \in Sent
      BY <1>25 DEF RevocationLost, Sent
  <2>3. JournalWritten(p)
      BY <1>0, <2>1, <2>2 DEF JournalWritten, TypeOK, Receipt
  <2> QED
      BY <2>3, JournalStep
<1>26. ASSUME NEW p \in Proc, RevocationRefused(p)
     PROVE  Marked'
  <2>1. /\ Disconnecting(p) /\ at[p] \in Slug /\ cur[p] \in Grant
        /\ book' = [book EXCEPT ![p][cur[p]] = Refused(book[p][cur[p]])] /\ pc' = [pc EXCEPT ![p] = "revoke"]
        /\ receipt' \in {receipt, [receipt EXCEPT ![at[p]] = book'[p]]}
        /\ UNCHANGED <<op, at, cur>>
      BY <1>26, <1>0 DEF RevocationRefused, RecordOutcome, Goto, Disconnecting, Inside,
              Revoking, TypeOK, Phases
  <2>2. revoking' \subseteq revoking /\ \A g \in revoking' : g = cur[p] => Refused(book[p][cur[p]]) \in Sent
      BY <1>26 DEF RevocationRefused, Sent
  <2>3. JournalWritten(p)
      BY <1>0, <2>1, <2>2 DEF JournalWritten, TypeOK, Receipt
  <2> QED
      BY <2>3, JournalStep
<1>27. ASSUME NEW p \in Proc, UnlinkFile(p)
     PROVE  Marked'
  <2>1. Calm
      BY <1>27, <1>0 DEF UnlinkFile, Goto, Calm, Disconnecting, Inside, Persisting,
              Revoking, Removing, TypeOK, Phases
  <2> QED
      BY <2>1, CalmStep
<1>28. ASSUME NEW p \in Proc, UnlinkStage(p)
     PROVE  Marked'
  <2>1. Calm
      BY <1>28, <1>0 DEF UnlinkStage, Goto, Calm, Disconnecting, Inside, Persisting,
              Revoking, Removing, TypeOK, Phases
  <2> QED
      BY <2>1, CalmStep
<1>29. ASSUME NEW p \in Proc, UnlinkReceipt(p)
     PROVE  Marked'
  <2>1. /\ pc[p] = "unlinkReceipt" /\ at[p] \in Slug /\ p \in Call /\ End({p})
        /\ receipt' = [receipt EXCEPT ![at[p]] = None] /\ UNCHANGED <<file, stage, revoking>>
      BY <1>29, <1>0 DEF UnlinkReceipt, Phases
  <2>2. \A c \in Call : c # p => UNCHANGED <<pc[c], op[c], at[c], cur[c], prev[c], book[c]>>
      BY <1>0, <2>1 DEF End, Reset, TypeOK
  <2>3. pc'[p] = "idle" /\ at'[p] = None
      BY <1>0, <2>1 DEF End, Reset, TypeOK
  <2>4. \A c \in Call : c # p /\ pc[c] \in Inside => at[c] # at[p]
      BY <2>1, OneDisconnects DEF Inside, Removing
  <2>5. ASSUME NEW s \in Slug, s = at[p], NEW g \in Grant PROVE ~Has(s, g)'
    <3>1. ASSUME NEW c \in Call, at'[c] = s PROVE ~Carries(c, g)'
      <4>1. c # p /\ pc'[c] \notin Inside
          BY <2>1, <2>2, <2>3, <2>4, <2>5, <3>1
      <4>2. cur'[c] = None /\ prev'[c] = None /\ book'[c] = NoEntries
          BY <1>0, <4>1 DEF Phases
      <4> QED
          BY <4>2 DEF Carries, NoEntries
    <3>2. file'[s] = None /\ stage'[s] = None /\ receipt'[s] = None
        BY <1>0, <2>1, <2>5 DEF Kept, Removing, TypeOK
    <3> QED
        BY <3>1, <3>2 DEF Has, Stores
  <2>6. \A s \in Slug, g \in revoking : Has(s, g)' => Has(s, g) /\ s # at[p]
      BY <1>0, <2>5, OldGrants DEF TypeOK
  <2>7. \A c \in Call : Disconnecting(c)' => c # p /\ Disconnecting(c) /\ at[c] \in Slug
      BY <1>0, <2>2, <2>3 DEF Disconnecting, Inside, Persisting, Revoking, Removing, Phases
  <2>8. \A c \in Call : pc'[c] \in {"post", "await"} => c # p /\ at[c] # at[p]
      BY <2>2, <2>3, <2>4 DEF Inside, Revoking
  <2> QED
      BY <1>0, <2>1, <2>2, <2>6, <2>7, <2>8 DEF Marked, TypeOK
<1>30. CASE UNCHANGED vars
    BY <1>30, <1>0 DEF vars, Marked, Has, Sent, Disconnecting, Stores, Carries, Inside,
            Persisting, Revoking, Removing
<1> QED
    BY <1>1, <1>2, <1>3, <1>4, <1>5, <1>6, <1>7, <1>8, <1>9, <1>10, <1>11, <1>12, <1>13,
            <1>14, <1>15, <1>16, <1>17, <1>18, <1>19, <1>20, <1>21, <1>22, <1>23, <1>24,
            <1>25, <1>26, <1>27, <1>28, <1>29, <1>30 DEF
            Next, Listener, Start, Authorize, Maintain

-----------------------------------------------------------------------------
\* The end of a call keeps the journals.
LEMMA EndKept ==
    ASSUME Shape, Shape', Kept, NEW gone \in SUBSET Call, End(gone), revoked' = revoked,
           \A s \in Slug : receipt'[s] \in {receipt[s], None},
           \A c \in Call \ gone : pc[c] \in Inside =>
              /\ file'[at[c]] = file[at[c]] /\ stage'[at[c]] = stage[at[c]]
              /\ receipt'[at[c]] = receipt[at[c]]
    PROVE  Kept'
<1>1. \A c \in gone : pc'[c] = "idle" /\ book'[c] = NoEntries
    BY DEF End, Reset, Shape, TypeOK
<1>2. \A c \in Call \ gone : UNCHANGED <<pc[c], at[c], book[c], durable[c]>>
    BY DEF End, Reset, Shape, TypeOK
<1>3. \A c \in Call : pc[c] \in {"write", "verify"} \cup Revoking \cup Removing =>
         pc[c] \in Inside /\ at[c] \in Slug
    BY DEF Inside, Persisting, Revoking, Removing, Shape, Phases
<1>4. \A c \in Call, g \in Grant : book'[c][g] = "confirmed" => g \in revoked'
    BY <1>1, <1>2 DEF Kept, NoEntries
<1>5. \A s \in Slug, g \in Grant :
          receipt'[s] # None /\ receipt'[s][g] = "confirmed" => g \in revoked'
    BY DEF Kept
<1>6. \A c \in Call : pc'[c] \in {"write", "verify"} \cup Revoking \cup Removing =>
         /\ c \notin gone /\ pc'[c] = pc[c] /\ at'[c] = at[c] /\ book'[c] = book[c]
         /\ durable'[c] = durable[c] /\ receipt'[at[c]] = receipt[at[c]]
         /\ file'[at[c]] = file[at[c]] /\ stage'[at[c]] = stage[at[c]]
    BY <1>1, <1>2, <1>3 DEF Revoking, Removing
<1>7. \A c \in Call : pc'[c] \in {"write", "verify"} => receipt'[at'[c]] = None
    BY <1>6 DEF Kept
<1>8. \A c \in Call :
          pc'[c] \in Revoking \cup Removing /\ durable'[c] => receipt'[at'[c]] = book'[c]
    BY <1>6 DEF Kept
<1>9. \A c \in Call : pc'[c] \in Removing => AllConfirmed(c)' /\ file'[at'[c]] = None
    BY <1>6 DEF Kept, AllConfirmed, Listed
<1>10. \A c \in Call : pc'[c] = "unlinkReceipt" => stage'[at'[c]] = None
    BY <1>6 DEF Kept, Removing
<1> QED
    BY <1>4, <1>5, <1>7, <1>8, <1>9, <1>10 DEF Kept

\* So does an answer of Intuit, recorded on disk or only in memory.
LEMMA OutcomeKept ==
    ASSUME Shape, Shape', Locked, Kept, NEW p \in Proc, NEW state \in EntryState,
           RecordOutcome(p, state), revoked \subseteq revoked',
           state = "confirmed" => cur[p] \in revoked'
    PROVE  Kept'
<1>1. /\ p \in Call /\ at[p] \in Slug /\ cur[p] \in Grant /\ pc[p] = "await"
      /\ pc' = [pc EXCEPT ![p] = "revoke"] /\ book' = [book EXCEPT ![p][cur[p]] = state]
      /\ UNCHANGED <<file, stage, at>>
    BY DEF RecordOutcome, Goto, Shape, TypeOK, Phases
<1>2. /\ \A c \in Call \ {p} : book'[c] = book[c] /\ durable'[c] = durable[c]
      /\ \A s \in Slug \ {at[p]} : receipt'[s] = receipt[s]
      /\ receipt'[at[p]] \in {receipt[at[p]], book'[p]}
      /\ durable'[p] => receipt'[at[p]] = book'[p]
    BY <1>1 DEF RecordOutcome, Shape, TypeOK
<1>3. \A g \in Grant : book'[p][g] = IF g = cur[p] THEN state ELSE book[p][g]
    BY <1>1 DEF Shape, TypeOK, Receipt
<1>4. \A c \in Call : c # p /\ pc[c] \in Inside => at[c] # at[p] /\ at[c] \in Slug
    BY <1>1, OneDisconnects DEF Inside, Persisting, Revoking, Removing, Shape, Phases
<1>5. \A c \in Call, g \in Grant : book'[c][g] = "confirmed" => g \in revoked'
    BY <1>1, <1>2, <1>3 DEF Kept
<1>6. \A s \in Slug, g \in Grant :
          receipt'[s] # None /\ receipt'[s][g] = "confirmed" => g \in revoked'
  <2>1. ASSUME NEW s \in Slug, NEW g \in Grant, receipt'[s] # None, receipt'[s][g] = "confirmed"
        PROVE  g \in revoked'
    <3>1. receipt'[s] = receipt[s] \/ receipt'[s] = book'[p]
        BY <1>2
    <3> QED
        BY <1>1, <1>5, <2>1, <3>1 DEF Kept
  <2> QED
      BY <2>1
<1>7. \A c \in Call : pc'[c] \in {"write", "verify"} \cup Revoking \cup Removing =>
         c = p \/ (/\ pc'[c] = pc[c] /\ book'[c] = book[c] /\ durable'[c] = durable[c]
                   /\ receipt'[at[c]] = receipt[at[c]])
    BY <1>1, <1>2, <1>4 DEF Inside, Persisting, Revoking, Removing, Shape, TypeOK
<1>8. pc'[p] = "revoke"
    BY <1>1 DEF Shape, TypeOK
<1>9. \A c \in Call : pc'[c] \in {"write", "verify"} => receipt'[at'[c]] = None
    BY <1>1, <1>7, <1>8 DEF Kept
<1>10. \A c \in Call :
           pc'[c] \in Revoking \cup Removing /\ durable'[c] => receipt'[at'[c]] = book'[c]
    BY <1>1, <1>2, <1>7 DEF Kept
<1>11. \A c \in Call : pc'[c] \in Removing => AllConfirmed(c)' /\ file'[at'[c]] = None
    BY <1>1, <1>7, <1>8 DEF Kept, AllConfirmed, Listed, Removing
<1>12. \A c \in Call : pc'[c] = "unlinkReceipt" => stage'[at'[c]] = None
    BY <1>1, <1>7, <1>8 DEF Kept, Removing
<1> QED
    BY <1>5, <1>6, <1>9, <1>10, <1>11, <1>12 DEF Kept

\* Each action keeps the journals.
LEMMA KeptStep ==
    ASSUME Shape, Shape', Locked, Kept, [Next]_vars PROVE Kept'
<1>0. TypeOK /\ Phases /\ TypeOK' /\ Phases'
    BY DEF Shape
<1>00. \A c, d \in Call : pc[c] \in Inside /\ pc[d] \in Inside /\ at[c] = at[d] => c = d
    BY OneDisconnects
<1>1. CASE CancelAuthorization
    BY <1>1, <1>0, <1>00 DEF CancelAuthorization, Kept, TypeOK, Phases, StopListening,
            Owner, Grant, Revoking, Removing, AllConfirmed, Receipt, Inside, NoEntries,
            PortWithout, Reset, Deaf, Listed, EntryState, Persisting
<1>2. CASE Expire
    BY <1>2, <1>0, <1>00 DEF Expire, Kept, TypeOK, Phases, StopListening, Owner, Grant,
            Revoking, Removing, AllConfirmed, Receipt, Inside, NoEntries, PortWithout,
            Reset, Deaf, Listed, EntryState, Persisting
<1>3. CASE ServerDies
    BY <1>3, EndKept DEF ServerDies
<1>4. ASSUME NEW a \in Attempt, NEW s \in Slug, BeginAuthorization(a, s)
     PROVE  Kept'
    BY <1>4, <1>0, <1>00 DEF BeginAuthorization, Kept, TypeOK, Phases, Deaf, Owner,
            PortWithout, Reset, Grant, Revoking, Removing, AllConfirmed, Receipt,
            Inside, NoEntries, Listed, EntryState, Persisting
<1>5. ASSUME NEW a \in Attempt, BadCallback(a)
     PROVE  Kept'
    BY <1>5, <1>0, <1>00 DEF BadCallback, Kept, TypeOK, Phases, StopListening, Grant,
            Revoking, Removing, AllConfirmed, Receipt, Inside, NoEntries, PortWithout,
            Reset, Deaf, Listed, EntryState, Persisting
<1>6. ASSUME NEW a \in Attempt, Callback(a)
     PROVE  Kept'
    BY <1>6, <1>0, <1>00 DEF Callback, Kept, TypeOK, Phases, Goto, Grant, Revoking,
            Removing, AllConfirmed, Receipt, Inside, NoEntries, Listed, EntryState,
            Persisting
<1>7. ASSUME NEW a \in Attempt, Exchange(a)
     PROVE  Kept'
    BY <1>7, <1>0, <1>00 DEF Exchange, Kept, TypeOK, Phases, TakeSlugLock, Issue, Goto,
            Grant, Revoking, Removing, AllConfirmed, Receipt, Inside, NoEntries, Listed,
            EntryState, Persisting
<1>8. ASSUME NEW c \in Call, Fail(c)
     PROVE  Kept'
    BY <1>8, EndKept DEF Fail
<1>9. ASSUME NEW c \in Call, LockRealm(c)
     PROVE  Kept'
    BY <1>9, <1>0, <1>00 DEF LockRealm, Kept, TypeOK, Phases, Grant, Revoking, Removing,
            AllConfirmed, Receipt, Inside, NoEntries, Listed, EntryState, Persisting
<1>10. ASSUME NEW c \in Call, Vet(c)
     PROVE  Kept'
    BY <1>10, <1>0, <1>00 DEF Vet, Kept, TypeOK, Phases, Goto, Grant, Revoking,
            Removing, AllConfirmed, Receipt, Inside, NoEntries, Listed, EntryState,
            Persisting
<1>11. ASSUME NEW c \in Call, Write(c)
     PROVE  Kept'
  <2>1. /\ pc[c] = "write" /\ at[c] \in Slug /\ pc[c] \in Inside
        /\ file' = [file EXCEPT ![at[c]] = cur[c]] /\ pc' = [pc EXCEPT ![c] = "verify"]
        /\ UNCHANGED <<stage, receipt, at, book, durable, revoked>>
      BY <1>11, <1>0 DEF Write, Goto, Inside, Persisting, Phases
  <2>2. \A d \in Call : pc[d] \in Removing => file'[at[d]] = file[at[d]]
    <3>1. \A d \in Call : pc[d] \in Removing => d # c /\ at[d] # at[c] /\ at[d] \in Slug
        BY <1>0, <1>00, <2>1 DEF Inside, Removing, Phases
    <3> QED
        BY <1>0, <2>1, <3>1 DEF TypeOK
  <2>3. \A d \in Call : d # c => pc'[d] = pc[d]
      BY <1>0, <2>1 DEF TypeOK
  <2>4. pc'[c] = "verify"
      BY <1>0, <2>1 DEF TypeOK
  <2> QED
      BY <2>1, <2>2, <2>3, <2>4 DEF Kept, AllConfirmed, Listed, Revoking, Removing
<1>12. ASSUME NEW c \in Call, Connected(c)
     PROVE  Kept'
    BY <1>12, EndKept DEF Connected
<1>13. ASSUME NEW c \in Call, RollBack(c)
     PROVE  Kept'
  <2>1. pc[c] \in Inside /\ at[c] \in Slug /\ file' = [file EXCEPT ![at[c]] = prev[c]]
      BY <1>13, <1>0 DEF RollBack, Inside, Persisting, Removing, Phases
  <2>2. \A d \in Call : d # c /\ pc[d] \in Inside => at[d] # at[c] /\ at[d] \in Slug
      BY <1>0, <1>00, <2>1 DEF Inside, Persisting, Revoking, Removing, Phases
  <2>3. \A d \in Call \ {c} : pc[d] \in Inside =>
           /\ file'[at[d]] = file[at[d]] /\ stage'[at[d]] = stage[at[d]]
           /\ receipt'[at[d]] = receipt[at[d]]
      BY <1>13, <1>0, <2>1, <2>2 DEF RollBack, TypeOK
  <2>4. \A s \in Slug : receipt'[s] \in {receipt[s], None}
      BY <1>13, <1>0, <2>1 DEF RollBack, TypeOK
  <2> QED
      BY <1>13, <2>3, <2>4, EndKept DEF RollBack
<1>14. ASSUME NEW p \in Proc, NEW s \in Slug, RunAuthorizationFlow(p, s)
     PROVE  Kept'
    BY <1>14, <1>0, <1>00 DEF RunAuthorizationFlow, Kept, TypeOK, Phases, Begin, Issue,
            Grant, Revoking, Removing, AllConfirmed, Receipt, Inside, NoEntries,
            TakeSlugLock, Goto, Listed, EntryState, Persisting
<1>15. ASSUME NEW p \in Proc, NEW s \in Slug, ImportRefreshToken(p, s)
     PROVE  Kept'
    BY <1>15, <1>0, <1>00 DEF ImportRefreshToken, Kept, TypeOK, Phases, Begin, Issue,
            Grant, Revoking, Removing, AllConfirmed, Receipt, Inside, NoEntries,
            TakeSlugLock, Goto, Listed, EntryState, Persisting
<1>16. ASSUME NEW p \in Proc, NEW s \in Slug, RecoverStagedTokenImport(p, s)
     PROVE  Kept'
    BY <1>16, <1>0, <1>00 DEF RecoverStagedTokenImport, Kept, TypeOK, Phases, Begin,
            Grant, Revoking, Removing, AllConfirmed, Receipt, Inside, NoEntries,
            TakeSlugLock, Goto, Listed, EntryState, Persisting
<1>17. ASSUME NEW p \in Proc, NEW s \in Slug, DisconnectCompany(p, s)
     PROVE  Kept'
    BY <1>17, <1>0, <1>00 DEF DisconnectCompany, Kept, TypeOK, Phases, Begin, Listed,
            Entries, Grant, Revoking, Removing, AllConfirmed, Receipt, Inside,
            NoEntries, TakeSlugLock, Goto, EntryState, Persisting
<1>18. ASSUME NEW p \in Proc, VerifyImport(p)
     PROVE  Kept'
    BY <1>18, <1>0, <1>00 DEF VerifyImport, Kept, TypeOK, Phases, Verified, Without,
            Goto, Grant, Revoking, Removing, AllConfirmed, Receipt, Inside, NoEntries,
            Listed, EntryState, Persisting
<1>19. ASSUME NEW p \in Proc, Unstage(p)
     PROVE  Kept'
  <2>1. pc[p] \in Inside /\ at[p] \in Slug /\ stage' = [stage EXCEPT ![at[p]] = None]
      BY <1>19, <1>0 DEF Unstage, Inside, Persisting, Removing, Phases
  <2>2. \A d \in Call : d # p /\ pc[d] \in Inside => at[d] # at[p] /\ at[d] \in Slug
      BY <1>0, <1>00, <2>1 DEF Inside, Persisting, Revoking, Removing, Phases
  <2>3. \A d \in Call \ {p} : pc[d] \in Inside =>
           /\ file'[at[d]] = file[at[d]] /\ stage'[at[d]] = stage[at[d]]
           /\ receipt'[at[d]] = receipt[at[d]]
      BY <1>19, <1>0, <2>1, <2>2 DEF Unstage, TypeOK
  <2>4. \A s \in Slug : receipt'[s] \in {receipt[s], None}
      BY <1>19, <1>0, <2>1 DEF Unstage, TypeOK
  <2> QED
      BY <1>19, <2>3, <2>4, EndKept DEF Unstage
<1>20. ASSUME NEW p \in Proc, CheckIdentities(p)
     PROVE  Kept'
    BY <1>20, <1>0, <1>00 DEF CheckIdentities, Kept, TypeOK, Phases, Goto, Grant,
            Revoking, Removing, AllConfirmed, Receipt, Inside, NoEntries, Listed,
            EntryState, Persisting
<1>21. ASSUME NEW p \in Proc, MarkAttempt(p)
     PROVE  Kept'
    BY <1>21, <1>0, <1>00 DEF MarkAttempt, Kept, TypeOK, Phases, Grant, Revocable,
            InFlight, Goto, Revoking, Removing, AllConfirmed, Receipt, Inside,
            NoEntries, Listed, EntryState, Persisting
<1>22. ASSUME NEW p \in Proc, LocalFailure(p)
     PROVE  Kept'
    BY <1>22, <1>0, <1>00 DEF LocalFailure, Kept, TypeOK, Phases, Grant, Revocable,
            Revoking, Removing, AllConfirmed, Receipt, Inside, NoEntries, Listed,
            EntryState, Persisting
<1>23. ASSUME NEW p \in Proc, PostRevocation(p)
     PROVE  Kept'
    BY <1>23, <1>0, <1>00 DEF PostRevocation, Kept, TypeOK, Phases, Goto, Grant,
            Revoking, Removing, AllConfirmed, Receipt, Inside, NoEntries, Listed,
            EntryState, Persisting
<1>24. ASSUME NEW p \in Proc, RevocationConfirmed(p)
     PROVE  Kept'
    BY <1>24, OutcomeKept DEF RevocationConfirmed, EntryState
<1>25. ASSUME NEW p \in Proc, RevocationLost(p)
     PROVE  Kept'
    BY <1>25, OutcomeKept DEF RevocationLost, EntryState
<1>26. ASSUME NEW p \in Proc, RevocationRefused(p)
     PROVE  Kept'
    BY <1>26, OutcomeKept DEF RevocationRefused, EntryState, Refused
<1>27. ASSUME NEW p \in Proc, UnlinkFile(p)
     PROVE  Kept'
    BY <1>27, <1>0, <1>00 DEF UnlinkFile, Kept, TypeOK, Phases, AllConfirmed, Goto,
            Grant, Revoking, Removing, Receipt, Inside, NoEntries, Listed, EntryState,
            Persisting
<1>28. ASSUME NEW p \in Proc, UnlinkStage(p)
     PROVE  Kept'
    BY <1>28, <1>0, <1>00 DEF UnlinkStage, Kept, TypeOK, Phases, Goto, Grant, Revoking,
            Removing, AllConfirmed, Receipt, Inside, NoEntries, Listed, EntryState,
            Persisting
<1>29. ASSUME NEW p \in Proc, UnlinkReceipt(p)
     PROVE  Kept'
  <2>1. pc[p] \in Inside /\ at[p] \in Slug /\ receipt' = [receipt EXCEPT ![at[p]] = None]
      BY <1>29, <1>0 DEF UnlinkReceipt, Inside, Persisting, Removing, Phases
  <2>2. \A d \in Call : d # p /\ pc[d] \in Inside => at[d] # at[p] /\ at[d] \in Slug
      BY <1>0, <1>00, <2>1 DEF Inside, Persisting, Revoking, Removing, Phases
  <2>3. \A d \in Call \ {p} : pc[d] \in Inside =>
           /\ file'[at[d]] = file[at[d]] /\ stage'[at[d]] = stage[at[d]]
           /\ receipt'[at[d]] = receipt[at[d]]
      BY <1>29, <1>0, <2>1, <2>2 DEF UnlinkReceipt, TypeOK
  <2>4. \A s \in Slug : receipt'[s] \in {receipt[s], None}
      BY <1>29, <1>0, <2>1 DEF UnlinkReceipt, TypeOK
  <2> QED
      BY <1>29, <2>3, <2>4, EndKept DEF UnlinkReceipt
<1>30. CASE UNCHANGED vars
    BY <1>30, <1>0, <1>00 DEF vars, Kept, TypeOK, Phases, Grant, Revoking, Removing,
            AllConfirmed, Receipt, Inside, NoEntries, Listed, EntryState, Persisting
<1> QED
    BY <1>1, <1>2, <1>3, <1>4, <1>5, <1>6, <1>7, <1>8, <1>9, <1>10, <1>11, <1>12, <1>13,
            <1>14, <1>15, <1>16, <1>17, <1>18, <1>19, <1>20, <1>21, <1>22, <1>23, <1>24,
            <1>25, <1>26, <1>27, <1>28, <1>29, <1>30 DEF
            Next, Listener, Start, Authorize, Maintain

\* A company that is saved is nobody else's at that moment, so it gets no second name.
LEMMA UniqueRealmStep ==
    ASSUME Shape, Shape', Homes, Alone, UniqueRealm, [Next]_vars PROVE UniqueRealm'
<1> SUFFICES ASSUME NEW s \in Slug, NEW t \in Slug, s # t, file'[s] # None, file'[t] # None,
                    realmOf'[file'[s]] = realmOf'[file'[t]]
             PROVE  FALSE
    BY DEF UniqueRealm
<1>1. Saved
    BY SavedStep
<1>2. \A x \in Slug, g \in Grant : Has(x, g) => realmOf'[g] = realmOf[g]
    BY FlowStep DEF Homes, Flow, Keeps, Issued, Grant, Shape, TypeOK
<1>3. \A x \in Slug : file'[x] # None =>
         /\ realmOf'[file'[x]] = realmOf[file'[x]]
         /\ \/ file'[x] = file[x]
            \/ \E d \in Call : /\ at[d] = x /\ realmLock[realmOf[file'[x]]] = d
                               /\ ~Elsewhere(x, realmOf[file'[x]])
  <2>1. ASSUME NEW x \in Slug, file'[x] # None, file'[x] = file[x]
        PROVE  realmOf'[file'[x]] = realmOf[file'[x]]
    <3>1. file[x] \in Grant /\ Has(x, file[x])
        BY <2>1 DEF Has, Stores, Shape, TypeOK
    <3> QED
        BY <1>2, <2>1, <3>1
  <2>2. ASSUME NEW x \in Slug, file'[x] # None, NEW d \in Call, at[d] = x, cur[d] \in Grant,
               Guards(d, cur[d]), Has(x, file'[x]), realmOf[file'[x]] = realmOf[cur[d]]
        PROVE  /\ realmOf'[file'[x]] = realmOf[file'[x]]
               /\ realmLock[realmOf[file'[x]]] = d /\ ~Elsewhere(x, realmOf[file'[x]])
    <3>1. file'[x] \in Grant
        BY <2>2 DEF Shape, TypeOK
    <3> QED
        BY <1>2, <2>2, <3>1 DEF Alone
  <2> QED
      BY <1>1, <2>1, <2>2 DEF Saved
<1>4. CASE file'[s] = file[s] /\ file'[t] = file[t]
    BY <1>3, <1>4 DEF UniqueRealm
<1>5. CASE file'[s] # file[s] /\ file'[t] = file[t]
    BY <1>3, <1>5 DEF Elsewhere
<1>6. CASE file'[s] = file[s] /\ file'[t] # file[t]
    BY <1>3, <1>6 DEF Elsewhere
<1>7. CASE file'[s] # file[s] /\ file'[t] # file[t]
    BY <1>3, <1>7
<1> QED
    BY <1>4, <1>5, <1>6, <1>7

-----------------------------------------------------------------------------
\* The inductive invariant.
Inv == Shape /\ Locked /\ Homes /\ Alone /\ UniqueRealm /\ Ordered /\ Marked /\ Kept

LEMMA InitInv == Init => Inv
<1> SUFFICES ASSUME Init PROVE Inv
    OBVIOUS
<1>1. UniqueRealm
    BY DEF Init, UniqueRealm
<1>2. Kept
    BY DEF Init, Kept, NoEntries, Revoking, Removing
<1> QED
    BY <1>1, <1>2, InitShape, InitLocked, InitHomes, InitAlone, InitOrdered, InitMarked
            DEF Inv

\* The layers together are inductive.
LEMMA InvStep == Inv /\ [Next]_vars => Inv'
<1> SUFFICES ASSUME Inv, [Next]_vars PROVE Inv'
    OBVIOUS
<1>1. Shape'
    BY ShapeStep DEF Inv
<1> QED
    BY <1>1, LockedStep, HomesStep, AloneStep, UniqueRealmStep, OrderedStep, MarkedStep,
       KeptStep DEF Inv

\* So they hold in every reachable state.
LEMMA Invariance == Spec => []Inv
    BY InitInv, InvStep, PTL DEF Spec

\* Every reachable state is well typed.
THEOREM TypeCorrect == Spec => []TypeOK
<1>1. Inv => TypeOK
    BY DEF Inv, Shape
<1> QED
    BY <1>1, Invariance, PTL

\* One QuickBooks company never has two names, however many callbacks, terminal flows,
\* imports and disconnects run at once (persistAuthorizationLocked).
THEOREM OneSlugPerRealm == Spec => []UniqueRealm
<1>1. Inv => UniqueRealm
    BY DEF Inv
<1> QED
    BY <1>1, Invariance, PTL

\* While revocations are sent, no other slug uses their company (disconnectCompany).
THEOREM RevocationsAreOwn == Spec => []NoForeignRevocation
<1>1. Inv => NoForeignRevocation
  <2> SUFFICES ASSUME Inv, NEW p \in Proc, pc[p] \in {"post", "await"}
               PROVE  ~Elsewhere(at[p], realmOf[cur[p]])
      BY DEF NoForeignRevocation
  <2>1. cur[p] \in Grant /\ Guards(p, cur[p])
      BY DEF Inv, Shape, TypeOK, Phases, Guards, Revoking
  <2> QED
      BY <2>1 DEF Inv, Alone
<1> QED
    BY <1>1, Invariance, PTL

\* A revocation that may have been carried out is never sent again, by whichever process
\* and after whichever crash (disconnectCompany).
THEOREM RevocationsAreNotReplayed == Spec => []NoRevocationReplay
<1>1. Inv => NoRevocationReplay
    BY DEF Inv, Marked, NoRevocationReplay
<1> QED
    BY <1>1, Invariance, PTL

\* Realm locks are taken upwards, inside the lock of a slug (withRealmAuthorizationLocks).
THEOREM LocksAreOrdered == Spec => []LockOrder
<1>1. Inv => LockOrder
    BY DEF Inv, Locked, Ordered, LockOrder, Held
<1> QED
    BY <1>1, Invariance, PTL

ReceiptSafe ==
    \A s \in Slug : receipt[s] # None =>
        /\ file'[s] \in {file[s], None}
        /\ stage'[s] \in {stage[s], None}
        /\ receipt'[s] = None =>
              \A g \in Listed(receipt[s]) : g \in revoked /\ g \notin {file'[s], stage'[s]}

\* What each action does to a slug that has a journal.
LEMMA ReceiptStep ==
    ASSUME Inv, [Next]_vars PROVE ReceiptSafe
<1>0. TypeOK /\ Phases /\ Kept /\ TypeOK'
    BY ShapeStep DEF Inv, Shape
<1>1. CASE CancelAuthorization
    BY <1>1, <1>0 DEF CancelAuthorization, ReceiptSafe, Kept, TypeOK, Phases,
            StopListening, Owner, Listed, Grant, Revoking, Removing, AllConfirmed,
            Receipt, Inside, NoEntries, PortWithout, Reset, Deaf, EntryState, Persisting
<1>2. CASE Expire
    BY <1>2, <1>0 DEF Expire, ReceiptSafe, Kept, TypeOK, Phases, StopListening, Owner,
            Listed, Grant, Revoking, Removing, AllConfirmed, Receipt, Inside, NoEntries,
            PortWithout, Reset, Deaf, EntryState, Persisting
<1>3. CASE ServerDies
    BY <1>3, <1>0 DEF ServerDies, ReceiptSafe, Kept, TypeOK, Phases, Listed, Grant,
            Revoking, Removing, AllConfirmed, Receipt, Inside, NoEntries, EntryState,
            Persisting
<1>4. ASSUME NEW a \in Attempt, NEW s \in Slug, BeginAuthorization(a, s)
     PROVE  ReceiptSafe
    BY <1>4, <1>0 DEF BeginAuthorization, ReceiptSafe, Kept, TypeOK, Phases, Deaf,
            Owner, PortWithout, Reset, Listed, Grant, Revoking, Removing, AllConfirmed,
            Receipt, Inside, NoEntries, EntryState, Persisting
<1>5. ASSUME NEW a \in Attempt, BadCallback(a)
     PROVE  ReceiptSafe
    BY <1>5, <1>0 DEF BadCallback, ReceiptSafe, Kept, TypeOK, Phases, StopListening,
            Listed, Grant, Revoking, Removing, AllConfirmed, Receipt, Inside, NoEntries,
            PortWithout, Reset, Deaf, EntryState, Persisting
<1>6. ASSUME NEW a \in Attempt, Callback(a)
     PROVE  ReceiptSafe
    BY <1>6, <1>0 DEF Callback, ReceiptSafe, Kept, TypeOK, Phases, Goto, Listed, Grant,
            Revoking, Removing, AllConfirmed, Receipt, Inside, NoEntries, EntryState,
            Persisting
<1>7. ASSUME NEW a \in Attempt, Exchange(a)
     PROVE  ReceiptSafe
    BY <1>7, <1>0 DEF Exchange, ReceiptSafe, Kept, TypeOK, Phases, TakeSlugLock, Issue,
            Goto, Listed, Grant, Revoking, Removing, AllConfirmed, Receipt, Inside,
            NoEntries, EntryState, Persisting
<1>8. ASSUME NEW c \in Call, Fail(c)
     PROVE  ReceiptSafe
    BY <1>8, <1>0 DEF Fail, ReceiptSafe, Kept, TypeOK, Phases, Listed, Grant, Revoking,
            Removing, AllConfirmed, Receipt, Inside, NoEntries, EntryState, Persisting
<1>9. ASSUME NEW c \in Call, LockRealm(c)
     PROVE  ReceiptSafe
    BY <1>9, <1>0 DEF LockRealm, ReceiptSafe, Kept, TypeOK, Phases, Listed, Grant,
            Revoking, Removing, AllConfirmed, Receipt, Inside, NoEntries, EntryState,
            Persisting
<1>10. ASSUME NEW c \in Call, Vet(c)
     PROVE  ReceiptSafe
    BY <1>10, <1>0 DEF Vet, ReceiptSafe, Kept, TypeOK, Phases, Goto, Listed, Grant,
            Revoking, Removing, AllConfirmed, Receipt, Inside, NoEntries, EntryState,
            Persisting
<1>11. ASSUME NEW c \in Call, Write(c)
     PROVE  ReceiptSafe
    BY <1>11, <1>0 DEF Write, ReceiptSafe, Kept, TypeOK, Phases, Goto, Listed, Grant,
            Revoking, Removing, AllConfirmed, Receipt, Inside, NoEntries, EntryState,
            Persisting
<1>12. ASSUME NEW c \in Call, Connected(c)
     PROVE  ReceiptSafe
    BY <1>12, <1>0 DEF Connected, ReceiptSafe, Kept, TypeOK, Phases, Verified, Listed,
            Grant, Revoking, Removing, AllConfirmed, Receipt, Inside, NoEntries,
            EntryState, Persisting
<1>13. ASSUME NEW c \in Call, RollBack(c)
     PROVE  ReceiptSafe
    BY <1>13, <1>0 DEF RollBack, ReceiptSafe, Kept, TypeOK, Phases, Listed, Grant,
            Revoking, Removing, AllConfirmed, Receipt, Inside, NoEntries, EntryState,
            Persisting
<1>14. ASSUME NEW p \in Proc, NEW s \in Slug, RunAuthorizationFlow(p, s)
     PROVE  ReceiptSafe
    BY <1>14, <1>0 DEF RunAuthorizationFlow, ReceiptSafe, Kept, TypeOK, Phases, Begin,
            Issue, Listed, Grant, Revoking, Removing, AllConfirmed, Receipt, Inside,
            NoEntries, TakeSlugLock, Goto, EntryState, Persisting
<1>15. ASSUME NEW p \in Proc, NEW s \in Slug, ImportRefreshToken(p, s)
     PROVE  ReceiptSafe
    BY <1>15, <1>0 DEF ImportRefreshToken, ReceiptSafe, Kept, TypeOK, Phases, Begin,
            Issue, Listed, Grant, Revoking, Removing, AllConfirmed, Receipt, Inside,
            NoEntries, TakeSlugLock, Goto, EntryState, Persisting
<1>16. ASSUME NEW p \in Proc, NEW s \in Slug, RecoverStagedTokenImport(p, s)
     PROVE  ReceiptSafe
    BY <1>16, <1>0 DEF RecoverStagedTokenImport, ReceiptSafe, Kept, TypeOK, Phases,
            Begin, Listed, Grant, Revoking, Removing, AllConfirmed, Receipt, Inside,
            NoEntries, TakeSlugLock, Goto, EntryState, Persisting
<1>17. ASSUME NEW p \in Proc, NEW s \in Slug, DisconnectCompany(p, s)
     PROVE  ReceiptSafe
    BY <1>17, <1>0 DEF DisconnectCompany, ReceiptSafe, Kept, TypeOK, Phases, Begin,
            Listed, Grant, Revoking, Removing, AllConfirmed, Receipt, Inside, NoEntries,
            TakeSlugLock, Goto, EntryState, Persisting
<1>18. ASSUME NEW p \in Proc, VerifyImport(p)
     PROVE  ReceiptSafe
    BY <1>18, <1>0 DEF VerifyImport, ReceiptSafe, Kept, TypeOK, Phases, Verified,
            Without, Goto, Listed, Grant, Revoking, Removing, AllConfirmed, Receipt,
            Inside, NoEntries, EntryState, Persisting
<1>19. ASSUME NEW p \in Proc, Unstage(p)
     PROVE  ReceiptSafe
    BY <1>19, <1>0 DEF Unstage, ReceiptSafe, Kept, TypeOK, Phases, Listed, Grant,
            Revoking, Removing, AllConfirmed, Receipt, Inside, NoEntries, EntryState,
            Persisting
<1>20. ASSUME NEW p \in Proc, CheckIdentities(p)
     PROVE  ReceiptSafe
    BY <1>20, <1>0 DEF CheckIdentities, ReceiptSafe, Kept, TypeOK, Phases, Goto, Listed,
            Grant, Revoking, Removing, AllConfirmed, Receipt, Inside, NoEntries,
            EntryState, Persisting
<1>21. ASSUME NEW p \in Proc, MarkAttempt(p)
     PROVE  ReceiptSafe
  <2>1. \A s \in Slug : receipt'[s] \in {receipt[s], book'[p]}
      BY <1>21, <1>0 DEF MarkAttempt, TypeOK
  <2>2. book'[p] # None
      BY <1>0 DEF TypeOK
  <2> QED
      BY <1>21, <2>1, <2>2 DEF MarkAttempt, ReceiptSafe
<1>22. ASSUME NEW p \in Proc, LocalFailure(p)
     PROVE  ReceiptSafe
    BY <1>22, <1>0 DEF LocalFailure, ReceiptSafe, Kept, TypeOK, Phases, Grant, Listed,
            Revoking, Removing, AllConfirmed, Receipt, Inside, NoEntries, EntryState,
            Persisting
<1>23. ASSUME NEW p \in Proc, PostRevocation(p)
     PROVE  ReceiptSafe
    BY <1>23, <1>0 DEF PostRevocation, ReceiptSafe, Kept, TypeOK, Phases, Goto, Listed,
            Grant, Revoking, Removing, AllConfirmed, Receipt, Inside, NoEntries,
            EntryState, Persisting
<1>24. ASSUME NEW p \in Proc, RevocationConfirmed(p)
     PROVE  ReceiptSafe
  <2>1. \A s \in Slug : receipt'[s] \in {receipt[s], book'[p]}
      BY <1>24, <1>0 DEF RevocationConfirmed, RecordOutcome, TypeOK
  <2>2. book'[p] # None
      BY <1>0 DEF TypeOK
  <2> QED
      BY <1>24, <2>1, <2>2 DEF RevocationConfirmed, RecordOutcome, ReceiptSafe
<1>25. ASSUME NEW p \in Proc, RevocationLost(p)
     PROVE  ReceiptSafe
  <2>1. \A s \in Slug : receipt'[s] \in {receipt[s], book'[p]}
      BY <1>25, <1>0 DEF RevocationLost, RecordOutcome, TypeOK
  <2>2. book'[p] # None
      BY <1>0 DEF TypeOK
  <2> QED
      BY <1>25, <2>1, <2>2 DEF RevocationLost, RecordOutcome, ReceiptSafe
<1>26. ASSUME NEW p \in Proc, RevocationRefused(p)
     PROVE  ReceiptSafe
  <2>1. \A s \in Slug : receipt'[s] \in {receipt[s], book'[p]}
      BY <1>26, <1>0 DEF RevocationRefused, RecordOutcome, TypeOK
  <2>2. book'[p] # None
      BY <1>0 DEF TypeOK
  <2> QED
      BY <1>26, <2>1, <2>2 DEF RevocationRefused, RecordOutcome, ReceiptSafe
<1>27. ASSUME NEW p \in Proc, UnlinkFile(p)
     PROVE  ReceiptSafe
    BY <1>27, <1>0 DEF UnlinkFile, ReceiptSafe, Kept, TypeOK, Phases, AllConfirmed,
            Goto, Listed, Grant, Revoking, Removing, Receipt, Inside, NoEntries,
            EntryState, Persisting
<1>28. ASSUME NEW p \in Proc, UnlinkStage(p)
     PROVE  ReceiptSafe
    BY <1>28, <1>0 DEF UnlinkStage, ReceiptSafe, Kept, TypeOK, Phases, Goto, Listed,
            Grant, Revoking, Removing, AllConfirmed, Receipt, Inside, NoEntries,
            EntryState, Persisting
<1>29. ASSUME NEW p \in Proc, UnlinkReceipt(p)
     PROVE  ReceiptSafe
    BY <1>29, <1>0 DEF UnlinkReceipt, ReceiptSafe, Kept, TypeOK, Phases, Listed, Grant,
            Revoking, Removing, AllConfirmed, Receipt, Inside, NoEntries, EntryState,
            Persisting
<1>30. CASE UNCHANGED vars
    BY <1>30, <1>0 DEF vars, ReceiptSafe, Kept, TypeOK, Phases, Listed, Grant, Revoking,
            Removing, AllConfirmed, Receipt, Inside, NoEntries, EntryState, Persisting
<1> QED
    BY <1>1, <1>2, <1>3, <1>4, <1>5, <1>6, <1>7, <1>8, <1>9, <1>10, <1>11, <1>12, <1>13,
            <1>14, <1>15, <1>16, <1>17, <1>18, <1>19, <1>20, <1>21, <1>22, <1>23, <1>24,
            <1>25, <1>26, <1>27, <1>28, <1>29, <1>30 DEF
            Next, Listener, Start, Authorize, Maintain

\* A slug with a disconnect journal gets no new credential, and the journal outlives its
\* credentials and goes only when all of them are revoked (disconnectCompany,
\* persistAuthorizationLocked, importRefreshToken).
THEOREM JournalOutlivesCredentials == Spec => ReceiptKept
<1>1. Inv /\ [Next]_vars => ReceiptSafe
    BY ReceiptStep
<1>2. Inv /\ [Next]_vars =>
        \A s \in Slug : receipt[s] # None =>
          /\ file'[s] \in {file[s], None}
          /\ stage'[s] \in {stage[s], None}
          /\ receipt'[s] = None =>
                \A g \in Listed(receipt[s]) : g \in revoked /\ g \notin {file'[s], stage'[s]}
    BY <1>1 DEF ReceiptSafe
<1> QED
    BY <1>2, Invariance, PTL DEF Spec, ReceiptKept

-----------------------------------------------------------------------------
\* The listener, when no attempt is cancelled or replaced during its callback: whose server
\* has the port waits, and a callback that is at work belongs to the pending attempt.
Served ==
    /\ port # None => Waiting /\ port = pending.attempt
    /\ \A a \in Attempt : pc[a] # "idle" =>
          pending # None /\ pending.attempt = a /\ pending.slug = at[a]

LEMMA InitServed == Init => Served
    BY DEF Init, Served

\* Each action keeps the listener with its attempt.
LEMMA ServedStep ==
    ASSUME ~Overtaken, Shape, Shape', Served, [Next]_vars PROVE Served'
<1>0. TypeOK /\ Phases /\ TypeOK' /\ Phases'
    BY DEF Shape
<1>1. CASE CancelAuthorization
    BY <1>1, <1>0 DEF CancelAuthorization, Served, TypeOK, Phases, Quiet, StopListening,
            Owner, Waiting, Grant, Pending, Inside, NoEntries, Revoking, Removing,
            PortWithout, Reset, Deaf, Persisting
<1>2. CASE Expire
  <2>1. /\ pending # None /\ pending \in Pending /\ StopListening({pending.attempt})
        /\ pending' = [pending EXCEPT !.state = "expired"]
      BY <1>2, <1>0 DEF Expire, Owner, Waiting, TypeOK
  <2>2. pending' # None /\ pending'.attempt = pending.attempt /\ pending'.slug = pending.slug
      BY <1>0, <2>1 DEF Pending
  <2>3. port' = None
      BY <2>1 DEF StopListening, PortWithout, Served
  <2>4. \A a \in Attempt : pc'[a] # "idle" => pc[a] # "idle" /\ at'[a] = at[a]
      BY <1>0, <2>1 DEF StopListening, Reset, TypeOK
  <2> QED
      BY <2>1, <2>2, <2>3, <2>4 DEF Served
<1>3. CASE ServerDies
    BY <1>3, <1>0 DEF ServerDies, Served, TypeOK, Phases, End, Waiting, Grant, Pending,
            Inside, NoEntries, Revoking, Removing, Reset, Without, PortWithout,
            Persisting
<1>4. ASSUME NEW a \in Attempt, NEW s \in Slug, BeginAuthorization(a, s)
     PROVE  Served'
    BY <1>4, <1>0 DEF BeginAuthorization, Served, TypeOK, Phases, Deaf, Owner, Waiting,
            Quiet, PortWithout, Reset, Grant, Pending, Inside, NoEntries, Revoking,
            Removing, Persisting
<1>5. ASSUME NEW a \in Attempt, BadCallback(a)
     PROVE  Served'
  <2>1. /\ pending # None /\ pending \in Pending /\ StopListening({a}) /\ port = a
        /\ pending' = WithError
    <3>1. port = a /\ port # None /\ StopListening({a}) /\ pending' = WithError
        BY <1>5 DEF BadCallback
    <3> QED
        BY <1>0, <3>1 DEF Served, Waiting, TypeOK
  <2>2. pending' # None /\ pending'.attempt = pending.attempt /\ pending'.slug = pending.slug
      BY <1>0, <2>1 DEF WithError, Pending
  <2>3. port' = None
      BY <2>1 DEF StopListening, PortWithout
  <2>4. \A b \in Attempt : pc'[b] # "idle" => pc[b] # "idle" /\ at'[b] = at[b]
      BY <1>0, <2>1 DEF StopListening, Reset, TypeOK
  <2> QED
      BY <2>1, <2>2, <2>3, <2>4 DEF Served
<1>6. ASSUME NEW a \in Attempt, Callback(a)
     PROVE  Served'
    BY <1>6, <1>0 DEF Callback, Served, TypeOK, Phases, Goto, Waiting, Grant, Pending,
            Inside, NoEntries, Revoking, Removing, Persisting
<1>7. ASSUME NEW a \in Attempt, Exchange(a)
     PROVE  Served'
    BY <1>7, <1>0 DEF Exchange, Served, TypeOK, Phases, TakeSlugLock, Issue, Goto,
            Waiting, Grant, Pending, Inside, NoEntries, Revoking, Removing, Persisting
<1>8. ASSUME NEW c \in Call, Fail(c)
     PROVE  Served'
    BY <1>8, <1>0 DEF Fail, Served, TypeOK, Phases, WithError, End, Waiting, Grant,
            Pending, Inside, NoEntries, Revoking, Removing, Reset, Without, PortWithout,
            Persisting
<1>9. ASSUME NEW c \in Call, LockRealm(c)
     PROVE  Served'
    BY <1>9, <1>0 DEF LockRealm, Served, TypeOK, Phases, Waiting, Grant, Pending,
            Inside, NoEntries, Revoking, Removing, Persisting
<1>10. ASSUME NEW c \in Call, Vet(c)
     PROVE  Served'
    BY <1>10, <1>0 DEF Vet, Served, TypeOK, Phases, Goto, Waiting, Grant, Pending,
            Inside, NoEntries, Revoking, Removing, Persisting
<1>11. ASSUME NEW c \in Call, Write(c)
     PROVE  Served'
    BY <1>11, <1>0 DEF Write, Served, TypeOK, Phases, Goto, Waiting, Grant, Pending,
            Inside, NoEntries, Revoking, Removing, Persisting
<1>12. ASSUME NEW c \in Call, Connected(c)
     PROVE  Served'
    BY <1>12, <1>0 DEF Connected, Served, TypeOK, Phases, Verified, WithResult, End,
            Waiting, Grant, Pending, Inside, NoEntries, Revoking, Removing, Reset,
            Without, PortWithout, Persisting
<1>13. ASSUME NEW c \in Call, RollBack(c)
     PROVE  Served'
    BY <1>13, <1>0 DEF RollBack, Served, TypeOK, Phases, WithError, End, Waiting, Grant,
            Pending, Inside, NoEntries, Revoking, Removing, Reset, Without, PortWithout,
            Persisting
<1>14. ASSUME NEW p \in Proc, NEW s \in Slug, RunAuthorizationFlow(p, s)
     PROVE  Served'
    BY <1>14, <1>0 DEF RunAuthorizationFlow, Served, TypeOK, Phases, Begin, Issue,
            Waiting, Grant, Pending, Inside, NoEntries, Revoking, Removing,
            TakeSlugLock, Goto, Persisting
<1>15. ASSUME NEW p \in Proc, NEW s \in Slug, ImportRefreshToken(p, s)
     PROVE  Served'
    BY <1>15, <1>0 DEF ImportRefreshToken, Served, TypeOK, Phases, Begin, Issue,
            Waiting, Grant, Pending, Inside, NoEntries, Revoking, Removing,
            TakeSlugLock, Goto, Persisting
<1>16. ASSUME NEW p \in Proc, NEW s \in Slug, RecoverStagedTokenImport(p, s)
     PROVE  Served'
    BY <1>16, <1>0 DEF RecoverStagedTokenImport, Served, TypeOK, Phases, Begin, Waiting,
            Grant, Pending, Inside, NoEntries, Revoking, Removing, TakeSlugLock, Goto,
            Persisting
<1>17. ASSUME NEW p \in Proc, NEW s \in Slug, DisconnectCompany(p, s)
     PROVE  Served'
    BY <1>17, <1>0 DEF DisconnectCompany, Served, TypeOK, Phases, Begin, Waiting, Grant,
            Pending, Inside, NoEntries, Revoking, Removing, TakeSlugLock, Goto,
            Persisting
<1>18. ASSUME NEW p \in Proc, VerifyImport(p)
     PROVE  Served'
    BY <1>18, <1>0 DEF VerifyImport, Served, TypeOK, Phases, Verified, Without, Goto,
            Waiting, Grant, Pending, Inside, NoEntries, Revoking, Removing, Persisting
<1>19. ASSUME NEW p \in Proc, Unstage(p)
     PROVE  Served'
    BY <1>19, <1>0 DEF Unstage, Served, TypeOK, Phases, End, Waiting, Grant, Pending,
            Inside, NoEntries, Revoking, Removing, Reset, Without, PortWithout,
            Persisting
<1>20. ASSUME NEW p \in Proc, CheckIdentities(p)
     PROVE  Served'
    BY <1>20, <1>0 DEF CheckIdentities, Served, TypeOK, Phases, Goto, Waiting, Grant,
            Pending, Inside, NoEntries, Revoking, Removing, Persisting
<1>21. ASSUME NEW p \in Proc, MarkAttempt(p)
     PROVE  Served'
    BY <1>21, <1>0 DEF MarkAttempt, Served, TypeOK, Phases, Grant, Goto, Waiting,
            Pending, Inside, NoEntries, Revoking, Removing, Persisting
<1>22. ASSUME NEW p \in Proc, LocalFailure(p)
     PROVE  Served'
    BY <1>22, <1>0 DEF LocalFailure, Served, TypeOK, Phases, Grant, Waiting, Pending,
            Inside, NoEntries, Revoking, Removing, Persisting
<1>23. ASSUME NEW p \in Proc, PostRevocation(p)
     PROVE  Served'
    BY <1>23, <1>0 DEF PostRevocation, Served, TypeOK, Phases, Goto, Waiting, Grant,
            Pending, Inside, NoEntries, Revoking, Removing, Persisting
<1>24. ASSUME NEW p \in Proc, RevocationConfirmed(p)
     PROVE  Served'
    BY <1>24, <1>0 DEF RevocationConfirmed, Served, TypeOK, Phases, RecordOutcome,
            Waiting, Grant, Pending, Inside, NoEntries, Revoking, Removing, Goto,
            Persisting
<1>25. ASSUME NEW p \in Proc, RevocationLost(p)
     PROVE  Served'
    BY <1>25, <1>0 DEF RevocationLost, Served, TypeOK, Phases, RecordOutcome, Waiting,
            Grant, Pending, Inside, NoEntries, Revoking, Removing, Goto, Persisting
<1>26. ASSUME NEW p \in Proc, RevocationRefused(p)
     PROVE  Served'
    BY <1>26, <1>0 DEF RevocationRefused, Served, TypeOK, Phases, RecordOutcome,
            Waiting, Grant, Pending, Inside, NoEntries, Revoking, Removing, Goto,
            Persisting
<1>27. ASSUME NEW p \in Proc, UnlinkFile(p)
     PROVE  Served'
    BY <1>27, <1>0 DEF UnlinkFile, Served, TypeOK, Phases, Goto, Waiting, Grant,
            Pending, Inside, NoEntries, Revoking, Removing, Persisting
<1>28. ASSUME NEW p \in Proc, UnlinkStage(p)
     PROVE  Served'
    BY <1>28, <1>0 DEF UnlinkStage, Served, TypeOK, Phases, Goto, Waiting, Grant,
            Pending, Inside, NoEntries, Revoking, Removing, Persisting
<1>29. ASSUME NEW p \in Proc, UnlinkReceipt(p)
     PROVE  Served'
    BY <1>29, <1>0 DEF UnlinkReceipt, Served, TypeOK, Phases, End, Waiting, Grant,
            Pending, Inside, NoEntries, Revoking, Removing, Reset, Without, PortWithout,
            Persisting
<1>30. CASE UNCHANGED vars
    BY <1>30, <1>0 DEF vars, Served, TypeOK, Phases, Waiting, Grant, Pending, Inside,
            NoEntries, Revoking, Removing, Persisting
<1> QED
    BY <1>1, <1>2, <1>3, <1>4, <1>5, <1>6, <1>7, <1>8, <1>9, <1>10, <1>11, <1>12, <1>13,
            <1>14, <1>15, <1>16, <1>17, <1>18, <1>19, <1>20, <1>21, <1>22, <1>23, <1>24,
            <1>25, <1>26, <1>27, <1>28, <1>29, <1>30 DEF
            Next, Listener, Start, Authorize, Maintain

\* The listener invariant holds together with the other.
LEMMA ServedInvariance ==
    ASSUME ~Overtaken PROVE Spec => [](Inv /\ Served)
<1>1. Inv /\ Served /\ [Next]_vars => Inv' /\ Served'
  <2> SUFFICES ASSUME Inv, Served, [Next]_vars PROVE Inv' /\ Served'
      OBVIOUS
  <2>1. Inv'
      BY InvStep
  <2> QED
      BY <2>1, ServedStep DEF Inv
<1> QED
    BY <1>1, InitInv, InitServed, PTL DEF Spec

\* An attempt that is over has given the callback port back.
THEOREM PortIsReleased ==
    ASSUME ~Overtaken PROVE Spec => []PortReleased
<1>1. Inv /\ Served => PortReleased
    BY DEF Inv, Shape, TypeOK, Pending, Served, PortReleased
<1> QED
    BY <1>1, ServedInvariance, PTL

Landed ==
    pending # None /\ pending' # None /\ pending'.result \notin {None, pending.result}
        => pending'.result = file'[pending.slug]

\* Connected is the action that reports.
LEMMA LandedStep ==
    ASSUME Shape, Served, [Next]_vars PROVE Landed
<1>0. TypeOK /\ Phases
    BY DEF Shape
<1>1. CASE CancelAuthorization
    BY <1>1, <1>0 DEF CancelAuthorization, Landed, Served, TypeOK, Phases, Quiet,
            StopListening, Owner, Waiting, Grant, Pending, Inside, NoEntries, Revoking,
            Removing, PortWithout, Reset, Deaf, Persisting
<1>2. CASE Expire
    BY <1>2, <1>0 DEF Expire, Landed, Served, TypeOK, Phases, Waiting, StopListening,
            Owner, Grant, Pending, Inside, NoEntries, Revoking, Removing, PortWithout,
            Reset, Deaf, Persisting
<1>3. CASE ServerDies
    BY <1>3, <1>0 DEF ServerDies, Landed, Served, TypeOK, Phases, End, Waiting, Grant,
            Pending, Inside, NoEntries, Revoking, Removing, Reset, Without, PortWithout,
            Persisting
<1>4. ASSUME NEW a \in Attempt, NEW s \in Slug, BeginAuthorization(a, s)
     PROVE  Landed
    BY <1>4, <1>0 DEF BeginAuthorization, Landed, Served, TypeOK, Phases, Deaf, Owner,
            Waiting, Quiet, PortWithout, Reset, Grant, Pending, Inside, NoEntries,
            Revoking, Removing, Persisting
<1>5. ASSUME NEW a \in Attempt, BadCallback(a)
     PROVE  Landed
    BY <1>5, <1>0 DEF BadCallback, Landed, Served, TypeOK, Phases, WithError,
            StopListening, Waiting, Grant, Pending, Inside, NoEntries, Revoking,
            Removing, PortWithout, Reset, Deaf, Persisting
<1>6. ASSUME NEW a \in Attempt, Callback(a)
     PROVE  Landed
    BY <1>6, <1>0 DEF Callback, Landed, Served, TypeOK, Phases, Goto, Waiting, Grant,
            Pending, Inside, NoEntries, Revoking, Removing, Persisting
<1>7. ASSUME NEW a \in Attempt, Exchange(a)
     PROVE  Landed
    BY <1>7, <1>0 DEF Exchange, Landed, Served, TypeOK, Phases, TakeSlugLock, Issue,
            Goto, Waiting, Grant, Pending, Inside, NoEntries, Revoking, Removing,
            Persisting
<1>8. ASSUME NEW c \in Call, Fail(c)
     PROVE  Landed
    BY <1>8, <1>0 DEF Fail, Landed, Served, TypeOK, Phases, WithError, End, Waiting,
            Grant, Pending, Inside, NoEntries, Revoking, Removing, Reset, Without,
            PortWithout, Persisting
<1>9. ASSUME NEW c \in Call, LockRealm(c)
     PROVE  Landed
    BY <1>9, <1>0 DEF LockRealm, Landed, Served, TypeOK, Phases, Waiting, Grant,
            Pending, Inside, NoEntries, Revoking, Removing, Persisting
<1>10. ASSUME NEW c \in Call, Vet(c)
     PROVE  Landed
    BY <1>10, <1>0 DEF Vet, Landed, Served, TypeOK, Phases, Goto, Waiting, Grant,
            Pending, Inside, NoEntries, Revoking, Removing, Persisting
<1>11. ASSUME NEW c \in Call, Write(c)
     PROVE  Landed
    BY <1>11, <1>0 DEF Write, Landed, Served, TypeOK, Phases, Goto, Waiting, Grant,
            Pending, Inside, NoEntries, Revoking, Removing, Persisting
<1>12. ASSUME NEW c \in Call, Connected(c)
     PROVE  Landed
    BY <1>12, <1>0 DEF Connected, Landed, Served, TypeOK, Phases, Verified, WithResult,
            End, Waiting, Grant, Pending, Inside, NoEntries, Revoking, Removing, Reset,
            Without, PortWithout, Persisting
<1>13. ASSUME NEW c \in Call, RollBack(c)
     PROVE  Landed
    BY <1>13, <1>0 DEF RollBack, Landed, Served, TypeOK, Phases, WithError, End,
            Waiting, Grant, Pending, Inside, NoEntries, Revoking, Removing, Reset,
            Without, PortWithout, Persisting
<1>14. ASSUME NEW p \in Proc, NEW s \in Slug, RunAuthorizationFlow(p, s)
     PROVE  Landed
    BY <1>14, <1>0 DEF RunAuthorizationFlow, Landed, Served, TypeOK, Phases, Begin,
            Issue, Waiting, Grant, Pending, Inside, NoEntries, Revoking, Removing,
            TakeSlugLock, Goto, Persisting
<1>15. ASSUME NEW p \in Proc, NEW s \in Slug, ImportRefreshToken(p, s)
     PROVE  Landed
    BY <1>15, <1>0 DEF ImportRefreshToken, Landed, Served, TypeOK, Phases, Begin, Issue,
            Waiting, Grant, Pending, Inside, NoEntries, Revoking, Removing,
            TakeSlugLock, Goto, Persisting
<1>16. ASSUME NEW p \in Proc, NEW s \in Slug, RecoverStagedTokenImport(p, s)
     PROVE  Landed
    BY <1>16, <1>0 DEF RecoverStagedTokenImport, Landed, Served, TypeOK, Phases, Begin,
            Waiting, Grant, Pending, Inside, NoEntries, Revoking, Removing,
            TakeSlugLock, Goto, Persisting
<1>17. ASSUME NEW p \in Proc, NEW s \in Slug, DisconnectCompany(p, s)
     PROVE  Landed
    BY <1>17, <1>0 DEF DisconnectCompany, Landed, Served, TypeOK, Phases, Begin,
            Waiting, Grant, Pending, Inside, NoEntries, Revoking, Removing,
            TakeSlugLock, Goto, Persisting
<1>18. ASSUME NEW p \in Proc, VerifyImport(p)
     PROVE  Landed
    BY <1>18, <1>0 DEF VerifyImport, Landed, Served, TypeOK, Phases, Verified, Without,
            Goto, Waiting, Grant, Pending, Inside, NoEntries, Revoking, Removing,
            Persisting
<1>19. ASSUME NEW p \in Proc, Unstage(p)
     PROVE  Landed
    BY <1>19, <1>0 DEF Unstage, Landed, Served, TypeOK, Phases, End, Waiting, Grant,
            Pending, Inside, NoEntries, Revoking, Removing, Reset, Without, PortWithout,
            Persisting
<1>20. ASSUME NEW p \in Proc, CheckIdentities(p)
     PROVE  Landed
    BY <1>20, <1>0 DEF CheckIdentities, Landed, Served, TypeOK, Phases, Goto, Waiting,
            Grant, Pending, Inside, NoEntries, Revoking, Removing, Persisting
<1>21. ASSUME NEW p \in Proc, MarkAttempt(p)
     PROVE  Landed
    BY <1>21, <1>0 DEF MarkAttempt, Landed, Served, TypeOK, Phases, Grant, Goto,
            Waiting, Pending, Inside, NoEntries, Revoking, Removing, Persisting
<1>22. ASSUME NEW p \in Proc, LocalFailure(p)
     PROVE  Landed
    BY <1>22, <1>0 DEF LocalFailure, Landed, Served, TypeOK, Phases, Grant, Waiting,
            Pending, Inside, NoEntries, Revoking, Removing, Persisting
<1>23. ASSUME NEW p \in Proc, PostRevocation(p)
     PROVE  Landed
    BY <1>23, <1>0 DEF PostRevocation, Landed, Served, TypeOK, Phases, Goto, Waiting,
            Grant, Pending, Inside, NoEntries, Revoking, Removing, Persisting
<1>24. ASSUME NEW p \in Proc, RevocationConfirmed(p)
     PROVE  Landed
    BY <1>24, <1>0 DEF RevocationConfirmed, Landed, Served, TypeOK, Phases,
            RecordOutcome, Waiting, Grant, Pending, Inside, NoEntries, Revoking,
            Removing, Goto, Persisting
<1>25. ASSUME NEW p \in Proc, RevocationLost(p)
     PROVE  Landed
    BY <1>25, <1>0 DEF RevocationLost, Landed, Served, TypeOK, Phases, RecordOutcome,
            Waiting, Grant, Pending, Inside, NoEntries, Revoking, Removing, Goto,
            Persisting
<1>26. ASSUME NEW p \in Proc, RevocationRefused(p)
     PROVE  Landed
    BY <1>26, <1>0 DEF RevocationRefused, Landed, Served, TypeOK, Phases, RecordOutcome,
            Waiting, Grant, Pending, Inside, NoEntries, Revoking, Removing, Goto,
            Persisting
<1>27. ASSUME NEW p \in Proc, UnlinkFile(p)
     PROVE  Landed
    BY <1>27, <1>0 DEF UnlinkFile, Landed, Served, TypeOK, Phases, Goto, Waiting, Grant,
            Pending, Inside, NoEntries, Revoking, Removing, Persisting
<1>28. ASSUME NEW p \in Proc, UnlinkStage(p)
     PROVE  Landed
    BY <1>28, <1>0 DEF UnlinkStage, Landed, Served, TypeOK, Phases, Goto, Waiting,
            Grant, Pending, Inside, NoEntries, Revoking, Removing, Persisting
<1>29. ASSUME NEW p \in Proc, UnlinkReceipt(p)
     PROVE  Landed
    BY <1>29, <1>0 DEF UnlinkReceipt, Landed, Served, TypeOK, Phases, End, Waiting,
            Grant, Pending, Inside, NoEntries, Revoking, Removing, Reset, Without,
            PortWithout, Persisting
<1>30. CASE UNCHANGED vars
    BY <1>30, <1>0 DEF vars, Landed, Served, TypeOK, Phases, Waiting, Grant, Pending,
            Inside, NoEntries, Revoking, Removing, Persisting
<1> QED
    BY <1>1, <1>2, <1>3, <1>4, <1>5, <1>6, <1>7, <1>8, <1>9, <1>10, <1>11, <1>12, <1>13,
            <1>14, <1>15, <1>16, <1>17, <1>18, <1>19, <1>20, <1>21, <1>22, <1>23, <1>24,
            <1>25, <1>26, <1>27, <1>28, <1>29, <1>30 DEF
            Next, Listener, Start, Authorize, Maintain

\* What check_connection reports as connected is the grant in the token file of the slug
\* it names, when no attempt is cancelled or replaced during its callback.
THEOREM ReportedCompanyHasLanded ==
    ASSUME ~Overtaken PROVE Spec => ReportedCompanyLanded
<1>1. Inv /\ Served /\ [Next]_vars =>
        (pending # None /\ pending' # None /\ pending'.result \notin {None, pending.result}
            => pending'.result = file'[pending.slug])
    BY LandedStep DEF Landed, Inv
<1> QED
    BY <1>1, ServedInvariance, PTL DEF Spec, ReportedCompanyLanded
================================================================================
