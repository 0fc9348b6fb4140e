------------------------- MODULE TokenLifecycleProofs -------------------------
(***************************************************************************)
(* Proofs about TokenLifecycle, for every number of processes and of       *)
(* issued credentials.                                                     *)
(*                                                                         *)
(* Two layers.  Clocked says which credential has expired: a credential is *)
(* refreshed, journaled as a predecessor or quarantined only when expired, *)
(* and stored or recorded as a successor only while fresh.  Kept says      *)
(* where a refresh token may be: a spent one is marked or journaled, and   *)
(* the token of a stage, of an authorization or of an import is nowhere    *)
(* else.  The second layer needs an import that is never interrupted       *)
(* between its canonical save and the removal of its stage.                *)
(***************************************************************************)
EXTENDS TokenLifecycle, TLAPS

Early == {"idle", "peek", "load", "openLock"} \cup Opening
Waits == {"lock", "recover", "recoverTidy", "choose"}

\* Which step belongs to which operation, and when a credential is in hand.
Shape ==
    \A p \in Proc :
      /\ pc[p] \in Early => op[p] = "use" /\ cur[p] = None /\ before[p] = None
      /\ pc[p] \in {"lock", "recover", "recoverTidy", "mark", "rejectTidy", "install", "confirm"}
           => op[p] = "use"
      /\ pc[p] \in {"stageLock", "stage", "validate", "unstage"} => op[p] \in {"import", "resume"}
      /\ pc[p] = "saveLock" => op[p] = "authorize"
      /\ pc[p] \in {"save", "verify", "clear"} => op[p] # "use"
      /\ pc[p] \in {"choose", "prepare", "post", "await", "doubt", "reject", "record"}
           => op[p] # "authorize"
      /\ pc[p] \notin Early => \/ cur[p] # None
                               \/ op[p] = "resume" /\ pc[p] \in {"stageLock", "stage"}

TypeInv == TypeOK /\ Shape

\* Expired(b): there is a credential and its access token has expired.
Expired(b) == b # None /\ ~Fresh(b)

JournalAged ==
    journal # None =>
      /\ Expired(journal.predecessor)
      /\ journal.state # "successor" => Expired(journal.token_bundle)
      /\ journal.state = "successor" =>
           journal.token_bundle.at > journal.predecessor.at /\ ~journal.token_bundle.mark

\* The journal at each step of the refresh that is under way.
JournalStep ==
    \A p \in Proc : op[p] = "use" =>
      /\ pc[p] \in {"choose", "prepare"} => journal = None
      /\ pc[p] \in {"post", "await", "doubt", "reject"} =>
           journal # None /\ journal.state = "prepared" /\ journal.token_bundle = cur[p]
      /\ pc[p] = "record" => journal # None /\ journal.state = "prepared"
      /\ pc[p] = "rejectTidy" => journal # None /\ journal.state = "confirmed_rejected"
      /\ pc[p] = "mark" => journal # None /\ journal.state \in {"prepared", "ambiguous"}
      /\ pc[p] \in {"install", "confirm"} =>
           journal # None /\ journal.state = "successor" /\ journal.token_bundle = cur[p]

Aged ==
    \A p \in Proc :
      /\ op[p] = "use" /\ pc[p] \in Waits \cup {"prepare", "post", "await", "doubt", "reject"}
           => ~Fresh(cur[p])
      /\ op[p] = "use" /\ pc[p] \in {"prepare", "post", "await", "doubt"}
           => before[p] = None \/ ~Fresh(before[p])
      /\ pc[p] = "mark" => before[p] = None \/ ~Fresh(before[p])
      /\ pc[p] = "verify" => before[p] = None \/ ~before[p].mark \/ ~Fresh(before[p])
      /\ pc[p] \in Settling \cup Saving \cup {"saveLock"} => Fresh(cur[p]) /\ ~cur[p].mark

\* The token file no longer holds the predecessor when a successor's journal goes.
Replaced ==
    \A p \in Proc :
      pc[p] \in {"openTidy", "recoverTidy", "clear"} =>
        /\ canon # None
        /\ (journal # None /\ journal.state = "successor" => Changed(canon, journal.predecessor))

Clocked == JournalAged /\ JournalStep /\ Aged /\ Replaced /\ QuarantinedIsExpired

\* ----- the second layer -----

\* Every refresh token was issued.
Issued(b) == b = None \/ b.rt <= issued
Numbered ==
    /\ Issued(canon) /\ Issued(stage)
    /\ journal # None => Issued(journal.token_bundle)
    /\ \A p \in Proc : Issued(cur[p]) /\ Issued(before[p])
    /\ spent \subseteq 1..issued

\* A credential is not spent, or it is marked, or the journal is about it.
Guarded(b) ==
    b = None \/ b.mark \/ b.rt \notin spent
    \/ /\ journal # None
       /\ \/ journal.state = "successor"
          \/ journal.state \in {"prepared", "ambiguous"} /\ ~Changed(b, journal.token_bundle)

SpentKept ==
    /\ Guarded(canon)
    /\ \A p \in Proc : pc[p] = "verify" => Guarded(before[p])
    /\ journal # None /\ journal.state = "successor" => journal.token_bundle.rt \notin spent
    /\ stage # None /\ ~stage.mark => stage.rt \notin spent
    /\ \A p \in Proc :
         /\ op[p] # "use" /\ cur[p] # None /\ pc[p] \notin {"await", "doubt"} => cur[p].rt \notin spent
         /\ pc[p] \in {"prepare", "post", "reject"} \cup Settling => cur[p].rt \notin spent
         /\ pc[p] \in {"openTidy", "recoverTidy", "clear"} => canon.rt \notin spent

\* A use that waits for the lock will find a credential on disk.
WaitServed ==
    \A p \in Proc : op[p] = "use" /\ pc[p] \in Waits =>
      /\ canon # None
      /\ \A q \in Proc : pc[q] = "verify" => before[q] # None \/ canon # cur[q]

\* What a refresh read from disk is what it sends.
Source1 ==
    \A p \in Proc :
      /\ op[p] = "use" /\ pc[p] \in {"prepare", "post", "await", "doubt"} => before[p] = cur[p]
      /\ op[p] = "use" /\ pc[p] \in {"prepare", "post"} =>
           canon = None \/ ~Changed(canon, cur[p]) \/ canon.rt # cur[p].rt
      /\ op[p] # "use" /\ pc[p] \in {"post", "await", "doubt", "reject"} => stage # None /\ stage.mark
      /\ op[p] # "use" /\ pc[p] = "choose" /\ op[p] = "import" => stage = None

\* The refresh tokens that the token file, the journal or a refresh under way knows,
\* the token file itself excepted.
Refreshing == {"prepare", "post", "await", "doubt", "reject"} \cup Settling
Known(rt) ==
    \/ journal # None /\ journal.token_bundle.rt = rt
    \/ \E p \in Proc : before[p] # None /\ before[p].rt = rt
    \/ \E p \in Proc : op[p] = "use" /\ pc[p] \in Refreshing /\ cur[p].rt = rt
InFile(rt) == canon # None /\ canon.rt = rt

\* An operation carries a credential that is not yet in the token file.
Private(p) == op[p] # "use" /\ cur[p] # None /\ pc[p] \notin {"verify", "clear", "unstage"}

Apart ==
    /\ \A p \in Proc : Private(p) => ~Known(cur[p].rt) /\ ~InFile(cur[p].rt)
    /\ \A p, q \in Proc : Private(p) /\ Private(q) /\ p # q => cur[p].rt # cur[q].rt
    /\ \A p \in Proc : Private(p) /\ (op[p] = "authorize" \/ lock # p) =>
         stage = None \/ stage.rt # cur[p].rt
    /\ stage # None => ~Known(stage.rt)
    /\ stage # None /\ InFile(stage.rt) => \E p \in Proc : Promoting(p) /\ canon = cur[p]

Kept == Numbered /\ SpentKept /\ WaitServed /\ Source1 /\ Apart
-----------------------------------------------------------------------------
\* What the records are made of.
LEMMA BundleFields ==
    ASSUME NEW b \in Bundle
    PROVE  b # None /\ b.at \in Nat /\ b.rt \in 1..MaxIssued /\ b.rt \in Nat /\ b.mark \in BOOLEAN
BY TokenAssumption, NoneAssumption DEF Bundle

LEMMA NewBundle ==
    ASSUME NEW n \in 0..MaxIssued, NEW r \in 1..MaxIssued, NEW m \in BOOLEAN
    PROVE  [at |-> n, rt |-> r, mark |-> m] \in Bundle
BY DEF Bundle

LEMMA MintedType ==
    ASSUME NEW n \in 1..MaxIssued
    PROVE  /\ Minted(n) \in Bundle /\ Minted(n) # None
           /\ Minted(n).at = n /\ Minted(n).rt = n /\ Minted(n).mark = FALSE
<1>1. n \in 0..MaxIssued /\ FALSE \in BOOLEAN
  BY TokenAssumption
<1>2. Minted(n) \in Bundle
  BY <1>1 DEF Minted, Bundle
<1>3. QED BY <1>2, NoneAssumption DEF Minted

LEMMA QuarantinedType ==
    ASSUME NEW b \in Bundle
    PROVE  /\ Quarantined(b) \in Bundle
           /\ Quarantined(b).at = b.at /\ Quarantined(b).rt = b.rt /\ Quarantined(b).mark = TRUE
BY DEF Bundle, Quarantined

LEMMA JournalFields ==
    ASSUME NEW j \in Journal
    PROVE  /\ j # None /\ j.token_bundle \in Bundle /\ j.predecessor \in Bundle
           /\ j.state \in {"prepared", "ambiguous", "successor", "confirmed_rejected"}
BY NoneAssumption DEF Journal

LEMMA EntryType ==
    ASSUME NEW b \in Bundle, NEW c \in Bundle,
           NEW s \in {"prepared", "ambiguous", "successor", "confirmed_rejected"}
    PROVE  /\ Entry(s, b, c) \in Journal /\ Entry(s, b, c) # None
           /\ Entry(s, b, c).state = s /\ Entry(s, b, c).token_bundle = b
           /\ Entry(s, b, c).predecessor = c
BY NoneAssumption DEF Entry, Journal

\* The type invariant, with the step each operation and the journal are at: the journal
\* of a refresh stays as it was prepared until its own refresh settles it.
LEMMA TypeInvariant == Spec => [](TypeInv /\ JournalStep)
<1> USE TokenAssumption, NoneAssumption
<1>1. Init => TypeInv /\ JournalStep
  <2> SUFFICES ASSUME Init PROVE TypeInv /\ JournalStep
    OBVIOUS
  <2>1. 1 \in 1..MaxIssued
    OBVIOUS
  <2>2. Minted(1) \in Bundle
    BY <2>1, MintedType
  <2>3. TypeOK
    BY <2>2 DEF Init, TypeOK, Opening, Holding, Waiting, Sending, Settling, Saving, Ops
  <2>4. Shape /\ JournalStep
    BY DEF Init, Shape, JournalStep, Early, Opening, Settling
  <2>5. QED BY <2>3, <2>4 DEF TypeInv
<1>2. TypeInv /\ JournalStep /\ [Next]_vars => (TypeInv /\ JournalStep)'
  <2> SUFFICES ASSUME TypeInv, JournalStep, [Next]_vars PROVE (TypeInv /\ JournalStep)'
    OBVIOUS
  <2> USE DEF TypeInv, TypeOK, Shape, JournalStep, Early, Opening, Holding, Waiting,
              Sending, Settling, Saving, Ops, files, Goto
  <2>1. ASSUME NEW p \in Proc, Abort(p) PROVE (TypeInv /\ JournalStep)'
    BY <2>1 DEF Abort, Return, Promoting
  <2>2. ASSUME NEW p \in Proc, Lock(p) PROVE (TypeInv /\ JournalStep)'
    BY <2>2 DEF Lock, Inside
  <2>3. ASSUME NEW p \in Proc, Use(p) PROVE (TypeInv /\ JournalStep)'
    BY <2>3 DEF Use
  <2>4. ASSUME NEW p \in Proc, Peek(p) PROVE (TypeInv /\ JournalStep)'
    BY <2>4 DEF Peek
  <2>5. ASSUME NEW p \in Proc, Load(p) PROVE (TypeInv /\ JournalStep)'
    BY <2>5 DEF Load, Return, NeedsRefresh, Fresh
  <2>6. ASSUME NEW p \in Proc, RecoverSettled(p) PROVE (TypeInv /\ JournalStep)'
    BY <2>6 DEF RecoverSettled, Settled, Reauthorized, NextStep
  <2>7. ASSUME NEW p \in Proc, Promote(p) PROVE (TypeInv /\ JournalStep)'
    <3>1. journal.token_bundle \in Bundle
      BY <2>7, JournalFields DEF Promote
    <3>2. QED BY <2>7, <3>1 DEF Promote, TidyStep
  <2>8. ASSUME NEW p \in Proc, Tidy(p) PROVE (TypeInv /\ JournalStep)'
    BY <2>8 DEF Tidy, NextStep
  <2>9. ASSUME NEW p \in Proc, Choose(p) PROVE (TypeInv /\ JournalStep)'
    BY <2>9 DEF Choose, Return, ServedByDisk, Source, Forced
  <2>10. ASSUME NEW p \in Proc, PrepareRefreshAttempt(p) PROVE (TypeInv /\ JournalStep)'
    <3>1. cur[p] \in Bundle
      BY <2>10 DEF PrepareRefreshAttempt
    <3>2. Quarantined(cur[p]) \in Bundle
      BY <3>1, QuarantinedType
    <3>3. DEFINE e == Entry("prepared", cur[p], cur[p])
    <3>4. e \in Journal /\ e # None /\ e.state = "prepared" /\ e.token_bundle = cur[p]
      BY <3>1, EntryType
    <3>. HIDE DEF e
    <3>5. QED BY <2>10, <3>1, <3>2, <3>4 DEF PrepareRefreshAttempt, Forced, e
  <2>11. ASSUME NEW p \in Proc, Post(p) PROVE (TypeInv /\ JournalStep)'
    <3>1. cur[p] \in Bundle
      BY <2>11 DEF Post
    <3>2. cur[p].rt \in 1..MaxIssued
      BY <3>1, BundleFields
    <3>3. spent' \in SUBSET (1..MaxIssued)
      BY <2>11, <3>2 DEF Post
    <3>4. TypeOK'
      BY <2>11, <3>3 DEF Post
    <3>5. (Shape /\ JournalStep)'
      BY <2>11 DEF Post
    <3>6. QED BY <3>4, <3>5
  <2>12. ASSUME NEW p \in Proc, Granted(p) PROVE (TypeInv /\ JournalStep)'
    <3>1. /\ cur[p] \in Bundle /\ issued + 1 \in 1..MaxIssued /\ expired \in 0..(issued + 1)
          /\ issued + 1 \in 0..MaxIssued /\ FALSE \in BOOLEAN
      BY <2>12 DEF Granted
    <3>2. PICK rt \in {cur[p].rt, issued + 1} :
             /\ cur' = [cur EXCEPT ![p] = [at |-> issued + 1, rt |-> rt, mark |-> FALSE]]
             /\ spent' = spent \ {rt}
      BY <2>12 DEF Granted
    <3>3. DEFINE new == [at |-> issued + 1, rt |-> rt, mark |-> FALSE]
    <3>4. rt \in 1..MaxIssued
      BY <3>1, <3>2, BundleFields
    <3>5. new \in Bundle
      BY <3>1, <3>4, NewBundle
    <3>6. new # None
      BY <3>5, BundleFields
    <3>7. cur' = [cur EXCEPT ![p] = new] /\ spent' \in SUBSET (1..MaxIssued)
      BY <3>2
    <3>. HIDE DEF new
    <3>8. TypeOK'
      BY <2>12, <3>1, <3>5, <3>7 DEF Granted
    <3>9. cur'[p] # None /\ \A q \in Proc \ {p} : cur'[q] = cur[q]
      BY <3>6, <3>7
    <3>10. JournalStep'
      BY <2>12, <3>9 DEF Granted
    <3>11. Shape'
      BY <2>12, <3>9 DEF Granted
    <3>12. QED BY <3>8, <3>10, <3>11
  <2>13. ASSUME NEW p \in Proc, Rejected(p) PROVE (TypeInv /\ JournalStep)'
    <3>1. spent' \in SUBSET (1..MaxIssued)
      BY <2>13 DEF Rejected
    <3>2. TypeOK'
      BY <2>13, <3>1 DEF Rejected
    <3>3. (Shape /\ JournalStep)'
      BY <2>13 DEF Rejected
    <3>4. QED BY <3>2, <3>3
  <2>14. ASSUME NEW p \in Proc, Lost(p) PROVE (TypeInv /\ JournalStep)'
    BY <2>14 DEF Lost
  <2>15. ASSUME NEW p \in Proc, Reject(p) PROVE (TypeInv /\ JournalStep)'
    <3>1. CASE Forced(p)
      BY <2>15, <3>1 DEF Reject, Return, Forced
    <3>2. CASE ~Forced(p)
      <4>1. journal \in Journal
        BY <2>15, <3>2 DEF Reject, Forced
      <4>2. DEFINE e == Entry("confirmed_rejected", journal.token_bundle, journal.predecessor)
      <4>3. e \in Journal /\ e # None /\ e.state = "confirmed_rejected"
        BY <4>1, JournalFields, EntryType
      <4>. HIDE DEF e
      <4>4. QED BY <2>15, <3>2, <4>3 DEF Reject, Forced, e
    <3>3. QED BY <3>1, <3>2
  <2>16. ASSUME NEW p \in Proc, RejectTidy(p) PROVE (TypeInv /\ JournalStep)'
    BY <2>16 DEF RejectTidy, Return
  <2>17. ASSUME NEW p \in Proc, FailAmbiguousRefresh(p) PROVE (TypeInv /\ JournalStep)'
    <3>1. CASE Forced(p)
      <4>1. cur[p] \in Bundle
        BY <2>17 DEF FailAmbiguousRefresh
      <4>2. Quarantined(cur[p]) \in Bundle
        BY <4>1, QuarantinedType
      <4>3. QED BY <2>17, <3>1, <4>2 DEF FailAmbiguousRefresh, Return, Forced
    <3>2. CASE ~Forced(p) /\ Adoptable(p)
      BY <2>17, <3>2 DEF FailAmbiguousRefresh, Return, Forced
    <3>3. CASE ~Forced(p) /\ ~Adoptable(p)
      <4>1. journal \in Journal
        BY <2>17, <3>3 DEF FailAmbiguousRefresh, Forced
      <4>2. DEFINE e == Entry("ambiguous", journal.token_bundle, journal.predecessor)
      <4>3. e \in Journal /\ e # None /\ e.state = "ambiguous"
        BY <4>1, JournalFields, EntryType
      <4>. HIDE DEF e
      <4>4. QED BY <2>17, <3>3, <4>3 DEF FailAmbiguousRefresh, Forced, e
    <3>4. QED BY <3>1, <3>2, <3>3
  <2>18. ASSUME NEW p \in Proc, Mark(p) PROVE (TypeInv /\ JournalStep)'
    <3>1. before[p] \in Bundle \cup {None}
      BY <2>18 DEF Mark
    <3>2. before[p] # None => Quarantined(before[p]) \in Bundle
      BY <3>1, QuarantinedType
    <3>3. QED BY <2>18, <3>2 DEF Mark, Return
  <2>19. ASSUME NEW p \in Proc, Record(p) PROVE (TypeInv /\ JournalStep)'
    <3>1. cur[p] \in Bundle
      BY <2>19 DEF Record
    <3>2. CASE Forced(p)
      BY <2>19, <3>1, <3>2 DEF Record, Forced
    <3>3. CASE ~Forced(p)
      <4>1. journal \in Journal
        BY <2>19, <3>3 DEF Record, Forced
      <4>2. DEFINE e == Entry("successor", cur[p], journal.token_bundle)
      <4>3. e \in Journal /\ e # None /\ e.state = "successor" /\ e.token_bundle = cur[p]
        BY <3>1, <4>1, JournalFields, EntryType
      <4>. HIDE DEF e
      <4>4. QED BY <2>19, <3>3, <4>3 DEF Record, Forced, e
    <3>4. QED BY <3>2, <3>3
  <2>20. ASSUME NEW p \in Proc, Install(p) PROVE (TypeInv /\ JournalStep)'
    BY <2>20 DEF Install
  <2>21. ASSUME NEW p \in Proc, Confirm(p) PROVE (TypeInv /\ JournalStep)'
    BY <2>21 DEF Confirm, Return
  <2>22. ASSUME NEW p \in Proc, Authorize(p) PROVE (TypeInv /\ JournalStep)'
    <3>1. issued + 1 \in 1..MaxIssued /\ expired \in 0..(issued + 1)
      BY <2>22 DEF Authorize
    <3>2. Minted(issued + 1) \in Bundle /\ Minted(issued + 1) # None
      BY <3>1, MintedType
    <3>3. QED BY <2>22, <3>1, <3>2 DEF Authorize
  <2>23. ASSUME NEW p \in Proc, Import(p) PROVE (TypeInv /\ JournalStep)'
    <3>1. DEFINE seed == [at |-> 0, rt |-> issued + 1, mark |-> FALSE]
    <3>2. issued + 1 \in 1..MaxIssued /\ expired \in 0..(issued + 1) /\ 0 \in 0..MaxIssued /\ FALSE \in BOOLEAN
      BY <2>23 DEF Import
    <3>3. seed \in Bundle
      BY <3>2, NewBundle
    <3>4. seed # None
      BY <3>3, BundleFields
    <3>. HIDE DEF seed
    <3>5. QED BY <2>23, <3>2, <3>3, <3>4 DEF Import, seed
  <2>24. ASSUME NEW p \in Proc, Resume(p) PROVE (TypeInv /\ JournalStep)'
    BY <2>24 DEF Resume
  <2>25. ASSUME NEW p \in Proc, ImportRefreshToken(p) PROVE (TypeInv /\ JournalStep)'
    BY <2>25 DEF ImportRefreshToken, Return
  <2>26. ASSUME NEW p \in Proc, RecoverStagedTokenImport(p) PROVE (TypeInv /\ JournalStep)'
    BY <2>26 DEF RecoverStagedTokenImport, Return, Fresh
  <2>27. ASSUME NEW p \in Proc, Validate(p) PROVE (TypeInv /\ JournalStep)'
    BY <2>27 DEF Validate
  <2>28. ASSUME NEW p \in Proc, Save(p) PROVE (TypeInv /\ JournalStep)'
    BY <2>28 DEF Save
  <2>29. ASSUME NEW p \in Proc, Verify(p) PROVE (TypeInv /\ JournalStep)'
    BY <2>29 DEF Verify
  <2>30. ASSUME NEW p \in Proc, RollBack(p) PROVE (TypeInv /\ JournalStep)'
    BY <2>30 DEF RollBack, Return
  <2>31. ASSUME NEW p \in Proc, Clear(p) PROVE (TypeInv /\ JournalStep)'
    BY <2>31 DEF Clear, Return, Forced
  <2>32. ASSUME NEW p \in Proc, Unstage(p) PROVE (TypeInv /\ JournalStep)'
    BY <2>32 DEF Unstage, Return
  <2>33. CASE OutsideAuthorization
    <3>1. issued + 1 \in 1..MaxIssued /\ expired \in 0..(issued + 1)
      BY <2>33 DEF OutsideAuthorization
    <3>2. Minted(issued + 1) \in Bundle
      BY <3>1, MintedType
    <3>3. QED BY <2>33, <3>1, <3>2 DEF OutsideAuthorization
  <2>34. CASE Expire
    BY <2>34 DEF Expire
  <2>35. CASE UNCHANGED vars
    BY <2>35 DEF vars
  <2>36. QED BY <2>1, <2>2, <2>3, <2>4, <2>5, <2>6, <2>7, <2>8, <2>9, <2>10, <2>11, <2>12, <2>13, <2>14, <2>15, <2>16, <2>17, <2>18, <2>19, <2>20, <2>21, <2>22, <2>23, <2>24, <2>25, <2>26, <2>27, <2>28, <2>29, <2>30, <2>31, <2>32, <2>33, <2>34, <2>35 DEF Next, Step
<1>3. QED BY <1>1, <1>2, PTL DEF Spec

\* What is used of the types below.
LEMMA Types ==
    ASSUME TypeInv
    PROVE  /\ canon # None => canon.at \in Nat /\ canon.rt \in Nat /\ canon.mark \in BOOLEAN
           /\ stage # None => stage.at \in Nat /\ stage.rt \in Nat /\ stage.mark \in BOOLEAN
           /\ journal # None =>
                /\ journal \in Journal
                /\ journal.token_bundle # None /\ journal.predecessor # None
                /\ journal.token_bundle.at \in Nat /\ journal.token_bundle.rt \in Nat
                /\ journal.predecessor.at \in Nat /\ journal.predecessor.rt \in Nat
           /\ \A p \in Proc : cur[p] # None =>
                cur[p] \in Bundle /\ cur[p].at \in Nat /\ cur[p].rt \in Nat \ {0} /\ cur[p].mark \in BOOLEAN
           /\ \A p \in Proc : before[p] # None =>
                before[p] \in Bundle /\ before[p].at \in Nat /\ before[p].rt \in Nat /\ before[p].mark \in BOOLEAN
           /\ issued \in Nat /\ expired \in Nat /\ expired <= issued
<1> USE TokenAssumption DEF TypeInv, TypeOK
<1>1. \A b \in Bundle : b \in Bundle /\ b # None /\ b.at \in Nat /\ b.rt \in Nat \ {0} /\ b.mark \in BOOLEAN
  BY BundleFields
<1>2. \A j \in Journal : j.token_bundle \in Bundle /\ j.predecessor \in Bundle
  BY JournalFields
<1>3. QED BY <1>1, <1>2

\* Which credentials have expired.
LEMMA ClockedInvariant == Spec => []Clocked
<1> USE TokenAssumption, NoneAssumption
<1>1. Init => Clocked
  BY DEF Init, Clocked, JournalAged, JournalStep, Aged, Replaced, QuarantinedIsExpired, Minted,
         Waits, Settling, Saving, Fresh
<1>2. TypeInv /\ JournalStep /\ TypeInv' /\ JournalStep' /\ Clocked /\ [Next]_vars => Clocked'
  <2> SUFFICES ASSUME TypeInv, JournalStep, TypeInv', JournalStep', Clocked, [Next]_vars PROVE Clocked'
    OBVIOUS
  <2>0. TypeInv
    OBVIOUS
  <2> USE <2>0, Types DEF TypeInv, TypeOK, Shape, JournalStep, Early, Opening, Holding, Waiting, Sending,
          Settling, Saving, Ops, files, Goto, Clocked, JournalAged, Aged, Replaced, QuarantinedIsExpired,
          Expired, Fresh, Changed, Waits
  <2>1. ASSUME NEW p \in Proc, Abort(p) PROVE Clocked'
    BY <2>1 DEF Abort, Return, Promoting
  <2>2. ASSUME NEW p \in Proc, Lock(p) PROVE Clocked'
    BY <2>2 DEF Lock, Inside
  <2>3. ASSUME NEW p \in Proc, Use(p) PROVE Clocked'
    BY <2>3 DEF Use
  <2>4. ASSUME NEW p \in Proc, Peek(p) PROVE Clocked'
    BY <2>4 DEF Peek
  <2>5. ASSUME NEW p \in Proc, Load(p) PROVE Clocked'
    BY <2>5 DEF Load, Return, NeedsRefresh, Fresh
  <2>6. ASSUME NEW p \in Proc, RecoverSettled(p) PROVE Clocked'
    BY <2>6 DEF RecoverSettled, Settled, Reauthorized, NextStep
  <2>7. ASSUME NEW p \in Proc, Promote(p) PROVE Clocked'
    BY <2>7 DEF Promote, Superseded, TidyStep
  <2>8. ASSUME NEW p \in Proc, Tidy(p) PROVE Clocked'
    BY <2>8 DEF Tidy, NextStep
  <2>9. ASSUME NEW p \in Proc, Choose(p) PROVE Clocked'
    BY <2>9 DEF Choose, Return, ServedByDisk, Source, Forced
  <2>10. ASSUME NEW p \in Proc, PrepareRefreshAttempt(p) PROVE Clocked'
    BY <2>10 DEF PrepareRefreshAttempt, Forced, Entry, Quarantined
  <2>11. ASSUME NEW p \in Proc, Post(p) PROVE Clocked'
    BY <2>11 DEF Post
  <2>12. ASSUME NEW p \in Proc, Granted(p) PROVE Clocked'
    BY <2>12 DEF Granted
  <2>13. ASSUME NEW p \in Proc, Rejected(p) PROVE Clocked'
    BY <2>13 DEF Rejected
  <2>14. ASSUME NEW p \in Proc, Lost(p) PROVE Clocked'
    BY <2>14 DEF Lost
  <2>15. ASSUME NEW p \in Proc, Reject(p) PROVE Clocked'
    BY <2>15 DEF Reject, Return, Forced, Entry
  <2>16. ASSUME NEW p \in Proc, RejectTidy(p) PROVE Clocked'
    BY <2>16 DEF RejectTidy, Return
  <2>17. ASSUME NEW p \in Proc, FailAmbiguousRefresh(p) PROVE Clocked'
    BY <2>17 DEF FailAmbiguousRefresh, Return, Forced, Adoptable, Entry, Quarantined
  <2>18. ASSUME NEW p \in Proc, Mark(p) PROVE Clocked'
    BY <2>18 DEF Mark, Return, Quarantined
  <2>19. ASSUME NEW p \in Proc, Record(p) PROVE Clocked'
    BY <2>19 DEF Record, Forced, Entry
  <2>20. ASSUME NEW p \in Proc, Install(p) PROVE Clocked'
    BY <2>20 DEF Install
  <2>21. ASSUME NEW p \in Proc, Confirm(p) PROVE Clocked'
    BY <2>21 DEF Confirm, Return
  <2>22. ASSUME NEW p \in Proc, Authorize(p) PROVE Clocked'
    BY <2>22 DEF Authorize, Minted
  <2>23. ASSUME NEW p \in Proc, Import(p) PROVE Clocked'
    BY <2>23 DEF Import
  <2>24. ASSUME NEW p \in Proc, Resume(p) PROVE Clocked'
    BY <2>24 DEF Resume
  <2>25. ASSUME NEW p \in Proc, ImportRefreshToken(p) PROVE Clocked'
    BY <2>25 DEF ImportRefreshToken, Return
  <2>26. ASSUME NEW p \in Proc, RecoverStagedTokenImport(p) PROVE Clocked'
    BY <2>26 DEF RecoverStagedTokenImport, Return, Fresh
  <2>27. ASSUME NEW p \in Proc, Validate(p) PROVE Clocked'
    BY <2>27 DEF Validate
  <2>28. ASSUME NEW p \in Proc, Save(p) PROVE Clocked'
    BY <2>28 DEF Save
  <2>29. ASSUME NEW p \in Proc, Verify(p) PROVE Clocked'
    BY <2>29 DEF Verify
  <2>30. ASSUME NEW p \in Proc, RollBack(p) PROVE Clocked'
    BY <2>30 DEF RollBack, Return
  <2>31. ASSUME NEW p \in Proc, Clear(p) PROVE Clocked'
    BY <2>31 DEF Clear, Return, Forced
  <2>32. ASSUME NEW p \in Proc, Unstage(p) PROVE Clocked'
    BY <2>32 DEF Unstage, Return
  <2>33. CASE OutsideAuthorization
    <3>1. canon' # None /\ canon'.at = issued + 1 /\ canon'.mark = FALSE /\ expired' = expired
      BY <2>33, MintedType DEF OutsideAuthorization
    <3>2. canon'.at > expired
      BY <3>1
    <3>3. UNCHANGED <<journal, stage, lock, op, pc, cur, before, expired>>
      BY <2>33 DEF OutsideAuthorization
    <3>4. (JournalAged /\ JournalStep /\ Aged)'
      BY <3>3
    <3>5. QuarantinedIsExpired'
      BY <3>1
    <3>6. Replaced'
      BY <3>1, <3>2, <3>3
    <3>7. QED BY <3>4, <3>5, <3>6
  <2>34. CASE Expire
    BY <2>34 DEF Expire
  <2>35. CASE UNCHANGED vars
    BY <2>35 DEF vars
  <2>36. QED BY <2>1, <2>2, <2>3, <2>4, <2>5, <2>6, <2>7, <2>8, <2>9, <2>10, <2>11, <2>12, <2>13, <2>14, <2>15, <2>16, <2>17, <2>18, <2>19, <2>20, <2>21, <2>22, <2>23, <2>24, <2>25, <2>26, <2>27, <2>28, <2>29, <2>30, <2>31, <2>32, <2>33, <2>34, <2>35 DEF Next, Step
<1>3. QED BY <1>1, <1>2, TypeInvariant, PTL DEF Spec

\* The shape of every step: type correctness of the three files, of the lock and of the
\* calls (withRefreshLock).
THEOREM TypeCorrect == Spec => []TypeOK
<1>1. TypeInv => TypeOK
  BY DEF TypeInv
<1>2. QED BY <1>1, TypeInvariant, PTL

\* chooseRefreshSource may hand out a fresh credential without looking at its mark: a
\* marked one has expired.
THEOREM QuarantinedExpired == Spec => []QuarantinedIsExpired
<1>1. Clocked => QuarantinedIsExpired
  BY DEF Clocked
<1>2. QED BY <1>1, ClockedInvariant, PTL


LEMMA NumberedStep ==
    ASSUME TypeInv, JournalStep, Clocked, Kept, ~PromotionInterrupted, [Next]_vars
    PROVE  Numbered'
<1>0. TypeInv
  OBVIOUS
<1> USE <1>0, Types, TokenAssumption, NoneAssumption DEF TypeInv, TypeOK, Shape, Early, Opening, Holding, Waiting,
        Sending, Settling, Saving, Ops, files, Goto, Kept, Numbered, Issued
<1>1. ASSUME NEW p \in Proc, Abort(p) PROVE Numbered'
  BY <1>1 DEF Abort, Return, Promoting
<1>2. ASSUME NEW p \in Proc, Lock(p) PROVE Numbered'
  BY <1>2 DEF Lock, Inside
<1>3. ASSUME NEW p \in Proc, Use(p) PROVE Numbered'
  BY <1>3 DEF Use
<1>4. ASSUME NEW p \in Proc, Peek(p) PROVE Numbered'
  BY <1>4 DEF Peek
<1>5. ASSUME NEW p \in Proc, Load(p) PROVE Numbered'
  BY <1>5 DEF Load, Return, NeedsRefresh, Fresh
<1>6. ASSUME NEW p \in Proc, RecoverSettled(p) PROVE Numbered'
  BY <1>6 DEF RecoverSettled, Settled, Reauthorized, NextStep
<1>7. ASSUME NEW p \in Proc, Promote(p) PROVE Numbered'
  BY <1>7 DEF Promote, Superseded, TidyStep
<1>8. ASSUME NEW p \in Proc, Tidy(p) PROVE Numbered'
  BY <1>8 DEF Tidy, NextStep
<1>9. ASSUME NEW p \in Proc, Choose(p) PROVE Numbered'
  BY <1>9 DEF Choose, Return, ServedByDisk, Source, Forced
<1>10. ASSUME NEW p \in Proc, PrepareRefreshAttempt(p) PROVE Numbered'
  <2>1. cur[p] \in Bundle
    BY <1>10 DEF PrepareRefreshAttempt
  <2>2. /\ Quarantined(cur[p]) # None /\ Quarantined(cur[p]).at = cur[p].at
        /\ Quarantined(cur[p]).rt = cur[p].rt /\ Quarantined(cur[p]).mark = TRUE
    BY <2>1, QuarantinedType, BundleFields
  <2>3. /\ Entry("prepared", cur[p], cur[p]) # None
        /\ Entry("prepared", cur[p], cur[p]).state = "prepared"
        /\ Entry("prepared", cur[p], cur[p]).token_bundle = cur[p]
    BY <2>1, EntryType
  <2>4. QED BY <1>10, <2>1, <2>2, <2>3 DEF PrepareRefreshAttempt, Forced
<1>11. ASSUME NEW p \in Proc, Post(p) PROVE Numbered'
  <2>1. cur[p] # None /\ cur[p] \in Bundle /\ cur[p].rt \in Nat \ {0}
    BY <1>11, BundleFields DEF Post
  <2>2. cur[p].rt <= issued
    BY <2>1
  <2>3. cur[p].rt \in 1..issued
    BY <2>1, <2>2
  <2>4. spent' \subseteq 1..issued
    BY <1>11, <2>3 DEF Post
  <2>5. QED BY <1>11, <2>4 DEF Post
<1>12. ASSUME NEW p \in Proc, Granted(p) PROVE Numbered'
  BY <1>12 DEF Granted
<1>13. ASSUME NEW p \in Proc, Rejected(p) PROVE Numbered'
  BY <1>13 DEF Rejected
<1>14. ASSUME NEW p \in Proc, Lost(p) PROVE Numbered'
  BY <1>14 DEF Lost
<1>15. ASSUME NEW p \in Proc, Reject(p) PROVE Numbered'
  <2>1. CASE Forced(p)
    BY <1>15, <2>1 DEF Reject, Return, Forced
  <2>2. CASE ~Forced(p)
    <3>1. journal \in Journal
      BY <1>15, <2>2 DEF Reject, Forced, JournalStep
    <3>2. DEFINE e == Entry("confirmed_rejected", journal.token_bundle, journal.predecessor)
    <3>3. e # None /\ e.state = "confirmed_rejected" /\ e.token_bundle = journal.token_bundle
      BY <3>1, JournalFields, EntryType
    <3>. HIDE DEF e
    <3>4. QED BY <1>15, <2>2, <3>1, <3>3 DEF Reject, Forced, e
  <2>3. QED BY <2>1, <2>2
<1>16. ASSUME NEW p \in Proc, RejectTidy(p) PROVE Numbered'
  BY <1>16 DEF RejectTidy, Return
<1>17. ASSUME NEW p \in Proc, FailAmbiguousRefresh(p) PROVE Numbered'
  <2>1. CASE Forced(p)
    <3>1. cur[p] \in Bundle
      BY <1>17 DEF FailAmbiguousRefresh
    <3>2. /\ Quarantined(cur[p]) # None /\ Quarantined(cur[p]).at = cur[p].at
          /\ Quarantined(cur[p]).rt = cur[p].rt /\ Quarantined(cur[p]).mark = TRUE
      BY <3>1, QuarantinedType, BundleFields
    <3>3. QED BY <1>17, <2>1, <3>1, <3>2 DEF FailAmbiguousRefresh, Return, Forced
  <2>2. CASE ~Forced(p) /\ Adoptable(p)
    BY <1>17, <2>2 DEF FailAmbiguousRefresh, Return, Forced, Adoptable
  <2>3. CASE ~Forced(p) /\ ~Adoptable(p)
    <3>1. journal \in Journal
      BY <1>17, <2>3 DEF FailAmbiguousRefresh, Forced, JournalStep
    <3>2. DEFINE e == Entry("ambiguous", journal.token_bundle, journal.predecessor)
    <3>3. e # None /\ e.state = "ambiguous" /\ e.token_bundle = journal.token_bundle
      BY <3>1, JournalFields, EntryType
    <3>. HIDE DEF e
    <3>4. QED BY <1>17, <2>3, <3>1, <3>3 DEF FailAmbiguousRefresh, Forced, e
  <2>4. QED BY <2>1, <2>2, <2>3
<1>18. ASSUME NEW p \in Proc, Mark(p) PROVE Numbered'
  <2>1. before[p] # None => before[p] \in Bundle
    BY <1>18 DEF Mark
  <2>2. before[p] # None =>
          /\ Quarantined(before[p]) # None /\ Quarantined(before[p]).at = before[p].at
          /\ Quarantined(before[p]).rt = before[p].rt /\ Quarantined(before[p]).mark = TRUE
    BY <2>1, QuarantinedType, BundleFields
  <2>3. QED BY <1>18, <2>1, <2>2 DEF Mark, Return
<1>19. ASSUME NEW p \in Proc, Record(p) PROVE Numbered'
  <2>1. CASE Forced(p)
    BY <1>19, <2>1 DEF Record, Forced
  <2>2. CASE ~Forced(p)
    <3>1. cur[p] \in Bundle /\ journal \in Journal
      BY <1>19, <2>2 DEF Record, Forced, JournalStep
    <3>2. DEFINE e == Entry("successor", cur[p], journal.token_bundle)
    <3>3. e # None /\ e.state = "successor" /\ e.token_bundle = cur[p]
      BY <3>1, JournalFields, EntryType
    <3>. HIDE DEF e
    <3>4. QED BY <1>19, <2>2, <3>1, <3>3 DEF Record, Forced, e
  <2>3. QED BY <2>1, <2>2
<1>20. ASSUME NEW p \in Proc, Install(p) PROVE Numbered'
  BY <1>20 DEF Install
<1>21. ASSUME NEW p \in Proc, Confirm(p) PROVE Numbered'
  BY <1>21 DEF Confirm, Return
<1>22. ASSUME NEW p \in Proc, Authorize(p) PROVE Numbered'
  BY <1>22 DEF Authorize, Minted
<1>23. ASSUME NEW p \in Proc, Import(p) PROVE Numbered'
  BY <1>23 DEF Import
<1>24. ASSUME NEW p \in Proc, Resume(p) PROVE Numbered'
  BY <1>24 DEF Resume
<1>25. ASSUME NEW p \in Proc, ImportRefreshToken(p) PROVE Numbered'
  BY <1>25 DEF ImportRefreshToken, Return
<1>26. ASSUME NEW p \in Proc, RecoverStagedTokenImport(p) PROVE Numbered'
  BY <1>26 DEF RecoverStagedTokenImport, Return, Fresh
<1>27. ASSUME NEW p \in Proc, Validate(p) PROVE Numbered'
  BY <1>27 DEF Validate
<1>28. ASSUME NEW p \in Proc, Save(p) PROVE Numbered'
  BY <1>28 DEF Save
<1>29. ASSUME NEW p \in Proc, Verify(p) PROVE Numbered'
  BY <1>29 DEF Verify
<1>30. ASSUME NEW p \in Proc, RollBack(p) PROVE Numbered'
  BY <1>30 DEF RollBack, Return
<1>31. ASSUME NEW p \in Proc, Clear(p) PROVE Numbered'
  BY <1>31 DEF Clear, Return, Forced
<1>32. ASSUME NEW p \in Proc, Unstage(p) PROVE Numbered'
  BY <1>32 DEF Unstage, Return
<1>33. CASE OutsideAuthorization
  <2>0. issued + 1 \in 1..MaxIssued
    BY <1>33 DEF OutsideAuthorization
  <2>1. /\ canon' # None /\ canon'.at = issued + 1 /\ canon'.rt = issued + 1
        /\ canon'.mark = FALSE
    BY <1>33, <2>0, MintedType DEF OutsideAuthorization
  <2>2. UNCHANGED <<journal, stage, lock, op, pc, cur, before, expired, spent>> /\ issued' = issued + 1
    BY <1>33 DEF OutsideAuthorization
  <2>3. QED BY <2>1, <2>2
<1>34. CASE Expire
  BY <1>34 DEF Expire
<1>35. CASE UNCHANGED vars
  BY <1>35 DEF vars
<1>36. QED BY <1>1, <1>2, <1>3, <1>4, <1>5, <1>6, <1>7, <1>8, <1>9, <1>10, <1>11, <1>12, <1>13, <1>14, <1>15, <1>16, <1>17, <1>18, <1>19, <1>20, <1>21, <1>22, <1>23, <1>24, <1>25, <1>26, <1>27, <1>28, <1>29, <1>30, <1>31, <1>32, <1>33, <1>34, <1>35 DEF Next, Step

LEMMA SpentStep ==
    ASSUME TypeInv, JournalStep, Clocked, Kept, ~PromotionInterrupted, [Next]_vars
    PROVE  SpentKept'
<1>0. TypeInv
  OBVIOUS
<1> USE <1>0, Types, TokenAssumption, NoneAssumption DEF TypeInv, TypeOK, Shape, Early, Opening, Holding, Waiting,
        Sending, Settling, Saving, Ops, files, Goto, Kept, SpentKept, Guarded, Changed, JournalStep
<1>1. ASSUME NEW p \in Proc, Abort(p) PROVE SpentKept'
  BY <1>1 DEF Abort, Return, Promoting
<1>2. ASSUME NEW p \in Proc, Lock(p) PROVE SpentKept'
  BY <1>2 DEF Lock, Inside
<1>3. ASSUME NEW p \in Proc, Use(p) PROVE SpentKept'
  BY <1>3 DEF Use
<1>4. ASSUME NEW p \in Proc, Peek(p) PROVE SpentKept'
  BY <1>4 DEF Peek
<1>5. ASSUME NEW p \in Proc, Load(p) PROVE SpentKept'
  BY <1>5 DEF Load, Return, NeedsRefresh, Fresh
<1>6. ASSUME NEW p \in Proc, RecoverSettled(p) PROVE SpentKept'
  BY <1>6 DEF RecoverSettled, Settled, Reauthorized, NextStep
<1>7. ASSUME NEW p \in Proc, Promote(p) PROVE SpentKept'
  BY <1>7 DEF Promote, Superseded, TidyStep
<1>8. ASSUME NEW p \in Proc, Tidy(p) PROVE SpentKept'
  BY <1>8 DEF Tidy, NextStep
<1>9. ASSUME NEW p \in Proc, Choose(p) PROVE SpentKept'
  BY <1>9 DEF Choose, Return, ServedByDisk, Source, Forced, WaitServed, Waits
<1>10. ASSUME NEW p \in Proc, PrepareRefreshAttempt(p) PROVE SpentKept'
  <2>1. cur[p] \in Bundle
    BY <1>10 DEF PrepareRefreshAttempt
  <2>2. /\ Quarantined(cur[p]) # None /\ Quarantined(cur[p]).at = cur[p].at
        /\ Quarantined(cur[p]).rt = cur[p].rt /\ Quarantined(cur[p]).mark = TRUE
    BY <2>1, QuarantinedType, BundleFields
  <2>3. /\ Entry("prepared", cur[p], cur[p]) # None
        /\ Entry("prepared", cur[p], cur[p]).state = "prepared"
        /\ Entry("prepared", cur[p], cur[p]).token_bundle = cur[p]
    BY <2>1, EntryType
  <2>4. QED BY <1>10, <2>1, <2>2, <2>3 DEF PrepareRefreshAttempt, Forced, Source1, Apart, Private, Known, InFile, Numbered, Issued, QuarantinedIsExpired, Clocked
<1>11. ASSUME NEW p \in Proc, Post(p) PROVE SpentKept'
  <2>1. cur[p] # None /\ cur[p] \in Bundle /\ cur[p].rt \in Nat \ {0}
    BY <1>11, BundleFields DEF Post
  <2>2. QED BY <1>11, <2>1 DEF Post, Source1, Apart, Private, Known, InFile, Numbered, Issued, QuarantinedIsExpired, Clocked
<1>12. ASSUME NEW p \in Proc, Granted(p) PROVE SpentKept'
  BY <1>12 DEF Granted
<1>13. ASSUME NEW p \in Proc, Rejected(p) PROVE SpentKept'
  BY <1>13 DEF Rejected
<1>14. ASSUME NEW p \in Proc, Lost(p) PROVE SpentKept'
  BY <1>14 DEF Lost
<1>15. ASSUME NEW p \in Proc, Reject(p) PROVE SpentKept'
  <2>1. CASE Forced(p)
    BY <1>15, <2>1 DEF Reject, Return, Forced, Source1, Apart, Private, Known, InFile, Numbered, Issued, QuarantinedIsExpired, Clocked
  <2>2. CASE ~Forced(p)
    <3>1. journal \in Journal
      BY <1>15, <2>2 DEF Reject, Forced, JournalStep
    <3>2. DEFINE e == Entry("confirmed_rejected", journal.token_bundle, journal.predecessor)
    <3>3. e # None /\ e.state = "confirmed_rejected" /\ e.token_bundle = journal.token_bundle
      BY <3>1, JournalFields, EntryType
    <3>. HIDE DEF e
    <3>4. QED BY <1>15, <2>2, <3>1, <3>3 DEF Reject, Forced, e, Source1, Apart, Private, Known, InFile, Numbered, Issued, QuarantinedIsExpired, Clocked
  <2>3. QED BY <2>1, <2>2
<1>16. ASSUME NEW p \in Proc, RejectTidy(p) PROVE SpentKept'
  BY <1>16 DEF RejectTidy, Return
<1>17. ASSUME NEW p \in Proc, FailAmbiguousRefresh(p) PROVE SpentKept'
  <2>1. CASE Forced(p)
    <3>1. cur[p] \in Bundle
      BY <1>17 DEF FailAmbiguousRefresh
    <3>2. /\ Quarantined(cur[p]) # None /\ Quarantined(cur[p]).at = cur[p].at
          /\ Quarantined(cur[p]).rt = cur[p].rt /\ Quarantined(cur[p]).mark = TRUE
      BY <3>1, QuarantinedType, BundleFields
    <3>3. QED BY <1>17, <2>1, <3>1, <3>2 DEF FailAmbiguousRefresh, Return, Forced, Source1, Apart, Private, Known, InFile, Numbered, Issued, QuarantinedIsExpired, Clocked
  <2>2. CASE ~Forced(p) /\ Adoptable(p)
    BY <1>17, <2>2 DEF FailAmbiguousRefresh, Return, Forced, Adoptable, Source1, Apart, Private, Known, InFile, Numbered, Issued, QuarantinedIsExpired, Clocked
  <2>3. CASE ~Forced(p) /\ ~Adoptable(p)
    <3>1. journal \in Journal
      BY <1>17, <2>3 DEF FailAmbiguousRefresh, Forced, JournalStep
    <3>2. DEFINE e == Entry("ambiguous", journal.token_bundle, journal.predecessor)
    <3>3. e # None /\ e.state = "ambiguous" /\ e.token_bundle = journal.token_bundle
      BY <3>1, JournalFields, EntryType
    <3>. HIDE DEF e
    <3>4. QED BY <1>17, <2>3, <3>1, <3>3 DEF FailAmbiguousRefresh, Forced, e, Source1, Apart, Private, Known, InFile, Numbered, Issued, QuarantinedIsExpired, Clocked
  <2>4. QED BY <2>1, <2>2, <2>3
<1>18. ASSUME NEW p \in Proc, Mark(p) PROVE SpentKept'
  <2>1. before[p] # None => before[p] \in Bundle
    BY <1>18 DEF Mark
  <2>2. before[p] # None =>
          /\ Quarantined(before[p]) # None /\ Quarantined(before[p]).at = before[p].at
          /\ Quarantined(before[p]).rt = before[p].rt /\ Quarantined(before[p]).mark = TRUE
    BY <2>1, QuarantinedType, BundleFields
  <2>3. QED BY <1>18, <2>1, <2>2 DEF Mark, Return, Source1, Apart, Private, Known, InFile, Numbered, Issued, QuarantinedIsExpired, Clocked
<1>19. ASSUME NEW p \in Proc, Record(p) PROVE SpentKept'
  <2>1. CASE Forced(p)
    BY <1>19, <2>1 DEF Record, Forced, Source1, Apart, Private, Known, InFile, Numbered, Issued, QuarantinedIsExpired, Clocked
  <2>2. CASE ~Forced(p)
    <3>1. cur[p] \in Bundle /\ journal \in Journal
      BY <1>19, <2>2 DEF Record, Forced, JournalStep
    <3>2. DEFINE e == Entry("successor", cur[p], journal.token_bundle)
    <3>3. e # None /\ e.state = "successor" /\ e.token_bundle = cur[p]
      BY <3>1, JournalFields, EntryType
    <3>. HIDE DEF e
    <3>4. QED BY <1>19, <2>2, <3>1, <3>3 DEF Record, Forced, e, Source1, Apart, Private, Known, InFile, Numbered, Issued, QuarantinedIsExpired, Clocked
  <2>3. QED BY <2>1, <2>2
<1>20. ASSUME NEW p \in Proc, Install(p) PROVE SpentKept'
  BY <1>20 DEF Install
<1>21. ASSUME NEW p \in Proc, Confirm(p) PROVE SpentKept'
  BY <1>21 DEF Confirm, Return
<1>22. ASSUME NEW p \in Proc, Authorize(p) PROVE SpentKept'
  BY <1>22 DEF Authorize, Minted, Numbered
<1>23. ASSUME NEW p \in Proc, Import(p) PROVE SpentKept'
  BY <1>23 DEF Import, Numbered
<1>24. ASSUME NEW p \in Proc, Resume(p) PROVE SpentKept'
  BY <1>24 DEF Resume
<1>25. ASSUME NEW p \in Proc, ImportRefreshToken(p) PROVE SpentKept'
  BY <1>25 DEF ImportRefreshToken, Return
<1>26. ASSUME NEW p \in Proc, RecoverStagedTokenImport(p) PROVE SpentKept'
  BY <1>26 DEF RecoverStagedTokenImport, Return, Fresh
<1>27. ASSUME NEW p \in Proc, Validate(p) PROVE SpentKept'
  BY <1>27 DEF Validate
<1>28. ASSUME NEW p \in Proc, Save(p) PROVE SpentKept'
  BY <1>28 DEF Save
<1>29. ASSUME NEW p \in Proc, Verify(p) PROVE SpentKept'
  BY <1>29 DEF Verify
<1>30. ASSUME NEW p \in Proc, RollBack(p) PROVE SpentKept'
  BY <1>30 DEF RollBack, Return
<1>31. ASSUME NEW p \in Proc, Clear(p) PROVE SpentKept'
  BY <1>31 DEF Clear, Return, Forced
<1>32. ASSUME NEW p \in Proc, Unstage(p) PROVE SpentKept'
  BY <1>32 DEF Unstage, Return
<1>33. CASE OutsideAuthorization
  <2>0. issued + 1 \in 1..MaxIssued
    BY <1>33 DEF OutsideAuthorization
  <2>1. /\ canon' # None /\ canon'.at = issued + 1 /\ canon'.rt = issued + 1
        /\ canon'.mark = FALSE
    BY <1>33, <2>0, MintedType DEF OutsideAuthorization
  <2>2. UNCHANGED <<journal, stage, lock, op, pc, cur, before, expired, spent>> /\ issued' = issued + 1
    BY <1>33 DEF OutsideAuthorization
  <2>3. QED BY <2>1, <2>2 DEF Source1, Apart, Private, Known, InFile, Numbered, Issued, QuarantinedIsExpired, Clocked
<1>34. CASE Expire
  BY <1>34 DEF Expire
<1>35. CASE UNCHANGED vars
  BY <1>35 DEF vars
<1>36. QED BY <1>1, <1>2, <1>3, <1>4, <1>5, <1>6, <1>7, <1>8, <1>9, <1>10, <1>11, <1>12, <1>13, <1>14, <1>15, <1>16, <1>17, <1>18, <1>19, <1>20, <1>21, <1>22, <1>23, <1>24, <1>25, <1>26, <1>27, <1>28, <1>29, <1>30, <1>31, <1>32, <1>33, <1>34, <1>35 DEF Next, Step

LEMMA WaitStep ==
    ASSUME TypeInv, JournalStep, Clocked, Kept, ~PromotionInterrupted, [Next]_vars
    PROVE  WaitServed'
<1>0. TypeInv
  OBVIOUS
<1> USE <1>0, Types, TokenAssumption, NoneAssumption DEF TypeInv, TypeOK, Shape, Early, Opening, Holding, Waiting,
        Sending, Settling, Saving, Ops, files, Goto, Kept, WaitServed, Waits
<1>1. ASSUME NEW p \in Proc, Abort(p) PROVE WaitServed'
  BY <1>1 DEF Abort, Return, Promoting
<1>2. ASSUME NEW p \in Proc, Lock(p) PROVE WaitServed'
  BY <1>2 DEF Lock, Inside
<1>3. ASSUME NEW p \in Proc, Use(p) PROVE WaitServed'
  BY <1>3 DEF Use
<1>4. ASSUME NEW p \in Proc, Peek(p) PROVE WaitServed'
  BY <1>4 DEF Peek
<1>5. ASSUME NEW p \in Proc, Load(p) PROVE WaitServed'
  BY <1>5 DEF Load, Return, NeedsRefresh, Fresh, Clocked, Aged
<1>6. ASSUME NEW p \in Proc, RecoverSettled(p) PROVE WaitServed'
  BY <1>6 DEF RecoverSettled, Settled, Reauthorized, NextStep
<1>7. ASSUME NEW p \in Proc, Promote(p) PROVE WaitServed'
  BY <1>7 DEF Promote, Superseded, TidyStep
<1>8. ASSUME NEW p \in Proc, Tidy(p) PROVE WaitServed'
  BY <1>8 DEF Tidy, NextStep
<1>9. ASSUME NEW p \in Proc, Choose(p) PROVE WaitServed'
  BY <1>9 DEF Choose, Return, ServedByDisk, Source, Forced
<1>10. ASSUME NEW p \in Proc, PrepareRefreshAttempt(p) PROVE WaitServed'
  <2>1. cur[p] \in Bundle
    BY <1>10 DEF PrepareRefreshAttempt
  <2>2. /\ Quarantined(cur[p]) # None /\ Quarantined(cur[p]).at = cur[p].at
        /\ Quarantined(cur[p]).rt = cur[p].rt /\ Quarantined(cur[p]).mark = TRUE
    BY <2>1, QuarantinedType, BundleFields
  <2>3. /\ Entry("prepared", cur[p], cur[p]) # None
        /\ Entry("prepared", cur[p], cur[p]).state = "prepared"
        /\ Entry("prepared", cur[p], cur[p]).token_bundle = cur[p]
    BY <2>1, EntryType
  <2>4. QED BY <1>10, <2>1, <2>2, <2>3 DEF PrepareRefreshAttempt, Forced, Clocked, Aged, Fresh, Numbered, Issued
<1>11. ASSUME NEW p \in Proc, Post(p) PROVE WaitServed'
  <2>1. cur[p] # None /\ cur[p] \in Bundle /\ cur[p].rt \in Nat \ {0}
    BY <1>11, BundleFields DEF Post
  <2>2. QED BY <1>11, <2>1 DEF Post, Clocked, Aged, Fresh, Numbered, Issued
<1>12. ASSUME NEW p \in Proc, Granted(p) PROVE WaitServed'
  BY <1>12 DEF Granted
<1>13. ASSUME NEW p \in Proc, Rejected(p) PROVE WaitServed'
  BY <1>13 DEF Rejected
<1>14. ASSUME NEW p \in Proc, Lost(p) PROVE WaitServed'
  BY <1>14 DEF Lost
<1>15. ASSUME NEW p \in Proc, Reject(p) PROVE WaitServed'
  <2>1. CASE Forced(p)
    BY <1>15, <2>1 DEF Reject, Return, Forced, Clocked, Aged, Fresh, Numbered, Issued
  <2>2. CASE ~Forced(p)
    <3>1. journal \in Journal
      BY <1>15, <2>2 DEF Reject, Forced, JournalStep
    <3>2. DEFINE e == Entry("confirmed_rejected", journal.token_bundle, journal.predecessor)
    <3>3. e # None /\ e.state = "confirmed_rejected" /\ e.token_bundle = journal.token_bundle
      BY <3>1, JournalFields, EntryType
    <3>. HIDE DEF e
    <3>4. QED BY <1>15, <2>2, <3>1, <3>3 DEF Reject, Forced, e, Clocked, Aged, Fresh, Numbered, Issued
  <2>3. QED BY <2>1, <2>2
<1>16. ASSUME NEW p \in Proc, RejectTidy(p) PROVE WaitServed'
  BY <1>16 DEF RejectTidy, Return
<1>17. ASSUME NEW p \in Proc, FailAmbiguousRefresh(p) PROVE WaitServed'
  <2>1. CASE Forced(p)
    <3>1. cur[p] \in Bundle
      BY <1>17 DEF FailAmbiguousRefresh
    <3>2. /\ Quarantined(cur[p]) # None /\ Quarantined(cur[p]).at = cur[p].at
          /\ Quarantined(cur[p]).rt = cur[p].rt /\ Quarantined(cur[p]).mark = TRUE
      BY <3>1, QuarantinedType, BundleFields
    <3>3. QED BY <1>17, <2>1, <3>1, <3>2 DEF FailAmbiguousRefresh, Return, Forced, Clocked, Aged, Fresh, Numbered, Issued
  <2>2. CASE ~Forced(p) /\ Adoptable(p)
    BY <1>17, <2>2 DEF FailAmbiguousRefresh, Return, Forced, Adoptable, Clocked, Aged, Fresh, Numbered, Issued
  <2>3. CASE ~Forced(p) /\ ~Adoptable(p)
    <3>1. journal \in Journal
      BY <1>17, <2>3 DEF FailAmbiguousRefresh, Forced, JournalStep
    <3>2. DEFINE e == Entry("ambiguous", journal.token_bundle, journal.predecessor)
    <3>3. e # None /\ e.state = "ambiguous" /\ e.token_bundle = journal.token_bundle
      BY <3>1, JournalFields, EntryType
    <3>. HIDE DEF e
    <3>4. QED BY <1>17, <2>3, <3>1, <3>3 DEF FailAmbiguousRefresh, Forced, e, Clocked, Aged, Fresh, Numbered, Issued
  <2>4. QED BY <2>1, <2>2, <2>3
<1>18. ASSUME NEW p \in Proc, Mark(p) PROVE WaitServed'
  <2>1. before[p] # None => before[p] \in Bundle
    BY <1>18 DEF Mark
  <2>2. before[p] # None =>
          /\ Quarantined(before[p]) # None /\ Quarantined(before[p]).at = before[p].at
          /\ Quarantined(before[p]).rt = before[p].rt /\ Quarantined(before[p]).mark = TRUE
    BY <2>1, QuarantinedType, BundleFields
  <2>3. QED BY <1>18, <2>1, <2>2 DEF Mark, Return, Clocked, Aged, Fresh, Numbered, Issued
<1>19. ASSUME NEW p \in Proc, Record(p) PROVE WaitServed'
  <2>1. CASE Forced(p)
    BY <1>19, <2>1 DEF Record, Forced, Clocked, Aged, Fresh, Numbered, Issued
  <2>2. CASE ~Forced(p)
    <3>1. cur[p] \in Bundle /\ journal \in Journal
      BY <1>19, <2>2 DEF Record, Forced, JournalStep
    <3>2. DEFINE e == Entry("successor", cur[p], journal.token_bundle)
    <3>3. e # None /\ e.state = "successor" /\ e.token_bundle = cur[p]
      BY <3>1, JournalFields, EntryType
    <3>. HIDE DEF e
    <3>4. QED BY <1>19, <2>2, <3>1, <3>3 DEF Record, Forced, e, Clocked, Aged, Fresh, Numbered, Issued
  <2>3. QED BY <2>1, <2>2
<1>20. ASSUME NEW p \in Proc, Install(p) PROVE WaitServed'
  BY <1>20 DEF Install
<1>21. ASSUME NEW p \in Proc, Confirm(p) PROVE WaitServed'
  BY <1>21 DEF Confirm, Return
<1>22. ASSUME NEW p \in Proc, Authorize(p) PROVE WaitServed'
  BY <1>22 DEF Authorize, Minted
<1>23. ASSUME NEW p \in Proc, Import(p) PROVE WaitServed'
  BY <1>23 DEF Import
<1>24. ASSUME NEW p \in Proc, Resume(p) PROVE WaitServed'
  BY <1>24 DEF Resume
<1>25. ASSUME NEW p \in Proc, ImportRefreshToken(p) PROVE WaitServed'
  BY <1>25 DEF ImportRefreshToken, Return
<1>26. ASSUME NEW p \in Proc, RecoverStagedTokenImport(p) PROVE WaitServed'
  BY <1>26 DEF RecoverStagedTokenImport, Return, Fresh
<1>27. ASSUME NEW p \in Proc, Validate(p) PROVE WaitServed'
  BY <1>27 DEF Validate
<1>28. ASSUME NEW p \in Proc, Save(p) PROVE WaitServed'
  BY <1>28 DEF Save
<1>29. ASSUME NEW p \in Proc, Verify(p) PROVE WaitServed'
  BY <1>29 DEF Verify
<1>30. ASSUME NEW p \in Proc, RollBack(p) PROVE WaitServed'
  BY <1>30 DEF RollBack, Return
<1>31. ASSUME NEW p \in Proc, Clear(p) PROVE WaitServed'
  BY <1>31 DEF Clear, Return, Forced
<1>32. ASSUME NEW p \in Proc, Unstage(p) PROVE WaitServed'
  BY <1>32 DEF Unstage, Return
<1>33. CASE OutsideAuthorization
  <2>0. issued + 1 \in 1..MaxIssued
    BY <1>33 DEF OutsideAuthorization
  <2>1. /\ canon' # None /\ canon'.at = issued + 1 /\ canon'.rt = issued + 1
        /\ canon'.mark = FALSE
    BY <1>33, <2>0, MintedType DEF OutsideAuthorization
  <2>2. UNCHANGED <<journal, stage, lock, op, pc, cur, before, expired, spent>> /\ issued' = issued + 1
    BY <1>33 DEF OutsideAuthorization
  <2>3. QED BY <2>1, <2>2 DEF Clocked, Aged, Fresh, Numbered, Issued
<1>34. CASE Expire
  BY <1>34 DEF Expire
<1>35. CASE UNCHANGED vars
  BY <1>35 DEF vars
<1>36. QED BY <1>1, <1>2, <1>3, <1>4, <1>5, <1>6, <1>7, <1>8, <1>9, <1>10, <1>11, <1>12, <1>13, <1>14, <1>15, <1>16, <1>17, <1>18, <1>19, <1>20, <1>21, <1>22, <1>23, <1>24, <1>25, <1>26, <1>27, <1>28, <1>29, <1>30, <1>31, <1>32, <1>33, <1>34, <1>35 DEF Next, Step

LEMMA SourceStep ==
    ASSUME TypeInv, JournalStep, Clocked, Kept, ~PromotionInterrupted, [Next]_vars
    PROVE  Source1'
<1>0. TypeInv
  OBVIOUS
<1> USE <1>0, Types, TokenAssumption, NoneAssumption DEF TypeInv, TypeOK, Shape, Early, Opening, Holding, Waiting,
        Sending, Settling, Saving, Ops, files, Goto, Kept, Source1
<1>1. ASSUME NEW p \in Proc, Abort(p) PROVE Source1'
  BY <1>1 DEF Abort, Return, Promoting
<1>2. ASSUME NEW p \in Proc, Lock(p) PROVE Source1'
  BY <1>2 DEF Lock, Inside
<1>3. ASSUME NEW p \in Proc, Use(p) PROVE Source1'
  BY <1>3 DEF Use
<1>4. ASSUME NEW p \in Proc, Peek(p) PROVE Source1'
  BY <1>4 DEF Peek
<1>5. ASSUME NEW p \in Proc, Load(p) PROVE Source1'
  BY <1>5 DEF Load, Return, NeedsRefresh, Fresh
<1>6. ASSUME NEW p \in Proc, RecoverSettled(p) PROVE Source1'
  BY <1>6 DEF RecoverSettled, Settled, Reauthorized, NextStep
<1>7. ASSUME NEW p \in Proc, Promote(p) PROVE Source1'
  BY <1>7 DEF Promote, Superseded, TidyStep
<1>8. ASSUME NEW p \in Proc, Tidy(p) PROVE Source1'
  BY <1>8 DEF Tidy, NextStep
<1>9. ASSUME NEW p \in Proc, Choose(p) PROVE Source1'
  BY <1>9 DEF Choose, Return, ServedByDisk, Source, Forced, WaitServed, Waits, Changed
<1>10. ASSUME NEW p \in Proc, PrepareRefreshAttempt(p) PROVE Source1'
  <2>1. cur[p] \in Bundle
    BY <1>10 DEF PrepareRefreshAttempt
  <2>2. /\ Quarantined(cur[p]) # None /\ Quarantined(cur[p]).at = cur[p].at
        /\ Quarantined(cur[p]).rt = cur[p].rt /\ Quarantined(cur[p]).mark = TRUE
    BY <2>1, QuarantinedType, BundleFields
  <2>3. /\ Entry("prepared", cur[p], cur[p]) # None
        /\ Entry("prepared", cur[p], cur[p]).state = "prepared"
        /\ Entry("prepared", cur[p], cur[p]).token_bundle = cur[p]
    BY <2>1, EntryType
  <2>4. QED BY <1>10, <2>1, <2>2, <2>3 DEF PrepareRefreshAttempt, Forced, JournalStep, Changed, Numbered, Issued
<1>11. ASSUME NEW p \in Proc, Post(p) PROVE Source1'
  <2>1. cur[p] # None /\ cur[p] \in Bundle /\ cur[p].rt \in Nat \ {0}
    BY <1>11, BundleFields DEF Post
  <2>2. QED BY <1>11, <2>1 DEF Post, JournalStep, Changed, Numbered, Issued
<1>12. ASSUME NEW p \in Proc, Granted(p) PROVE Source1'
  BY <1>12 DEF Granted
<1>13. ASSUME NEW p \in Proc, Rejected(p) PROVE Source1'
  BY <1>13 DEF Rejected
<1>14. ASSUME NEW p \in Proc, Lost(p) PROVE Source1'
  BY <1>14 DEF Lost
<1>15. ASSUME NEW p \in Proc, Reject(p) PROVE Source1'
  <2>1. CASE Forced(p)
    BY <1>15, <2>1 DEF Reject, Return, Forced, JournalStep, Changed, Numbered, Issued
  <2>2. CASE ~Forced(p)
    <3>1. journal \in Journal
      BY <1>15, <2>2 DEF Reject, Forced, JournalStep
    <3>2. DEFINE e == Entry("confirmed_rejected", journal.token_bundle, journal.predecessor)
    <3>3. e # None /\ e.state = "confirmed_rejected" /\ e.token_bundle = journal.token_bundle
      BY <3>1, JournalFields, EntryType
    <3>. HIDE DEF e
    <3>4. QED BY <1>15, <2>2, <3>1, <3>3 DEF Reject, Forced, e, JournalStep, Changed, Numbered, Issued
  <2>3. QED BY <2>1, <2>2
<1>16. ASSUME NEW p \in Proc, RejectTidy(p) PROVE Source1'
  BY <1>16 DEF RejectTidy, Return
<1>17. ASSUME NEW p \in Proc, FailAmbiguousRefresh(p) PROVE Source1'
  <2>1. CASE Forced(p)
    <3>1. cur[p] \in Bundle
      BY <1>17 DEF FailAmbiguousRefresh
    <3>2. /\ Quarantined(cur[p]) # None /\ Quarantined(cur[p]).at = cur[p].at
          /\ Quarantined(cur[p]).rt = cur[p].rt /\ Quarantined(cur[p]).mark = TRUE
      BY <3>1, QuarantinedType, BundleFields
    <3>3. QED BY <1>17, <2>1, <3>1, <3>2 DEF FailAmbiguousRefresh, Return, Forced, JournalStep, Changed, Numbered, Issued
  <2>2. CASE ~Forced(p) /\ Adoptable(p)
    BY <1>17, <2>2 DEF FailAmbiguousRefresh, Return, Forced, Adoptable, JournalStep, Changed, Numbered, Issued
  <2>3. CASE ~Forced(p) /\ ~Adoptable(p)
    <3>1. journal \in Journal
      BY <1>17, <2>3 DEF FailAmbiguousRefresh, Forced, JournalStep
    <3>2. DEFINE e == Entry("ambiguous", journal.token_bundle, journal.predecessor)
    <3>3. e # None /\ e.state = "ambiguous" /\ e.token_bundle = journal.token_bundle
      BY <3>1, JournalFields, EntryType
    <3>. HIDE DEF e
    <3>4. QED BY <1>17, <2>3, <3>1, <3>3 DEF FailAmbiguousRefresh, Forced, e, JournalStep, Changed, Numbered, Issued
  <2>4. QED BY <2>1, <2>2, <2>3
<1>18. ASSUME NEW p \in Proc, Mark(p) PROVE Source1'
  <2>1. before[p] # None => before[p] \in Bundle
    BY <1>18 DEF Mark
  <2>2. before[p] # None =>
          /\ Quarantined(before[p]) # None /\ Quarantined(before[p]).at = before[p].at
          /\ Quarantined(before[p]).rt = before[p].rt /\ Quarantined(before[p]).mark = TRUE
    BY <2>1, QuarantinedType, BundleFields
  <2>3. QED BY <1>18, <2>1, <2>2 DEF Mark, Return, JournalStep, Changed, Numbered, Issued
<1>19. ASSUME NEW p \in Proc, Record(p) PROVE Source1'
  <2>1. CASE Forced(p)
    BY <1>19, <2>1 DEF Record, Forced, JournalStep, Changed, Numbered, Issued
  <2>2. CASE ~Forced(p)
    <3>1. cur[p] \in Bundle /\ journal \in Journal
      BY <1>19, <2>2 DEF Record, Forced, JournalStep
    <3>2. DEFINE e == Entry("successor", cur[p], journal.token_bundle)
    <3>3. e # None /\ e.state = "successor" /\ e.token_bundle = cur[p]
      BY <3>1, JournalFields, EntryType
    <3>. HIDE DEF e
    <3>4. QED BY <1>19, <2>2, <3>1, <3>3 DEF Record, Forced, e, JournalStep, Changed, Numbered, Issued
  <2>3. QED BY <2>1, <2>2
<1>20. ASSUME NEW p \in Proc, Install(p) PROVE Source1'
  BY <1>20 DEF Install
<1>21. ASSUME NEW p \in Proc, Confirm(p) PROVE Source1'
  BY <1>21 DEF Confirm, Return
<1>22. ASSUME NEW p \in Proc, Authorize(p) PROVE Source1'
  BY <1>22 DEF Authorize, Minted
<1>23. ASSUME NEW p \in Proc, Import(p) PROVE Source1'
  BY <1>23 DEF Import
<1>24. ASSUME NEW p \in Proc, Resume(p) PROVE Source1'
  BY <1>24 DEF Resume
<1>25. ASSUME NEW p \in Proc, ImportRefreshToken(p) PROVE Source1'
  BY <1>25 DEF ImportRefreshToken, Return
<1>26. ASSUME NEW p \in Proc, RecoverStagedTokenImport(p) PROVE Source1'
  BY <1>26 DEF RecoverStagedTokenImport, Return, Fresh
<1>27. ASSUME NEW p \in Proc, Validate(p) PROVE Source1'
  BY <1>27 DEF Validate
<1>28. ASSUME NEW p \in Proc, Save(p) PROVE Source1'
  BY <1>28 DEF Save
<1>29. ASSUME NEW p \in Proc, Verify(p) PROVE Source1'
  BY <1>29 DEF Verify
<1>30. ASSUME NEW p \in Proc, RollBack(p) PROVE Source1'
  BY <1>30 DEF RollBack, Return
<1>31. ASSUME NEW p \in Proc, Clear(p) PROVE Source1'
  BY <1>31 DEF Clear, Return, Forced
<1>32. ASSUME NEW p \in Proc, Unstage(p) PROVE Source1'
  BY <1>32 DEF Unstage, Return
<1>33. CASE OutsideAuthorization
  <2>0. issued + 1 \in 1..MaxIssued
    BY <1>33 DEF OutsideAuthorization
  <2>1. /\ canon' # None /\ canon'.at = issued + 1 /\ canon'.rt = issued + 1
        /\ canon'.mark = FALSE
    BY <1>33, <2>0, MintedType DEF OutsideAuthorization
  <2>2. UNCHANGED <<journal, stage, lock, op, pc, cur, before, expired, spent>> /\ issued' = issued + 1
    BY <1>33 DEF OutsideAuthorization
  <2>3. QED BY <2>1, <2>2 DEF JournalStep, Changed, Numbered, Issued
<1>34. CASE Expire
  BY <1>34 DEF Expire
<1>35. CASE UNCHANGED vars
  BY <1>35 DEF vars
<1>36. QED BY <1>1, <1>2, <1>3, <1>4, <1>5, <1>6, <1>7, <1>8, <1>9, <1>10, <1>11, <1>12, <1>13, <1>14, <1>15, <1>16, <1>17, <1>18, <1>19, <1>20, <1>21, <1>22, <1>23, <1>24, <1>25, <1>26, <1>27, <1>28, <1>29, <1>30, <1>31, <1>32, <1>33, <1>34, <1>35 DEF Next, Step

LEMMA ApartStep ==
    ASSUME TypeInv, JournalStep, Clocked, Kept, ~PromotionInterrupted, [Next]_vars
    PROVE  Apart'
<1>0. TypeInv
  OBVIOUS
<1> USE <1>0, Types, TokenAssumption, NoneAssumption DEF TypeInv, TypeOK, Shape, Early, Opening, Holding, Waiting,
        Sending, Settling, Saving, Ops, files, Goto, Kept, Apart, Private, Known, InFile, Refreshing, Promoting
<1>1. ASSUME NEW p \in Proc, Abort(p) PROVE Apart'
  BY <1>1 DEF Abort, Return, Promoting
<1>2. ASSUME NEW p \in Proc, Lock(p) PROVE Apart'
  BY <1>2 DEF Lock, Inside
<1>3. ASSUME NEW p \in Proc, Use(p) PROVE Apart'
  BY <1>3 DEF Use
<1>4. ASSUME NEW p \in Proc, Peek(p) PROVE Apart'
  BY <1>4 DEF Peek
<1>5. ASSUME NEW p \in Proc, Load(p) PROVE Apart'
  BY <1>5 DEF Load, Return, NeedsRefresh, Fresh
<1>6. ASSUME NEW p \in Proc, RecoverSettled(p) PROVE Apart'
  BY <1>6 DEF RecoverSettled, Settled, Reauthorized, NextStep
<1>7. ASSUME NEW p \in Proc, Promote(p) PROVE Apart'
  BY <1>7 DEF Promote, Superseded, TidyStep
<1>8. ASSUME NEW p \in Proc, Tidy(p) PROVE Apart'
  BY <1>8 DEF Tidy, NextStep
<1>9. ASSUME NEW p \in Proc, Choose(p) PROVE Apart'
  BY <1>9 DEF Choose, Return, ServedByDisk, Source, Forced, WaitServed, Waits
<1>10. ASSUME NEW p \in Proc, PrepareRefreshAttempt(p) PROVE Apart'
  <2>1. cur[p] \in Bundle
    BY <1>10 DEF PrepareRefreshAttempt
  <2>2. /\ Quarantined(cur[p]) # None /\ Quarantined(cur[p]).at = cur[p].at
        /\ Quarantined(cur[p]).rt = cur[p].rt /\ Quarantined(cur[p]).mark = TRUE
    BY <2>1, QuarantinedType, BundleFields
  <2>3. /\ Entry("prepared", cur[p], cur[p]) # None
        /\ Entry("prepared", cur[p], cur[p]).state = "prepared"
        /\ Entry("prepared", cur[p], cur[p]).token_bundle = cur[p]
    BY <2>1, EntryType
  <2>4. QED BY <1>10, <2>1, <2>2, <2>3 DEF PrepareRefreshAttempt, Forced, Numbered, Issued
<1>11. ASSUME NEW p \in Proc, Post(p) PROVE Apart'
  <2>1. cur[p] # None /\ cur[p] \in Bundle /\ cur[p].rt \in Nat \ {0}
    BY <1>11, BundleFields DEF Post
  <2>2. QED BY <1>11, <2>1 DEF Post, Numbered, Issued
<1>12. ASSUME NEW p \in Proc, Granted(p) PROVE Apart'
  BY <1>12 DEF Granted, Numbered, Issued
<1>13. ASSUME NEW p \in Proc, Rejected(p) PROVE Apart'
  BY <1>13 DEF Rejected
<1>14. ASSUME NEW p \in Proc, Lost(p) PROVE Apart'
  BY <1>14 DEF Lost
<1>15. ASSUME NEW p \in Proc, Reject(p) PROVE Apart'
  <2>1. CASE Forced(p)
    BY <1>15, <2>1 DEF Reject, Return, Forced, Numbered, Issued
  <2>2. CASE ~Forced(p)
    <3>1. journal \in Journal
      BY <1>15, <2>2 DEF Reject, Forced, JournalStep
    <3>2. DEFINE e == Entry("confirmed_rejected", journal.token_bundle, journal.predecessor)
    <3>3. e # None /\ e.state = "confirmed_rejected" /\ e.token_bundle = journal.token_bundle
      BY <3>1, JournalFields, EntryType
    <3>. HIDE DEF e
    <3>4. QED BY <1>15, <2>2, <3>1, <3>3 DEF Reject, Forced, e, Numbered, Issued
  <2>3. QED BY <2>1, <2>2
<1>16. ASSUME NEW p \in Proc, RejectTidy(p) PROVE Apart'
  BY <1>16 DEF RejectTidy, Return
<1>17. ASSUME NEW p \in Proc, FailAmbiguousRefresh(p) PROVE Apart'
  <2>1. CASE Forced(p)
    <3>1. cur[p] \in Bundle
      BY <1>17 DEF FailAmbiguousRefresh
    <3>2. /\ Quarantined(cur[p]) # None /\ Quarantined(cur[p]).at = cur[p].at
          /\ Quarantined(cur[p]).rt = cur[p].rt /\ Quarantined(cur[p]).mark = TRUE
      BY <3>1, QuarantinedType, BundleFields
    <3>3. QED BY <1>17, <2>1, <3>1, <3>2 DEF FailAmbiguousRefresh, Return, Forced, Numbered, Issued
  <2>2. CASE ~Forced(p) /\ Adoptable(p)
    BY <1>17, <2>2 DEF FailAmbiguousRefresh, Return, Forced, Adoptable, Numbered, Issued
  <2>3. CASE ~Forced(p) /\ ~Adoptable(p)
    <3>1. journal \in Journal
      BY <1>17, <2>3 DEF FailAmbiguousRefresh, Forced, JournalStep
    <3>2. DEFINE e == Entry("ambiguous", journal.token_bundle, journal.predecessor)
    <3>3. e # None /\ e.state = "ambiguous" /\ e.token_bundle = journal.token_bundle
      BY <3>1, JournalFields, EntryType
    <3>. HIDE DEF e
    <3>4. QED BY <1>17, <2>3, <3>1, <3>3 DEF FailAmbiguousRefresh, Forced, e, Numbered, Issued
  <2>4. QED BY <2>1, <2>2, <2>3
<1>18. ASSUME NEW p \in Proc, Mark(p) PROVE Apart'
  <2>1. before[p] # None => before[p] \in Bundle
    BY <1>18 DEF Mark
  <2>2. before[p] # None =>
          /\ Quarantined(before[p]) # None /\ Quarantined(before[p]).at = before[p].at
          /\ Quarantined(before[p]).rt = before[p].rt /\ Quarantined(before[p]).mark = TRUE
    BY <2>1, QuarantinedType, BundleFields
  <2>3. QED BY <1>18, <2>1, <2>2 DEF Mark, Return, Numbered, Issued
<1>19. ASSUME NEW p \in Proc, Record(p) PROVE Apart'
  <2>1. CASE Forced(p)
    BY <1>19, <2>1 DEF Record, Forced, Numbered, Issued
  <2>2. CASE ~Forced(p)
    <3>1. cur[p] \in Bundle /\ journal \in Journal
      BY <1>19, <2>2 DEF Record, Forced, JournalStep
    <3>2. DEFINE e == Entry("successor", cur[p], journal.token_bundle)
    <3>3. e # None /\ e.state = "successor" /\ e.token_bundle = cur[p]
      BY <3>1, JournalFields, EntryType
    <3>. HIDE DEF e
    <3>4. QED BY <1>19, <2>2, <3>1, <3>3 DEF Record, Forced, e, Numbered, Issued
  <2>3. QED BY <2>1, <2>2
<1>20. ASSUME NEW p \in Proc, Install(p) PROVE Apart'
  BY <1>20 DEF Install
<1>21. ASSUME NEW p \in Proc, Confirm(p) PROVE Apart'
  BY <1>21 DEF Confirm, Return
<1>22. ASSUME NEW p \in Proc, Authorize(p) PROVE Apart'
  BY <1>22 DEF Authorize, Minted, Numbered, Issued
<1>23. ASSUME NEW p \in Proc, Import(p) PROVE Apart'
  BY <1>23 DEF Import, Numbered, Issued
<1>24. ASSUME NEW p \in Proc, Resume(p) PROVE Apart'
  BY <1>24 DEF Resume
<1>25. ASSUME NEW p \in Proc, ImportRefreshToken(p) PROVE Apart'
  BY <1>25 DEF ImportRefreshToken, Return
<1>26. ASSUME NEW p \in Proc, RecoverStagedTokenImport(p) PROVE Apart'
  BY <1>26 DEF RecoverStagedTokenImport, Return, Fresh
<1>27. ASSUME NEW p \in Proc, Validate(p) PROVE Apart'
  BY <1>27 DEF Validate
<1>28. ASSUME NEW p \in Proc, Save(p) PROVE Apart'
  BY <1>28 DEF Save
<1>29. ASSUME NEW p \in Proc, Verify(p) PROVE Apart'
  BY <1>29 DEF Verify
<1>30. ASSUME NEW p \in Proc, RollBack(p) PROVE Apart'
  BY <1>30 DEF RollBack, Return
<1>31. ASSUME NEW p \in Proc, Clear(p) PROVE Apart'
  BY <1>31 DEF Clear, Return, Forced
<1>32. ASSUME NEW p \in Proc, Unstage(p) PROVE Apart'
  BY <1>32 DEF Unstage, Return
<1>33. CASE OutsideAuthorization
  <2>0. issued + 1 \in 1..MaxIssued
    BY <1>33 DEF OutsideAuthorization
  <2>1. /\ canon' # None /\ canon'.at = issued + 1 /\ canon'.rt = issued + 1
        /\ canon'.mark = FALSE
    BY <1>33, <2>0, MintedType DEF OutsideAuthorization
  <2>2. UNCHANGED <<journal, stage, lock, op, pc, cur, before, expired, spent>> /\ issued' = issued + 1
    BY <1>33 DEF OutsideAuthorization
  <2>3. QED BY <2>1, <2>2 DEF Numbered, Issued
<1>34. CASE Expire
  BY <1>34 DEF Expire
<1>35. CASE UNCHANGED vars
  BY <1>35 DEF vars
<1>36. QED BY <1>1, <1>2, <1>3, <1>4, <1>5, <1>6, <1>7, <1>8, <1>9, <1>10, <1>11, <1>12, <1>13, <1>14, <1>15, <1>16, <1>17, <1>18, <1>19, <1>20, <1>21, <1>22, <1>23, <1>24, <1>25, <1>26, <1>27, <1>28, <1>29, <1>30, <1>31, <1>32, <1>33, <1>34, <1>35 DEF Next, Step

\* Where every refresh token may be, when no import is interrupted while it is promoted.
LEMMA KeptInvariant ==
    ASSUME ~PromotionInterrupted
    PROVE  Spec => []Kept
<1> USE TokenAssumption, NoneAssumption
<1>1. Init => Kept
  <2> SUFFICES ASSUME Init PROVE Kept
    OBVIOUS
  <2>1. 1 \in 1..MaxIssued
    OBVIOUS
  <2>2. canon # None => canon.rt = 1 /\ canon.mark = FALSE
    <3>1. Minted(1).rt = 1 /\ Minted(1).mark = FALSE
      BY <2>1, MintedType
    <3>2. QED BY <3>1 DEF Init
  <2>3. Numbered
    BY <2>2 DEF Init, Numbered, Issued
  <2>4. SpentKept /\ WaitServed /\ Source1
    BY <2>2 DEF Init, SpentKept, Guarded, WaitServed, Source1, Waits, Settling
  <2>5. Apart
    BY DEF Init, Apart, Private
  <2>6. QED BY <2>3, <2>4, <2>5 DEF Kept
<1>2. TypeInv /\ JournalStep /\ Clocked /\ Kept /\ [Next]_vars => Kept'
  <2> SUFFICES ASSUME TypeInv, JournalStep, Clocked, Kept, [Next]_vars PROVE Kept'
    OBVIOUS
  <2>1. QED BY NumberedStep, SpentStep, WaitStep, SourceStep, ApartStep DEF Kept
<1>3. QED BY <1>1, <1>2, TypeInvariant, ClockedInvariant, PTL DEF Spec

\* No refresh token is sent again while its last refresh is in doubt, or after it was
\* replaced (refreshTokensLocked), when no import is interrupted while it is promoted.
THEOREM NeverReplayed ==
    ASSUME ~PromotionInterrupted
    PROVE  Spec => []NoReplay
<1>1. Kept => NoReplay
  BY DEF Kept, SpentKept, NoReplay
<1>2. QED BY <1>1, KeptInvariant, PTL

\* A canonical refresh token that may have been consumed is marked or journaled
\* (prepareRefreshAttempt, persistSuccessfulRefresh), under the same assumption.
THEOREM SpentGuarded ==
    ASSUME ~PromotionInterrupted
    PROVE  Spec => []SpentIsGuarded
<1>1. Kept => SpentIsGuarded
  BY DEF Kept, SpentKept, Guarded, SpentIsGuarded
<1>2. QED BY <1>1, KeptInvariant, PTL

\* A recorded successor is not forgotten before the token file has left the credential it
\* replaces (persistSuccessfulRefresh, recoverNormalRefreshLocked).
THEOREM SuccessorNotLost == Spec => SuccessorKept
<1> DEFINE A == journal # None /\ journal.state = "successor" /\ journal' # journal
                  => Changed(canon', journal.predecessor) /\ canon' # None
<1>1. TypeInv /\ JournalStep /\ Clocked /\ [Next]_vars => A
  <2> SUFFICES ASSUME TypeInv, JournalStep, Clocked, [Next]_vars,
                      journal # None, journal.state = "successor", journal' # journal
               PROVE  Changed(canon', journal.predecessor) /\ canon' # None
    OBVIOUS
  <2> USE TokenAssumption, NoneAssumption
          DEF TypeInv, TypeOK, Shape, JournalStep, Early, Opening, Holding, Waiting, Sending,
              Settling, Saving, Ops, files, Goto, Clocked, JournalAged, Replaced, Changed
  <2>1. ASSUME NEW p \in Proc, Abort(p) PROVE Changed(canon', journal.predecessor) /\ canon' # None
    BY <2>1 DEF Abort, Return, Promoting
  <2>2. ASSUME NEW p \in Proc, Lock(p) PROVE Changed(canon', journal.predecessor) /\ canon' # None
    BY <2>2 DEF Lock, Inside
  <2>3. ASSUME NEW p \in Proc, Use(p) PROVE Changed(canon', journal.predecessor) /\ canon' # None
    BY <2>3 DEF Use
  <2>4. ASSUME NEW p \in Proc, Peek(p) PROVE Changed(canon', journal.predecessor) /\ canon' # None
    BY <2>4 DEF Peek
  <2>5. ASSUME NEW p \in Proc, Load(p) PROVE Changed(canon', journal.predecessor) /\ canon' # None
    BY <2>5 DEF Load, Return, NeedsRefresh, Fresh
  <2>6. ASSUME NEW p \in Proc, RecoverSettled(p) PROVE Changed(canon', journal.predecessor) /\ canon' # None
    BY <2>6 DEF RecoverSettled, Settled, Reauthorized, NextStep
  <2>7. ASSUME NEW p \in Proc, Promote(p) PROVE Changed(canon', journal.predecessor) /\ canon' # None
    BY <2>7 DEF Promote, Superseded, TidyStep
  <2>8. ASSUME NEW p \in Proc, Tidy(p) PROVE Changed(canon', journal.predecessor) /\ canon' # None
    BY <2>8 DEF Tidy, NextStep
  <2>9. ASSUME NEW p \in Proc, Choose(p) PROVE Changed(canon', journal.predecessor) /\ canon' # None
    BY <2>9 DEF Choose, Return, ServedByDisk, Source, Forced
  <2>10. ASSUME NEW p \in Proc, PrepareRefreshAttempt(p) PROVE Changed(canon', journal.predecessor) /\ canon' # None
    BY <2>10 DEF PrepareRefreshAttempt, Forced, Entry, Quarantined
  <2>11. ASSUME NEW p \in Proc, Post(p) PROVE Changed(canon', journal.predecessor) /\ canon' # None
    BY <2>11 DEF Post
  <2>12. ASSUME NEW p \in Proc, Granted(p) PROVE Changed(canon', journal.predecessor) /\ canon' # None
    BY <2>12 DEF Granted
  <2>13. ASSUME NEW p \in Proc, Rejected(p) PROVE Changed(canon', journal.predecessor) /\ canon' # None
    BY <2>13 DEF Rejected
  <2>14. ASSUME NEW p \in Proc, Lost(p) PROVE Changed(canon', journal.predecessor) /\ canon' # None
    BY <2>14 DEF Lost
  <2>15. ASSUME NEW p \in Proc, Reject(p) PROVE Changed(canon', journal.predecessor) /\ canon' # None
    BY <2>15 DEF Reject, Return, Forced, Entry
  <2>16. ASSUME NEW p \in Proc, RejectTidy(p) PROVE Changed(canon', journal.predecessor) /\ canon' # None
    BY <2>16 DEF RejectTidy, Return
  <2>17. ASSUME NEW p \in Proc, FailAmbiguousRefresh(p) PROVE Changed(canon', journal.predecessor) /\ canon' # None
    BY <2>17 DEF FailAmbiguousRefresh, Return, Forced, Adoptable, Entry, Quarantined
  <2>18. ASSUME NEW p \in Proc, Mark(p) PROVE Changed(canon', journal.predecessor) /\ canon' # None
    BY <2>18 DEF Mark, Return, Quarantined
  <2>19. ASSUME NEW p \in Proc, Record(p) PROVE Changed(canon', journal.predecessor) /\ canon' # None
    BY <2>19 DEF Record, Forced, Entry
  <2>20. ASSUME NEW p \in Proc, Install(p) PROVE Changed(canon', journal.predecessor) /\ canon' # None
    BY <2>20 DEF Install
  <2>21. ASSUME NEW p \in Proc, Confirm(p) PROVE Changed(canon', journal.predecessor) /\ canon' # None
    BY <2>21, Types DEF Confirm, Return
  <2>22. ASSUME NEW p \in Proc, Authorize(p) PROVE Changed(canon', journal.predecessor) /\ canon' # None
    BY <2>22 DEF Authorize, Minted
  <2>23. ASSUME NEW p \in Proc, Import(p) PROVE Changed(canon', journal.predecessor) /\ canon' # None
    BY <2>23 DEF Import
  <2>24. ASSUME NEW p \in Proc, Resume(p) PROVE Changed(canon', journal.predecessor) /\ canon' # None
    BY <2>24 DEF Resume
  <2>25. ASSUME NEW p \in Proc, ImportRefreshToken(p) PROVE Changed(canon', journal.predecessor) /\ canon' # None
    BY <2>25 DEF ImportRefreshToken, Return
  <2>26. ASSUME NEW p \in Proc, RecoverStagedTokenImport(p) PROVE Changed(canon', journal.predecessor) /\ canon' # None
    BY <2>26 DEF RecoverStagedTokenImport, Return, Fresh
  <2>27. ASSUME NEW p \in Proc, Validate(p) PROVE Changed(canon', journal.predecessor) /\ canon' # None
    BY <2>27 DEF Validate
  <2>28. ASSUME NEW p \in Proc, Save(p) PROVE Changed(canon', journal.predecessor) /\ canon' # None
    BY <2>28 DEF Save
  <2>29. ASSUME NEW p \in Proc, Verify(p) PROVE Changed(canon', journal.predecessor) /\ canon' # None
    BY <2>29 DEF Verify
  <2>30. ASSUME NEW p \in Proc, RollBack(p) PROVE Changed(canon', journal.predecessor) /\ canon' # None
    BY <2>30 DEF RollBack, Return
  <2>31. ASSUME NEW p \in Proc, Clear(p) PROVE Changed(canon', journal.predecessor) /\ canon' # None
    BY <2>31 DEF Clear, Return, Forced
  <2>32. ASSUME NEW p \in Proc, Unstage(p) PROVE Changed(canon', journal.predecessor) /\ canon' # None
    BY <2>32 DEF Unstage, Return
  <2>33. CASE OutsideAuthorization
    BY <2>33 DEF OutsideAuthorization, Minted
  <2>34. CASE Expire
    BY <2>34 DEF Expire
  <2>35. CASE UNCHANGED vars
    BY <2>35 DEF vars
  <2>36. QED BY <2>1, <2>2, <2>3, <2>4, <2>5, <2>6, <2>7, <2>8, <2>9, <2>10, <2>11, <2>12, <2>13, <2>14, <2>15, <2>16, <2>17, <2>18, <2>19, <2>20, <2>21, <2>22, <2>23, <2>24, <2>25, <2>26, <2>27, <2>28, <2>29, <2>30, <2>31, <2>32, <2>33, <2>34, <2>35 DEF Next, Step
<1>2. QED BY <1>1, TypeInvariant, ClockedInvariant, PTL DEF Spec, SuccessorKept

\* Promotion replaces a credential only by a later one (recoverNormalRefreshLocked).
THEOREM RecoveryForward == Spec => RecoveryMovesForward
<1>1. TypeInv /\ JournalStep /\ Clocked /\ [Next]_vars
        => (\A p \in Proc : pc[p] \in {"open", "recover"} /\ pc'[p] # pc[p] /\ canon' # canon
                  => canon = None \/ canon'.at > canon.at)
  <2> SUFFICES ASSUME TypeInv, JournalStep, Clocked, [Next]_vars, NEW q \in Proc,
                      pc[q] \in {"open", "recover"}, pc'[q] # pc[q], canon' # canon
               PROVE  canon = None \/ canon'.at > canon.at
    OBVIOUS
  <2>0. TypeInv
    OBVIOUS
  <2> USE <2>0, Types, TokenAssumption, NoneAssumption
          DEF TypeInv, TypeOK, Shape, files, Goto, Clocked, JournalAged, Changed, Opening, Sending,
              Settling, Saving, Waiting, Holding
  <2>1. ASSUME NEW p \in Proc, Abort(p) PROVE canon = None \/ canon'.at > canon.at
    BY <2>1 DEF Abort, Return, Promoting
  <2>2. ASSUME NEW p \in Proc, Lock(p) PROVE canon = None \/ canon'.at > canon.at
    BY <2>2 DEF Lock, Inside
  <2>3. ASSUME NEW p \in Proc, Use(p) PROVE canon = None \/ canon'.at > canon.at
    BY <2>3 DEF Use
  <2>4. ASSUME NEW p \in Proc, Peek(p) PROVE canon = None \/ canon'.at > canon.at
    BY <2>4 DEF Peek
  <2>5. ASSUME NEW p \in Proc, Load(p) PROVE canon = None \/ canon'.at > canon.at
    BY <2>5 DEF Load, Return, NeedsRefresh, Fresh
  <2>6. ASSUME NEW p \in Proc, RecoverSettled(p) PROVE canon = None \/ canon'.at > canon.at
    BY <2>6 DEF RecoverSettled, Settled, Reauthorized, NextStep
  <2>7. ASSUME NEW p \in Proc, Promote(p) PROVE canon = None \/ canon'.at > canon.at
    BY <2>7 DEF Promote, Superseded, TidyStep
  <2>8. ASSUME NEW p \in Proc, Tidy(p) PROVE canon = None \/ canon'.at > canon.at
    BY <2>8 DEF Tidy, NextStep
  <2>9. ASSUME NEW p \in Proc, Choose(p) PROVE canon = None \/ canon'.at > canon.at
    BY <2>9 DEF Choose, Return, ServedByDisk, Source, Forced
  <2>10. ASSUME NEW p \in Proc, PrepareRefreshAttempt(p) PROVE canon = None \/ canon'.at > canon.at
    BY <2>10 DEF PrepareRefreshAttempt, Forced, Entry, Quarantined
  <2>11. ASSUME NEW p \in Proc, Post(p) PROVE canon = None \/ canon'.at > canon.at
    BY <2>11 DEF Post
  <2>12. ASSUME NEW p \in Proc, Granted(p) PROVE canon = None \/ canon'.at > canon.at
    BY <2>12 DEF Granted
  <2>13. ASSUME NEW p \in Proc, Rejected(p) PROVE canon = None \/ canon'.at > canon.at
    BY <2>13 DEF Rejected
  <2>14. ASSUME NEW p \in Proc, Lost(p) PROVE canon = None \/ canon'.at > canon.at
    BY <2>14 DEF Lost
  <2>15. ASSUME NEW p \in Proc, Reject(p) PROVE canon = None \/ canon'.at > canon.at
    BY <2>15 DEF Reject, Return, Forced, Entry
  <2>16. ASSUME NEW p \in Proc, RejectTidy(p) PROVE canon = None \/ canon'.at > canon.at
    BY <2>16 DEF RejectTidy, Return
  <2>17. ASSUME NEW p \in Proc, FailAmbiguousRefresh(p) PROVE canon = None \/ canon'.at > canon.at
    BY <2>17 DEF FailAmbiguousRefresh, Return, Forced, Adoptable, Entry, Quarantined
  <2>18. ASSUME NEW p \in Proc, Mark(p) PROVE canon = None \/ canon'.at > canon.at
    BY <2>18 DEF Mark, Return, Quarantined
  <2>19. ASSUME NEW p \in Proc, Record(p) PROVE canon = None \/ canon'.at > canon.at
    BY <2>19 DEF Record, Forced, Entry
  <2>20. ASSUME NEW p \in Proc, Install(p) PROVE canon = None \/ canon'.at > canon.at
    BY <2>20 DEF Install
  <2>21. ASSUME NEW p \in Proc, Confirm(p) PROVE canon = None \/ canon'.at > canon.at
    BY <2>21 DEF Confirm, Return
  <2>22. ASSUME NEW p \in Proc, Authorize(p) PROVE canon = None \/ canon'.at > canon.at
    BY <2>22 DEF Authorize, Minted
  <2>23. ASSUME NEW p \in Proc, Import(p) PROVE canon = None \/ canon'.at > canon.at
    BY <2>23 DEF Import
  <2>24. ASSUME NEW p \in Proc, Resume(p) PROVE canon = None \/ canon'.at > canon.at
    BY <2>24 DEF Resume
  <2>25. ASSUME NEW p \in Proc, ImportRefreshToken(p) PROVE canon = None \/ canon'.at > canon.at
    BY <2>25 DEF ImportRefreshToken, Return
  <2>26. ASSUME NEW p \in Proc, RecoverStagedTokenImport(p) PROVE canon = None \/ canon'.at > canon.at
    BY <2>26 DEF RecoverStagedTokenImport, Return, Fresh
  <2>27. ASSUME NEW p \in Proc, Validate(p) PROVE canon = None \/ canon'.at > canon.at
    BY <2>27 DEF Validate
  <2>28. ASSUME NEW p \in Proc, Save(p) PROVE canon = None \/ canon'.at > canon.at
    BY <2>28 DEF Save
  <2>29. ASSUME NEW p \in Proc, Verify(p) PROVE canon = None \/ canon'.at > canon.at
    BY <2>29 DEF Verify
  <2>30. ASSUME NEW p \in Proc, RollBack(p) PROVE canon = None \/ canon'.at > canon.at
    BY <2>30 DEF RollBack, Return
  <2>31. ASSUME NEW p \in Proc, Clear(p) PROVE canon = None \/ canon'.at > canon.at
    BY <2>31 DEF Clear, Return, Forced
  <2>32. ASSUME NEW p \in Proc, Unstage(p) PROVE canon = None \/ canon'.at > canon.at
    BY <2>32 DEF Unstage, Return
  <2>33. CASE OutsideAuthorization
    BY <2>33 DEF OutsideAuthorization, Minted
  <2>34. CASE Expire
    BY <2>34 DEF Expire
  <2>35. CASE UNCHANGED vars
    BY <2>35 DEF vars
  <2>36. QED BY <2>1, <2>2, <2>3, <2>4, <2>5, <2>6, <2>7, <2>8, <2>9, <2>10, <2>11, <2>12, <2>13, <2>14, <2>15, <2>16, <2>17, <2>18, <2>19, <2>20, <2>21, <2>22, <2>23, <2>24, <2>25, <2>26, <2>27, <2>28, <2>29, <2>30, <2>31, <2>32, <2>33, <2>34, <2>35 DEF Next, Step
<1>2. QED BY <1>1, TypeInvariant, ClockedInvariant, PTL DEF Spec, RecoveryMovesForward
=============================================================================
