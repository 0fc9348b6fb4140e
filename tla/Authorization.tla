----------------------------- MODULE Authorization -----------------------------
(***************************************************************************)
(* How the connector gains and gives up companies (src/src/qbo.js): the    *)
(* sandbox listener behind connect_company, check_connection and           *)
(* cancel_connection, the terminal flow on the same port, the Playground   *)
(* import and its resumption, and disconnectCompany.  Several slugs and    *)
(* several QuickBooks companies (realms): one realm may have one slug.     *)
(*                                                                         *)
(* Abstractions.                                                           *)
(*   - A credential is the grant it belongs to, named by the number under  *)
(*     which Intuit issued it; refreshing it is TokenLifecycle's subject,  *)
(*     and so is the refresh journal.                                      *)
(*   - A check that fails, a file operation that fails, a refusal by       *)
(*     Intuit and a dead process all end a call through Fail, which any    *)
(*     call in progress may take; so a check is the guard of the step      *)
(*     behind it.  Checks that are repeated later, on newer data and under *)
(*     the locks, and --replace-existing, only add refusals: left out.     *)
(*   - The slug lock (withRefreshLock) and the realm locks are locks of    *)
(*     OwnerLock seen through ExclusiveLock.                               *)
(*   - An attempt has one complete callback: a repeated one carries a code *)
(*     that is spent and fails like an incomplete one.                     *)
(***************************************************************************)
EXTENDS Naturals

CONSTANTS
    Slug,       \* names of companies on this machine
    Realm,      \* QuickBooks companies, numbers: realm locks are taken in their order
    Attempt,    \* handlers of browser callbacks in the MCP server
    Proc,       \* command-line processes
    None,       \* no grant, no record, nobody
    MaxGrant,   \* bound on the grants Intuit issues
    Overtaken   \* whether an attempt may be cancelled or replaced while its callback
                \* is being handled

Grant == 1..MaxGrant
Call  == Attempt \cup Proc

ASSUME AuthorizationAssumption ==
    /\ Realm \subseteq Nat
    /\ Attempt \cap Proc = {}
    /\ MaxGrant \in Nat \ {0}
    /\ Overtaken \in BOOLEAN
    /\ None \notin Grant \cup Call \cup Slug \cup Realm

EntryState == {"absent", "unattempted", "attempting", "retrying", "ambiguous", "confirmed",
               "failed_explicit", "manual_required"}
Receipt == [Grant -> EntryState]
Pending == [attempt : Attempt, slug : Slug, result : Grant \cup {None},
            state : {"waiting", "expired", "failed", "connected"}]

ASSUME NoRecordAssumption == None \notin Receipt \cup Pending

VARIABLES
    file,       \* the token file of each slug
    stage,      \* its staged import
    receipt,    \* its disconnect recovery journal
    slugLock, realmLock,   \* the holders of the locks
    pending,    \* the server's one authorization attempt
    port,       \* whose server listens on the callback port
    op, pc,     \* what each call does, and its next step
    at,         \* its slug
    cur,        \* the grant it saves, or is revoking
    prev,       \* the token file before it saved
    book,       \* a disconnect's journal in memory
    todo,       \* the entries it has still to go through
    durable,    \* whether every save of that journal succeeded
    issued,     \* grants issued so far
    realmOf,    \* the realm of each of them
    revoking,   \* grants with a revocation that was sent and not definitely refused
    revoked     \* grants whose revocation Intuit confirmed

files  == <<file, stage, receipt>>
locks  == <<slugLock, realmLock>>
server == <<pending, port>>
local  == <<op, at, cur, prev, book, todo, durable>>
intuit == <<issued, realmOf, revoking, revoked>>
vars   == <<files, locks, server, local, pc, intuit>>

Persisting == {"write", "verify", "unstage"}
Revoking   == {"revoke", "post", "await"}
Removing   == {"unlinkStage", "unlinkReceipt"}
Inside     == Persisting \cup Revoking \cup Removing \cup {"realmLock"}

TypeOK ==
    /\ file \in [Slug -> Grant \cup {None}]
    /\ stage \in [Slug -> Grant \cup {None}]
    /\ receipt \in [Slug -> Receipt \cup {None}]
    /\ slugLock \in [Slug -> Call \cup {None}]
    /\ realmLock \in [Realm -> Call \cup {None}]
    /\ pending \in Pending \cup {None}
    /\ port \in Attempt \cup {None}
    /\ op \in [Call -> {"connect", "import", "resume", "disconnect"}]
    /\ pc \in [Call -> Inside \cup {"idle", "listen", "exchange"}]
    /\ at \in [Call -> Slug \cup {None}]
    /\ cur \in [Call -> Grant \cup {None}]
    /\ prev \in [Call -> Grant \cup {None}]
    /\ book \in [Call -> Receipt]
    /\ todo \in [Call -> SUBSET Grant]
    /\ durable \in [Call -> BOOLEAN]
    /\ issued \in 0..MaxGrant
    /\ realmOf \in [Grant -> Realm \cup {None}]
    /\ \A g \in Grant : realmOf[g] \in Realm <=> g <= issued
    /\ revoking \in SUBSET Grant
    /\ revoked \in SUBSET Grant

NoEntries == [g \in Grant |-> "absent"]

Init ==
    /\ file = [s \in Slug |-> None]
    /\ stage = [s \in Slug |-> None]
    /\ receipt = [s \in Slug |-> None]
    /\ slugLock = [s \in Slug |-> None]
    /\ realmLock = [r \in Realm |-> None]
    /\ pending = None
    /\ port = None
    /\ op = [c \in Call |-> "connect"]
    /\ pc = [c \in Call |-> "idle"]
    /\ at = [c \in Call |-> None]
    /\ cur = [c \in Call |-> None]
    /\ prev = [c \in Call |-> None]
    /\ book = [c \in Call |-> NoEntries]
    /\ todo = [c \in Call |-> {}]
    /\ durable = [c \in Call |-> TRUE]
    /\ issued = 0
    /\ realmOf = [g \in Grant |-> None]
    /\ revoking = {}
    /\ revoked = {}
-----------------------------------------------------------------------------
Goto(c, s) == pc' = [pc EXCEPT ![c] = s]

Without(holder, gone) == [x \in DOMAIN holder |-> IF holder[x] \in gone THEN None ELSE holder[x]]
PortWithout(gone) == IF port \in gone THEN None ELSE port
Reset(local_, gone, value) == [c \in Call |-> IF c \in gone THEN value ELSE local_[c]]

\* These calls are over: their locks are free, their servers closed, their locals gone.
End(gone) ==
    /\ pc' = Reset(pc, gone, "idle")
    /\ op' = Reset(op, gone, "connect")
    /\ at' = Reset(at, gone, None)
    /\ cur' = Reset(cur, gone, None)
    /\ prev' = Reset(prev, gone, None)
    /\ book' = Reset(book, gone, NoEntries)
    /\ todo' = Reset(todo, gone, {})
    /\ durable' = Reset(durable, gone, TRUE)
    /\ slugLock' = Without(slugLock, gone)
    /\ realmLock' = Without(realmLock, gone)
    /\ port' = PortWithout(gone)

\* Mutant of Issue: a callback without a realm is accepted.
IssueWithoutRealm(r) ==
    /\ issued < MaxGrant
    /\ issued' = issued + 1
    /\ UNCHANGED <<realmOf, revoking, revoked>>

\* Intuit issues a grant for the realm the operator picks.
Issue(r) ==
    /\ issued < MaxGrant
    /\ issued' = issued + 1
    /\ realmOf' = [realmOf EXCEPT ![issued + 1] = r]
    /\ UNCHANGED <<revoking, revoked>>
-----------------------------------------------------------------------------
\* authorizationStatus: a result comes before an error, an error before the end of the ttl.
Waiting == pending # None /\ pending.state = "waiting"

\* No callback is being handled.
Quiet == \A a \in Attempt : pc[a] \in {"idle", "listen"}

\* The server of the current attempt is closed: nobody waits for its callback any more.
Owner == IF pending = None THEN {} ELSE {pending.attempt}
Deaf(gone) == {a \in gone : pc[a] = "listen"}

StopListening(gone) ==
    /\ port' = PortWithout(gone)
    /\ pc' = Reset(pc, Deaf(gone), "idle")
    /\ at' = Reset(at, Deaf(gone), None)
    /\ UNCHANGED <<op, cur, prev, book, todo, durable>>

\* cancelAuthorization, called by the user or by beginAuthorization for an attempt that is
\* over (and then the port may be taken by a command-line flow): a callback that is being
\* handled goes on.
CancelAuthorization ==
    /\ pending # None
    /\ Overtaken \/ Quiet
    /\ pending' = None
    /\ StopListening(Owner)
    /\ UNCHANGED <<files, locks, intuit>>

\* beginAuthorization: an attempt that is over is cleared first.
BeginAuthorization(a, s) ==
    /\ pc[a] = "idle" \/ a \in Deaf(Owner)
    /\ ~Waiting
    /\ Overtaken \/ Quiet
    /\ PortWithout(Owner) = None
    /\ port' = a
    /\ pending' = [attempt |-> a, slug |-> s, result |-> None, state |-> "waiting"]
    /\ pc' = [Reset(pc, Deaf(Owner), "idle") EXCEPT ![a] = "listen"]
    /\ at' = [Reset(at, Deaf(Owner), None) EXCEPT ![a] = s]
    /\ UNCHANGED <<files, locks, op, cur, prev, book, todo, durable, intuit>>

\* Mutant of Expire: the timer does not close the server.
ExpireListening ==
    /\ Waiting
    /\ pending' = [pending EXCEPT !.state = "expired"]
    /\ UNCHANGED <<files, locks, port, pc, local, intuit>>

\* The ttl of the attempt ends.  The status shows it, and the timer closes the server,
\* only while there is neither a result nor an error.
Expire ==
    /\ Waiting
    /\ pending' = [pending EXCEPT !.state = "expired"]
    /\ StopListening(Owner)
    /\ UNCHANGED <<files, locks, intuit>>

\* A callback writes into whatever attempt is pending.
WithError ==
    IF pending = None \/ (pending # None /\ pending.state = "connected") THEN pending
    ELSE [pending EXCEPT !.state = "failed"]
WithResult(g) ==
    IF pending = None THEN None ELSE [pending EXCEPT !.state = "connected", !.result = g]

\* A request with a wrong state, or without a code or a realm.
BadCallback(a) ==
    /\ port = a
    /\ pending' = WithError
    /\ StopListening({a})
    /\ UNCHANGED <<files, locks, intuit>>

\* The operator authorizes the app in the browser, and the redirect arrives.
Callback(a) ==
    /\ pc[a] = "listen"
    /\ port = a
    /\ Goto(a, "exchange")
    /\ UNCHANGED <<files, locks, server, local, intuit>>

\* A call throws; the catch block of a callback reports it and closes the listener.
Fail(c) ==
    /\ pc[c] \notin {"idle", "listen"}
    /\ pending' = IF c \in Attempt THEN WithError ELSE pending
    /\ End({c})
    /\ UNCHANGED <<files, intuit>>

\* The server process ends with its attempt and its callbacks.  (A command-line process
\* that ends takes Fail, or is an interrupted listener.)
ServerDies ==
    /\ pending' = None
    /\ End(Attempt)
    /\ UNCHANGED <<files, intuit>>
-----------------------------------------------------------------------------
\* withRefreshLock.  A command-line call begins here with the lock of its slug: before it
\* holds nothing.
TakeSlugLock(c, s) ==
    /\ slugLock[s] = None
    /\ slugLock' = [slugLock EXCEPT ![s] = c]
    /\ UNCHANGED realmLock

Begin(p, s, what) ==
    /\ pc[p] = "idle"
    /\ TakeSlugLock(p, s)
    /\ op' = [op EXCEPT ![p] = what]
    /\ at' = [at EXCEPT ![p] = s]
    /\ Goto(p, "realmLock")

\* exchangeCodeForTokens and getCompanyInfoWithTokens; the grant is in memory only until
\* persistAuthorization has the lock.
Exchange(a) ==
    /\ pc[a] = "exchange"
    /\ TakeSlugLock(a, at[a])
    /\ \E r \in Realm : Issue(r)
    /\ cur' = [cur EXCEPT ![a] = issued + 1]
    /\ Goto(a, "realmLock")
    /\ UNCHANGED <<files, server, op, at, prev, book, todo, durable>>

\* importRefreshToken: the operator brings a refresh token of some realm from the
\* Playground; there is no stage yet and no disconnect under way; the refreshed credential
\* is staged.
ImportRefreshToken(p, s) ==
    /\ Begin(p, s, "import")
    /\ stage[s] = None
    /\ receipt[s] = None
    /\ \E r \in Realm : Issue(r)
    /\ stage' = [stage EXCEPT ![s] = issued + 1]
    /\ cur' = [cur EXCEPT ![p] = issued + 1]
    /\ UNCHANGED <<file, receipt, server, prev, book, todo, durable>>

\* runAuthorizationFlow: `npm run connect` has waited for its own callback.  (Its port is
\* left out: a busy port only refuses the server's attempt.)
RunAuthorizationFlow(p, s) ==
    /\ Begin(p, s, "connect")
    /\ \E r \in Realm : Issue(r)
    /\ cur' = [cur EXCEPT ![p] = issued + 1]
    /\ UNCHANGED <<files, server, prev, book, todo, durable>>

RecoverStagedTokenImport(p, s) ==
    /\ Begin(p, s, "resume")
    /\ stage[s] # None
    /\ cur' = [cur EXCEPT ![p] = stage[s]]
    /\ UNCHANGED <<files, server, prev, book, todo, durable, intuit>>

\* The entries of a disconnect's journal.
Listed(b) == {g \in Grant : b[g] # "absent"}

\* Mutant of Wanted: only the realm of the token file counts for a disconnect.
WantedByFile(c) ==
    {realmOf[g] : g \in IF op[c] = "disconnect" THEN {file[at[c]]} \ {None} ELSE {cur[c]}}

\* The realms a call locks: its own, or those of every entry of its journal.
Wanted(c) == {realmOf[g] : g \in IF op[c] = "disconnect" THEN Listed(book[c]) ELSE {cur[c]}}

\* Mutant of Missing: the realm locks are not taken.
MissingNone(c) == {}

Missing(c) == {r \in Wanted(c) : realmLock[r] # c}

\* Mutant of NextRealm: in the order of the credentials, the token file's realm first.
NextRealmUnsorted(c) ==
    IF file[at[c]] # None /\ realmOf[file[at[c]]] \in Missing(c)
    THEN realmOf[file[at[c]]] ELSE CHOOSE r \in Missing(c) : TRUE

\* withRealmAuthorizationLocks: one realm after the other, in their order.
NextRealm(c) == CHOOSE r \in Missing(c) : \A q \in Missing(c) : r <= q

LockRealm(c) ==
    /\ pc[c] = "realmLock"
    /\ Missing(c) # {}
    /\ realmLock[NextRealm(c)] = None
    /\ realmLock' = [realmLock EXCEPT ![NextRealm(c)] = c]
    /\ UNCHANGED <<files, slugLock, server, local, pc, intuit>>

\* Somebody has the realm under another name (assertRealmNotAlreadyAuthorized).
Elsewhere(s, r) == \E t \in Slug \ {s} : file[t] # None /\ realmOf[file[t]] = r

\* assertSafeTokenReplacement: a slug keeps its realm.
Replaceable(s, r) == file[s] # None => realmOf[file[s]] = r

\* persistAuthorizationLocked: not while a disconnect journal exists, and only a realm
\* that nobody else has and that the slug keeps; then the save, its verification or its
\* rollback.  (The journal is looked at before the realm lock is waited for: only the
\* holder of the slug lock changes it.)
Vet(c) ==
    /\ pc[c] = "realmLock" /\ op[c] # "disconnect"
    /\ receipt[at[c]] = None
    /\ Missing(c) = {}
    /\ Replaceable(at[c], realmOf[cur[c]])
    /\ ~Elsewhere(at[c], realmOf[cur[c]])
    /\ prev' = [prev EXCEPT ![c] = file[at[c]]]
    /\ Goto(c, "write")
    /\ UNCHANGED <<files, locks, server, op, at, cur, book, todo, durable, intuit>>

Write(c) ==
    /\ pc[c] = "write"
    /\ file' = [file EXCEPT ![at[c]] = cur[c]]
    /\ Goto(c, "verify")
    /\ UNCHANGED <<stage, receipt, locks, server, local, intuit>>

Verified(c) ==
    /\ pc[c] = "verify"
    /\ file[at[c]] = cur[c]
    /\ ~Elsewhere(at[c], realmOf[cur[c]])

\* An import goes on to remove its stage.
VerifyImport(p) ==
    /\ Verified(p)
    /\ op[p] # "connect"
    /\ realmLock' = Without(realmLock, {p})
    /\ Goto(p, "unstage")
    /\ UNCHANGED <<files, slugLock, server, local, intuit>>

\* A callback is done: the status shows the grant, the listener closes.
Connected(c) ==
    /\ Verified(c)
    /\ op[c] = "connect"
    /\ pending' = IF c \in Attempt THEN WithResult(cur[c]) ELSE pending
    /\ End({c})
    /\ UNCHANGED <<files, intuit>>

\* Mutant of RollBack: the attempt is reported although it was rolled back.
RollBackReported(c) ==
    /\ pc[c] = "verify"
    /\ file[at[c]] = cur[c]
    /\ file' = [file EXCEPT ![at[c]] = prev[c]]
    /\ pending' = IF c \in Attempt THEN WithResult(cur[c]) ELSE pending
    /\ End({c})
    /\ UNCHANGED <<stage, receipt, intuit>>

\* rollbackAuthorizationSave
RollBack(c) ==
    /\ pc[c] = "verify"
    /\ file[at[c]] = cur[c]
    /\ file' = [file EXCEPT ![at[c]] = prev[c]]
    /\ pending' = IF c \in Attempt THEN WithError ELSE pending
    /\ End({c})
    /\ UNCHANGED <<stage, receipt, intuit>>

\* removeTokenStage
Unstage(p) ==
    /\ pc[p] = "unstage"
    /\ stage' = [stage EXCEPT ![at[p]] = None]
    /\ End({p})
    /\ UNCHANGED <<file, receipt, pending, intuit>>
-----------------------------------------------------------------------------
\* disconnectCompany: every stored credential of the slug is an entry, by its refresh
\* token; what the journal says of an entry counts.
Entries(s) == [g \in Grant |->
    IF receipt[s] # None /\ receipt[s][g] # "absent" THEN receipt[s][g]
    ELSE IF g \in {file[s], stage[s]} THEN "unattempted" ELSE "absent"]

DisconnectCompany(p, s) ==
    /\ Begin(p, s, "disconnect")
    /\ Listed(Entries(s)) # {}
    /\ book' = [book EXCEPT ![p] = Entries(s)]
    /\ todo' = [todo EXCEPT ![p] = Listed(Entries(s))]
    /\ UNCHANGED <<files, server, cur, prev, durable, intuit>>

\* No realm of an entry is authorized under another slug; then the journal is saved
\* before the first revocation.
CheckIdentities(p) ==
    /\ pc[p] = "realmLock" /\ op[p] = "disconnect"
    /\ Missing(p) = {}
    /\ \A r \in Wanted(p) : ~Elsewhere(at[p], r)
    /\ receipt' = [receipt EXCEPT ![at[p]] = book[p]]
    /\ Goto(p, "revoke")
    /\ UNCHANGED <<file, stage, locks, server, local, intuit>>

\* Mutant of Revocable: an entry left in flight by a dead process is sent again.
RevocableInFlight(p, g) ==
    g \in todo[p] /\ book[p][g] \in {"unattempted", "failed_explicit", "attempting"}

\* The next entry that may be sent is marked in flight, durably.
Revocable(p, g) == g \in todo[p] /\ book[p][g] \in {"unattempted", "failed_explicit"}

InFlight(state) == IF state = "unattempted" THEN "attempting" ELSE "retrying"

MarkAttempt(p) ==
    /\ pc[p] = "revoke"
    /\ \E g \in Grant :
          /\ Revocable(p, g)
          /\ book' = [book EXCEPT ![p][g] = InFlight(book[p][g])]
          /\ receipt' = [receipt EXCEPT ![at[p]] = book'[p]]
          /\ cur' = [cur EXCEPT ![p] = g]
    /\ Goto(p, "post")
    /\ UNCHANGED <<file, stage, locks, server, op, at, prev, todo, durable, intuit>>

\* The request cannot even be built: the entry stays as it is.
LocalFailure(p) ==
    /\ pc[p] = "revoke"
    /\ \E g \in Grant : Revocable(p, g) /\ todo' = [todo EXCEPT ![p] = @ \ {g}]
    /\ UNCHANGED <<files, locks, server, op, at, cur, prev, book, durable, pc, intuit>>

PostRevocation(p) ==
    /\ pc[p] = "post"
    /\ revoking' = revoking \cup {cur[p]}
    /\ Goto(p, "await")
    /\ UNCHANGED <<files, locks, server, local, issued, realmOf, revoked>>

\* Intuit's answer goes to the journal, in memory and, unless that save fails, on disk.
Refused(state) == IF state = "retrying" THEN "manual_required" ELSE "failed_explicit"

RecordOutcome(p, state) ==
    /\ pc[p] = "await"
    /\ book' = [book EXCEPT ![p][cur[p]] = state]
    /\ todo' = [todo EXCEPT ![p] = @ \ {cur[p]}]
    /\ \/ /\ receipt' = [receipt EXCEPT ![at[p]] = book'[p]]
          /\ UNCHANGED durable
       \/ /\ durable' = [durable EXCEPT ![p] = FALSE]
          /\ UNCHANGED receipt
    /\ Goto(p, "revoke")
    /\ UNCHANGED <<file, stage, locks, server, op, at, cur, prev, issued, realmOf>>

RevocationConfirmed(p) ==
    /\ RecordOutcome(p, "confirmed")
    /\ revoked' = revoked \cup {cur[p]}
    /\ UNCHANGED revoking

RevocationLost(p) ==
    /\ RecordOutcome(p, "ambiguous")
    /\ UNCHANGED <<revoking, revoked>>

RevocationRefused(p) ==
    /\ RecordOutcome(p, Refused(book[p][cur[p]]))
    /\ revoking' = revoking \ {cur[p]}
    /\ UNCHANGED revoked

\* Mutant of AllConfirmed: a definite refusal is enough.
AllAnswered(p) ==
    durable[p] /\ \A g \in Listed(book[p]) : book[p][g] \in {"confirmed", "failed_explicit"}

\* Everything is confirmed and recorded: the files go, the journal last.  In every other
\* case the call throws, and no file goes.
AllConfirmed(p) == durable[p] /\ \A g \in Listed(book[p]) : book[p][g] = "confirmed"

UnlinkFile(p) ==
    /\ pc[p] = "revoke"
    /\ AllConfirmed(p)
    /\ file' = [file EXCEPT ![at[p]] = None]
    /\ Goto(p, "unlinkStage")
    /\ UNCHANGED <<stage, receipt, locks, server, local, intuit>>

UnlinkStage(p) ==
    /\ pc[p] = "unlinkStage"
    /\ stage' = [stage EXCEPT ![at[p]] = None]
    /\ Goto(p, "unlinkReceipt")
    /\ UNCHANGED <<file, receipt, locks, server, local, intuit>>

UnlinkReceipt(p) ==
    /\ pc[p] = "unlinkReceipt"
    /\ receipt' = [receipt EXCEPT ![at[p]] = None]
    /\ End({p})
    /\ UNCHANGED <<file, stage, pending, intuit>>
-----------------------------------------------------------------------------
Listener ==
    \/ CancelAuthorization \/ Expire \/ ServerDies
    \/ \E a \in Attempt :
          \/ BadCallback(a) \/ Callback(a) \/ Exchange(a)
          \/ \E s \in Slug : BeginAuthorization(a, s)

Start(p, s) ==
    \/ RunAuthorizationFlow(p, s) \/ ImportRefreshToken(p, s)
    \/ RecoverStagedTokenImport(p, s) \/ DisconnectCompany(p, s)

Authorize(c) ==
    \/ Fail(c) \/ LockRealm(c)
    \/ Vet(c) \/ Write(c) \/ Connected(c) \/ RollBack(c)

Maintain(p) ==
    \/ \E s \in Slug : Start(p, s)
    \/ VerifyImport(p) \/ Unstage(p) \/ CheckIdentities(p)
    \/ MarkAttempt(p) \/ LocalFailure(p) \/ PostRevocation(p)
    \/ RevocationConfirmed(p) \/ RevocationLost(p) \/ RevocationRefused(p)
    \/ UnlinkFile(p) \/ UnlinkStage(p) \/ UnlinkReceipt(p)

Next ==
    \/ Listener
    \/ \E c \in Call : Authorize(c)
    \/ \E p \in Proc : Maintain(p)

Spec == Init /\ [][Next]_vars
-----------------------------------------------------------------------------
\* One QuickBooks company never has two names on this machine, whichever flows authorize
\* at once (persistAuthorizationLocked under the realm lock).
UniqueRealm ==
    \A s, t \in Slug : s # t /\ file[s] # None /\ file[t] # None
                          => realmOf[file[s]] # realmOf[file[t]]

\* A revocation is never sent for a company that another slug uses at that moment
\* (disconnectCompany checks the identities once, before the first of several requests).
NoForeignRevocation ==
    \A p \in Proc : pc[p] \in {"post", "await"} => ~Elsewhere(at[p], realmOf[cur[p]])

\* A revocation that was sent and not definitely refused is never sent again, by
\* whichever process and after whichever crash (disconnectCompany).
NoRevocationReplay == \A p \in Proc : pc[p] = "post" => cur[p] \notin revoking

\* While a slug's disconnect journal exists no new credential is stored for it, and the
\* journal goes only when every entry is revoked and in no file (disconnectCompany,
\* persistAuthorizationLocked, refreshTokensLocked).
ReceiptKept ==
    [][\A s \in Slug : receipt[s] # None =>
          /\ file'[s] \in {file[s], None}
          /\ stage'[s] \in {stage[s], None}
          /\ receipt'[s] = None =>
                \A g \in Listed(receipt[s]) : g \in revoked /\ g \notin {file'[s], stage'[s]}]_vars

\* What check_connection calls connected is the grant in the token file of the slug it
\* names (index.js: "confirm which QuickBooks company actually landed").
ReportedCompanyLanded ==
    [][pending # None /\ pending' # None /\ pending'.result \notin {None, pending.result}
         => pending'.result = file'[pending.slug]]_vars

\* An attempt that is over no longer holds the callback port (the timer, the callbacks
\* and cancelAuthorization between them).
PortReleased == pending # None /\ ~Waiting => port # pending.attempt

\* Calls take realm locks upwards and hold one only inside their slug's lock: the order
\* that keeps them from waiting for each other in a circle.
Held(c) == {r \in Realm : realmLock[r] = c}
LockOrder ==
    \A c \in Call :
        /\ Held(c) # {} => slugLock[at[c]] = c
        /\ pc[c] = "realmLock" => \A r \in Held(c), q \in Missing(c) : r < q
=============================================================================
