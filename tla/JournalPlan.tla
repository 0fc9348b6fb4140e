------------------------------ MODULE JournalPlan ------------------------------
(***************************************************************************)
(* create_journal_entry_multi (src/src/index.js): one journal entry for    *)
(* several companies, previewed under a single-use plan and then posted    *)
(* company by company, every step of it under the write policy while other *)
(* calls and other processes change the policy and the books.              *)
(*                                                                         *)
(* Abstractions.                                                           *)
(*   - What an entry resolves to in a company (accounts, closed-period     *)
(*     warnings) is the version of that company's books.                   *)
(*   - The companies of a call are taken in any order.                     *)
(*   - qboRequest is its policy check and its request; the token, the      *)
(*     request lock and the recovery ledger are WriteRecovery's and        *)
(*     TokenLifecycle's subject, and only add time between the two.        *)
(***************************************************************************)
EXTENDS WritePolicy

CONSTANTS
    Realm,       \* the QuickBooks companies the slugs may stand for
    Call,        \* concurrent calls of the tool
    Plan,        \* plan ids, in the order of their issue
    Companies,   \* sets of companies an entry is asked for
    Entry,       \* journal entries: [lines, date]; lines are [posting, amount]
    MaxBooks     \* bound on the changes of each company's books

Manifest == [entry : Entry, seen : [Slug -> 0..MaxBooks \cup {None}]]

ASSUME JournalPlanAssumption ==
    /\ Entry \subseteq [lines : Seq([posting : {"Debit", "Credit"}, amount : Nat]), date : Nat]
    /\ Companies \subseteq SUBSET Slug \ {{}}
    /\ MaxBooks \in Nat
    /\ None \notin Plan
    /\ None \notin Entry
    /\ None \notin Slug
    /\ None \notin 0..MaxBooks
    /\ None \notin Copy
    /\ None \notin Manifest

VARIABLES
    realm,       \* the realm of each slug (a realm may have an old alias)
    books,       \* the version of each company's books
    plans,       \* pendingWritePlans: the manifest of each plan that waits
    previewed,   \* what each plan showed the user
    pc,          \* each call's step
    entry, plan, \* its arguments; no plan asks for a preview
    left,        \* the companies it has still to go through
    manifest,    \* what it has resolved: [entry, seen]
    at,          \* the company it checks
    copy,        \* the policy it loaded for that check
    since,       \* the generation of the policy when that check began
    posts        \* the journal entries QuickBooks created, by plan and company

callVars == <<pc, entry, plan, left, manifest, at, copy, since>>
vars == <<policyVars, realm, books, plans, previewed, callVars, posts>>

TypeOK ==
    /\ PolicyTypeOK
    /\ realm \in [Slug -> Realm]
    /\ books \in [Slug -> 0..MaxBooks]
    /\ plans \in [Plan -> Manifest \cup {None}]
    /\ previewed \in [Plan -> Manifest \cup {None}]
    /\ pc \in [Call -> {"idle", "resolve", "post", "load", "judge", "send"}]
    /\ entry \in [Call -> Entry \cup {None}]
    /\ plan \in [Call -> Plan \cup {None}]
    /\ left \in [Call -> SUBSET Slug]
    /\ manifest \in [Call -> Manifest \cup {None}]
    /\ at \in [Call -> Slug \cup {None}]
    /\ copy \in [Call -> Copy \cup {None}]
    /\ since \in [Call -> 0..MaxGen]
    /\ posts \in [Plan -> [Slug -> Nat]]

Init ==
    /\ PolicyInit
    /\ realm \in [Slug -> Realm]
    /\ books = [s \in Slug |-> 0]
    /\ plans = [k \in Plan |-> None]
    /\ previewed = [k \in Plan |-> None]
    /\ pc = [c \in Call |-> "idle"]
    /\ entry = [c \in Call |-> None]
    /\ plan = [c \in Call |-> None]
    /\ left = [c \in Call |-> {}]
    /\ manifest = [c \in Call |-> None]
    /\ at = [c \in Call |-> None]
    /\ copy = [c \in Call |-> None]
    /\ since = [c \in Call |-> 0]
    /\ posts = [k \in Plan |-> [s \in Slug |-> 0]]
-----------------------------------------------------------------------------
Goto(c, s) == pc' = [pc EXCEPT ![c] = s]

Reset(f, gone, value) == [c \in Call |-> IF c \in gone THEN value ELSE f[c]]

\* These calls are over.
End(gone) ==
    /\ pc' = Reset(pc, gone, "idle")
    /\ entry' = Reset(entry, gone, None)
    /\ plan' = Reset(plan, gone, None)
    /\ left' = Reset(left, gone, {})
    /\ manifest' = Reset(manifest, gone, None)
    /\ at' = Reset(at, gone, None)
    /\ copy' = Reset(copy, gone, None)
    /\ since' = Reset(since, gone, 0)

\* A call for some companies: a preview, or the confirmation of a plan the user was
\* shown, with the same entry or another one.
Request(c, e, k, companies) ==
    /\ pc[c] = "idle"
    /\ k # None => previewed[k] # None
    /\ entry' = [entry EXCEPT ![c] = e]
    /\ plan' = [plan EXCEPT ![c] = k]
    /\ left' = [left EXCEPT ![c] = companies]
    /\ manifest' = [manifest EXCEPT ![c] = [entry |-> e, seen |-> [s \in Slug |-> None]]]
    /\ Goto(c, "resolve")
    /\ UNCHANGED <<policyVars, realm, books, plans, previewed, at, copy, since, posts>>

\* loadPolicy: the cached copy while the open file has its identity.
Load == IF cache # None /\ cache.gen = gen THEN cache ELSE [gen |-> gen, policy |-> policy]

Siblings(s) == {t \in Slug : realm[t] = realm[s]}
Allowed(p, e, s, dated) == Allows(Effective(p, s, Siblings(s)), e, dated)

CacheCopy(k) ==
    /\ cache' = k
    /\ UNCHANGED <<policy, gen, backup, lock, upc, change, doc, want>>

\* The next company's policy permits the entry, which is resolved against its books.
\* (The check is one step here: qboRequest repeats it before it writes.)
Resolve(c) ==
    /\ pc[c] = "resolve"
    /\ policy # None
    /\ \E s \in left[c] :
          /\ Allowed(Load.policy, entry[c], s, FALSE)
          /\ manifest' = [manifest EXCEPT ![c].seen[s] = books[s]]
          /\ left' = [left EXCEPT ![c] = @ \ {s}]
    /\ CacheCopy(Load)
    /\ UNCHANGED <<realm, books, plans, previewed, pc, entry, plan, at, copy, since, posts>>

\* A refused check, a policy file in the wrong place, or any failure, ends a call that
\* resolves; a call that posts reports the company and goes on.
RefuseResolve(c) ==
    /\ pc[c] = "resolve"
    /\ End({c})
    /\ UNCHANGED <<policyVars, realm, books, plans, previewed, posts>>

\* Without a plan id the manifest is stored under a new plan.
Preview(c, k) ==
    /\ pc[c] = "resolve" /\ left[c] = {}
    /\ plan[c] = None
    /\ previewed[k] = None
    /\ plans' = [plans EXCEPT ![k] = manifest[c]]
    /\ previewed' = [previewed EXCEPT ![k] = manifest[c]]
    /\ End({c})
    /\ UNCHANGED <<policyVars, realm, books, posts>>

\* Mutant of TakePlan: a plan serves until it expires.
KeepPlan(c) == UNCHANGED plans

\* A plan id is taken out of the map in the step that looks it up.
TakePlan(c) == plans' = [plans EXCEPT ![plan[c]] = None]

Confirm(c) ==
    /\ pc[c] = "resolve" /\ left[c] = {}
    /\ plan[c] # None
    /\ plans[plan[c]] = manifest[c]
    /\ TakePlan(c)
    /\ left' = [left EXCEPT ![c] = {s \in Slug : manifest[c].seen[s] # None}]
    /\ Goto(c, "post")
    /\ UNCHANGED <<policyVars, realm, books, previewed, entry, plan, manifest, at, copy, since,
                   posts>>

\* Missing, expired, or changed: the plan is gone all the same.
RefusePlan(c) ==
    /\ pc[c] = "resolve" /\ left[c] = {}
    /\ plan[c] # None
    /\ plans[plan[c]] # manifest[c]
    /\ TakePlan(c)
    /\ End({c})
    /\ UNCHANGED <<policyVars, realm, books, previewed, posts>>

\* qboRequest opens the policy file for the next company and compares its identity with
\* the cached copy's.
Check(c) ==
    /\ pc[c] = "post"
    /\ policy # None
    /\ \E s \in left[c] : at' = [at EXCEPT ![c] = s]
    /\ copy' = [copy EXCEPT ![c] = Load]
    /\ since' = [since EXCEPT ![c] = gen]
    /\ Goto(c, IF Load = cache THEN "judge" ELSE "load")
    /\ UNCHANGED <<policyVars, realm, books, plans, previewed, entry, plan, left, manifest,
                   posts>>

\* What the call has read from the file becomes the cached copy.
Loaded(c) == CacheCopy(IF pc[c] = "load" THEN copy[c] ELSE cache)

Judge(c) ==
    /\ pc[c] \in {"load", "judge"}
    /\ Allowed(copy[c].policy, entry[c], at[c], TRUE)
    /\ Loaded(c)
    /\ Goto(c, "send")
    /\ UNCHANGED <<realm, books, plans, previewed, entry, plan, left, manifest, at, copy, since,
                   posts>>

Dropped(c) ==
    /\ left' = [left EXCEPT ![c] = @ \ {at[c]}]
    /\ at' = [at EXCEPT ![c] = None]
    /\ copy' = [copy EXCEPT ![c] = None]
    /\ since' = [since EXCEPT ![c] = 0]
    /\ Goto(c, "post")

Send(c) ==
    /\ pc[c] = "send"
    /\ posts' = [posts EXCEPT ![plan[c]][at[c]] = @ + 1]
    /\ Dropped(c)
    /\ UNCHANGED <<policyVars, realm, books, plans, previewed, entry, plan, manifest>>

\* A refusal or a failure is reported, and the loop goes on.
PostFails(c) ==
    /\ pc[c] \in {"load", "judge", "send"}
    /\ Loaded(c)
    /\ Dropped(c)
    /\ UNCHANGED <<realm, books, plans, previewed, entry, plan, manifest, posts>>

\* A missing file refuses the write.
PolicyMissing(c) ==
    /\ pc[c] = "post"
    /\ policy = None
    /\ \E s \in left[c] : left' = [left EXCEPT ![c] = @ \ {s}]
    /\ CacheCopy(None)
    /\ UNCHANGED <<realm, books, plans, previewed, pc, entry, plan, manifest, at, copy, since,
                   posts>>

Done(c) ==
    /\ pc[c] = "post" /\ left[c] = {}
    /\ End({c})
    /\ UNCHANGED <<policyVars, realm, books, plans, previewed, posts>>
-----------------------------------------------------------------------------
\* Ten minutes pass.
ExpirePlan(k) ==
    /\ plans[k] # None
    /\ plans' = [plans EXCEPT ![k] = None]
    /\ UNCHANGED <<policyVars, realm, books, previewed, callVars, posts>>

\* The server restarts: its plans, its calls and its cache are gone, its update too.
RestartServer ==
    /\ plans' = [k \in Plan |-> None]
    /\ End(Call)
    /\ Release(Server)
    /\ cache' = None
    /\ UNCHANGED <<policy, gen, backup, want, realm, books, previewed, posts>>

\* Somebody edits the chart of accounts or the closing date in QuickBooks.
EditBooks(s) ==
    /\ \A t \in Slug : books[t] < MaxBooks
    /\ books' = [books EXCEPT ![s] = @ + 1]
    /\ UNCHANGED <<policyVars, realm, plans, previewed, callVars, posts>>

Step(c) ==
    \/ \E e \in Entry, k \in Plan \cup {None}, companies \in Companies :
          Request(c, e, k, companies)
    \/ Resolve(c) \/ RefuseResolve(c)
    \/ \E k \in Plan : Preview(c, k)
    \/ Confirm(c) \/ RefusePlan(c)
    \/ Check(c) \/ Judge(c) \/ Send(c) \/ PostFails(c) \/ PolicyMissing(c) \/ Done(c)

Next ==
    \/ \E c \in Call : Step(c)
    \/ \E k \in Plan : ExpirePlan(k)
    \/ \E s \in Slug : EditBooks(s)
    \/ RestartServer
    \/ PolicyNext /\ UNCHANGED <<realm, books, plans, previewed, callVars, posts>>

Spec == Init /\ [][Next]_vars
-----------------------------------------------------------------------------
\* A journal leaves only when every name of the books it goes to permits it, under a
\* policy that is no older than the check itself: an alias, an override of the defaults
\* or a cached copy never loosens a rule (checkWritePolicy, policyFor, loadPolicyFile).
BooksGuarded ==
    \A c \in Call : pc[c] = "send" =>
        /\ copy[c].gen >= since[c]
        /\ \A t \in Siblings(at[c]) : Allows(RulesOf(copy[c].policy, t), entry[c], TRUE)

\* What a plan posts is what it showed, and at most once in each company, however many
\* confirmations race (create_journal_entry_multi).
PlanPostedOnce ==
    /\ \A k \in Plan, s \in Slug : posts[k][s] <= 1
    /\ \A c \in Call : pc[c] = "send" =>
          manifest[c] = previewed[plan[c]] /\ manifest[c].seen[at[c]] # None
=============================================================================
