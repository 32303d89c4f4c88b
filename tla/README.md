# A TLA+ model of the iyou identity provider

These modules model the protocols of `iyou_idp` (Django, `auth_bridge/`): what
several gunicorn workers, one Redis, a Postgres and a Vault do to each other's
state while users sign in, redeem invites and take their keys home. TLC checks
small instances; TLAPS proves the main properties for every instance. Paths are
relative to the repository.

## 1. The system

`docker-entrypoint.sh` starts four synchronous gunicorn workers. A worker
serves one request at a time and shares nothing with the others but

* **Redis** (`config/settings.py`, `django_redis`; the peer deployment runs it
  without persistence), reached through `auth_bridge/resilient_cache.py`, which
  falls back, call by call, to a `LocMemCache` private to the worker;
* **Postgres**, without `ATOMIC_REQUESTS`: each statement commits by itself
  unless a view opens a transaction;
* **Vault**, which keeps the Ed25519 keys of managed accounts.

| Component | State | Operations | Interacts with | What is hard | What makes it correct |
|---|---|---|---|---|---|
| Resilient cache (`resilient_cache.py`) | Redis, one LocMem per worker | `get`, `set`, `delete`, `claim_unit` | every component below | a call fails, or fails after it was executed; copies diverge, lapse, are culled | a claim is counted or refused |
| Invite quota (`invite_tokens.py`) | a counter per nonce | `verify_invite_token`, `consume_use` | cache, gate | a claim is three calls, interleaved with others and with loss | never beyond the signed budget |
| DID challenge login (`views.py`, `admin_views.py`) | challenge entries, sessions, users | issue, verify (two flows), mobile verify, poll, admin login | cache, gate, OIDC | read, verification and deletion are separate; phone and browser meet through the cache | who is signed in, through which door, how often |
| Graduation (`views_graduation.py`, `vault_client.py`) | account standing, Vault key | export, confirm | Vault, Postgres, OAuth merge | no transaction spans Vault and Postgres; answers get lost | no key lost, none kept |
| OAuth merge (`views_oauth.py`, `pipeline.py`) | users, federated links, OAuth state in the session | initiate, callback, resolve | Postgres, provider | rows saved as read earlier; check and write apart | one account per identity, sovereign accounts untouched |
| Beta gate (`views.py`) | session flags, pending DID, sponsor | gate, redeem, read sponsor | quota, logins | whole sessions saved last-writer-wins | nobody past the gate uninvited |
| OIDC authorization (`views.py`, `oidc.py`, `config/urls.py`) | codes, PKCE entries, consent, disclaimer flag | mint, authorize (GET, POST), acknowledge, exchange | all logins, `django-oidc-provider` | several roads to a code and to a token; PKCE data in a cache | no code for whoever is not signed in, and which roads pass the gate, the disclaimer, the verifier |
| Email OTP and locker (`views.py`, `views_email_locker.py`) | OTP entries, users, linked emails | challenge, verify, link, unlink | cache, SMTP, OAuth merge | one key per address for all users; uniqueness over two tables | nothing linked unproved, and every split of an address accounted for |
| Dependents and revocation (`tokens.py`, `middleware.py`, `credentials.py`) | a registry per worker, a cached ticket, a database row | register, revoke, check, inject claims | OIDC tokens | four copies that disagree; a request looks twice, and a failed look counts as a no | revoked stays revoked, a dependent on record gets no plain token, as long as a look is answered |
| Passkeys (`views_passkeys.py`, `passkeys.py`) | ceremonies, credentials, counters | register, authenticate | cache, gate | counter checked on a row read earlier, ceremony outliving its deletion | a credential is its creator's; a count lets in once |

Not modelled, and why:

* the admin posture (`evaluate_sovereign_admin_posture`): a function of a DID and
  a setting, the constant `Staff`; and what Django's admin site edits, once the form
  modelled in `Airlock` has let somebody in;
* `oauth2_provider.urls`, mounted at `oauth/` (`config/urls.py:45`): a second
  library with authorization, token and client views of its own, which asks neither
  gate nor disclaimer. The repository configures nothing for it, registers no client
  with it and never reads its tables;
* `confirm_password_and_link` (`pipeline.py`): nothing calls it, not even a test. It
  would link an account on its password alone, without asking whether it is sovereign;
* DID formatting and resolution (`apps/core`), claims formatting (`oidc.py`),
  templates and JavaScript, management commands, settings, migrations: no state
  that a protocol reads;
* `docs/ecosystem_shared/auth_pkce.py`: a template for peer sites that the
  provider never runs. As it stands its authorization view reads `params` before
  they are assigned, so it always redirects to its failure page;
* the parsing and the pure checks of an invite (schema, signature, issuer,
  ceiling, tier): they change nothing and only delimit `Tokens`. The ceiling of 4
  for "every other issuer" never applies, because `issuer_may_mint_community_invites`
  repeats the condition of `validate_authorization`;
* `SovereignInfrastructureLease` and the listing and export of linked emails:
  nothing else reads them;
* external: the Rust verification (`src/lib.rs`), fido2, `django-oidc-provider`,
  the OAuth providers, SMTP. What they do to our state is an action marked
  external in `PROJECT.json`.

The hazards - where an interleaving, a loss or a crash can bite, and which
property watches it - are listed line by line in `PROJECT.json`.

## 2. The modules

    ResilientCache            the cache and its failures (shared)
      InviteQuota             consume_use over claim_unit      -> UseBudget
        InviteQuotaProofs
      ChallengeLogin          four login flows over one cache  -> SignInLedger
        ChallengeLoginProofs
      EmailIdentity           mail sign-in, locker and OAuth merge
        EmailIdentityProofs
      Passkeys                ceremonies and counters          -> PasskeyService
        PasskeysProofs
      TokenEndpoint           PKCE gate, dependents            -> DependentAccess
        TokenEndpointProofs
      ResilientCacheProofs    lemmas on the cache, for the last three
    Graduation                Vault, Postgres and the merge    -> KeyCustody
      GraduationProofs
    Airlock                   session, gate, logins and codes  -> AtomicSession
      AirlockProofs

`->` is an abstract specification the module implements. `MC*.tla` give the
constants values, `MC*.cfg` bounds and what to check.

### ResilientCache

`store[b][k]` is what backend `b` (Redis or a worker's LocMem) holds. A Redis
call has one of three outcomes: `ok`, `down` (not executed), `lost` (executed,
the reply never comes); the client raises in the last two.
`CacheGet`, `AfterSet`, `AfterDelete` and `LiveBackend` are `get`, `set`,
`delete` and `_live_backend`; the last is where the code picks the backend of a
claim. `Losses` says which of a Redis restart, a worker restart, culling and a
lapsing TTL may happen. A wrapper call is one step: it touches one Redis and
the LocMem of its own worker, which nobody else sees.

### InviteQuota, UseBudget

`Redeem`, `Probe`, `Add` and `Incr` are the entry to `verify_invite_token` and
the three cache calls of `claim_unit`; between them anything else may run.
`Incr` also makes the verdict of `consume_use`, which changes nothing that is
shared. `seed` and `granted` are history. Tokens are those that passed the
pure checks; they may share a nonce, hence a counter, and have budgets of their
own. `consume_use` keeps a counter at least as long as its seeding token lives
(`MayLapse`); that a TTL is never below 60 s only makes counters live longer
than the model demands.

`UseBudget` is the promise: a token admits as often as its budget allows, and is
refused only once that is spent.

### ChallengeLogin

Every handler is two actions, its cache read (with the checks and the
verification that follow) and the rest: `VerifyRead`/`FinishSignIn`
(`verify_signature`; `op` tells the root flow from the one through Rust, which
deletes before it looks at the account), `PollRead`/`FinishSignIn`
(`check_challenge_status`), `MobileRead`/`FinishMobile`
(`mobile_verify_signature`), `AdminRead`/`FinishAdmin` (`custom_admin_verify`).
What changes nothing between the two is not a step of its own. A request that
is refused before it writes anything is not an action.

`valid` is what the cryptography says of a presentation. The handlers compare
the nonce fields a presentation carries in its proof, outside what the root
flow's signature covers, and the admin flow compares none; so `signed` records
*which presentation was verified with which challenge*, and `SignedLogin` speaks
of that, not of what the holder's signature covers. The emergency bypass is off,
as in production. `logins` counts per worker, because what bounds reuse is a
worker's view of the entry; `copies` counts writes of a challenge and deletions
Redis missed. `Enrolled` are the DIDs that may have an account from an earlier
day, which is what the admin console asks for and the gate does not.

`SignInLedger` is the promise, with no cache in it and no request half served: a
challenge is issued once, a holder signs it, and each sign-in *spends* a copy of it
on behalf of the very holder who signed, through a door that the kind of the
challenge, the gate and the account allow. What the handlers do to the entry is
only how many copies there are.

### Graduation, KeyCustody

`graduate_confirm` is `ConfirmBegin` (checks on the request), `ConfirmVerify`
(public key from Vault, signature), `Promote` (the UPDATE inside the
transaction: invisible and holding the row lock), `Shred` (Vault), `Commit`. A
crash may fall between any two. `graduate_export` is `ExportBegin` and
`ExportSeal`. `MergeRead`/`MergeSave` are the branch of
`process_oauth_identity` that saves an existing account: its `save()` writes
every column as read earlier, and waits for the row lock first (the identity it
then files is in `EmailIdentity`). `mishaps` is history: accounts
whose promotion was cut off once the key was gone, or overwritten by a merge.

`KeyCustody` is the promise: somebody always holds the key, and Vault drops it
only when its holder has it.

### Airlock

Django loads a session row when a request starts and writes it whole when it
ends, so requests of one browser overwrite each other. `rows` are the rows,
`cookie` names a browser's; `Begin` loads, and one `Finish...` action per handler
is the rest: the decision (on what was loaded), the writes to other tables and
the save. `Overwrite` and `Move` are a save under the old key (which raises, and
so ends the request, if the row is gone) and under a new one, whose cookie may
not arrive. `LogIn` is `django.contrib.auth.login`: it keeps the data of an
anonymous session and flushes a signed-in one of another user, or of the same
user after a change of the password hash, which every email login and OAuth merge
causes (`set_unusable_password`). Such a change also ends the user's other
sessions; they go the way of expired ones (`Lapse`).

`signin` stands for every login behind `_gate_response`: root DID, verified
presentation, polled, email, OAuth, passkey. What they prove is the business of
the other modules; `proven` records for whom a request came with a proof. `admin` is
`custom_admin_verify`, and `console` the login form of Django's admin at `/admin/`:
`DIDAuthBackend.authenticate` takes any password for an active DID and the form asks
only whether it is staff, so this request comes without a proof and without the gate;
`named` records it. `SignedInProven` says that this is the only exception, and that
none but staff come of it.

A code is asked for in two ways: `authorize` is `SovereignAuthorizeView.get`,
`consent` the POST that class inherits from the library, which asks neither the gate
nor the disclaimer. `CodesAreEarned` binds the codes of the POST to who is signed in,
and all others to the gate as well. The GET answers as the code does for a client
without consent; where it falls through to the library's form (`prompt=consent`, or
a client that requires consent) it makes at most the same code after the same checks.
`redeem` is `redeem_beta_invite` once the invite was accepted. `code` holds what
the last step minted. Rows that no browser and no request can name are dropped
(`Rows`), or there would be no end of them. Left out: `auth_method`, the next
URLs in the session, disabled accounts, a gate that is switched off, and what the
library's consent form checks of the client.
That an OAuth merge of a stale row may set `show_legal_disclaimer` again is left
out as well: `acked` means "has acknowledged".

`AtomicSession` is how the handlers are written: one cell per browser, no rows, keys
or cookies, and every request one step that reads and writes it (`SignIn`,
`SignStaffIn`, `Authorize`, `Consent`, `Redeem`, ...). `Held` maps to it: the cell of a
browser is what its one request has loaded, if there is one, and else the row its
cookie names. The step is taken when the request ends; its outcome may be lost with the response. A browser
that once overlapped two requests is `torn`: its cell is shown as blank from then on,
and only what it earned - codes, acknowledgments - is still bound by what was proved
and redeemed (`Torn`).

`SponsorOnce` and `AccessKept` speak of browsers whose requests have not
overlapped (`overlaps`): two requests that loaded the same session before either
saved it are both told the sponsor, and one that loaded it before a redemption
writes the access away again.

### EmailIdentity

Whose an address is, statement by statement: every read and every write of
`VerifyEmailView._verify` (`Verify...`), `VerifyLinkEmailView` (`Link...`) and
`process_oauth_identity` (`OAuth...`) is an action, because each commits by
itself and they write three tables that only the code keeps consistent:
`primary` (`User.email`, unique), `linked` (`LinkedEmail`, unique by itself) and
`identity` (`FederatedIdentity`). A code lies in the cache under its address, one
key for all users, and `mail` is history: what each code was mailed for.
`Admits` is the refusal of a sovereign account, `walled` says whose password
counts as usable, which a new account's empty one does for the moment between its
two saves. `Graduate` is the commit of `graduate_confirm`, which may fall between any
two statements of the others. A request past the check carries the `standing` it read,
and its whole-row save (`Save`) puts that back; `own` says that it came from a browser
signed in to the account it merges into, which is asked of sovereign ones only.

`SovereignGuarded` speaks of accounts that graduated while no request had their row in
hand; the others (`overtaken`) are demoted by such a save, which is what
`graduation_merge` shows and `Graduation` studies. What is left is not the guard alone:
an address may come to lead to a sovereign account by another road (the locker, a
sign-in by mail) after a profile was looked up, the account may graduate between the two
lookups, and two merges of one account may race.

An address splits when it is the primary one of one account and linked to
another. `excused` records the two ways that happens: `VerifyEmailView` never
looks into the locker, and two requests may stand between their check and their
write. `SplitsExplained` says that there is no third, and that an address is never
the primary one of two accounts. Left out: labels, the privacy flag, the listing
and the signed credentials; the token of the magic link, which no mail contains;
all providers but one.

### Passkeys

A ceremony is a key of the cache; its challenge is the ceremony itself, so an
attestation or assertion names the one it was made for. `RegisterRead`,
`RegisterCreate` and `AuthenticateRead`, `AuthenticateSave` are the handlers cut
between what they read and what they write, `Destroy` their last cache call.
Authenticators are the environment: `Holds` lets two of them share a credential (a
clone), each counting for itself, and `Silent` ones may report 0. `signed`
assertions may be sent any number of times.

`CountOnce` and `CounterAhead` except the credentials in `excused`: those whose
counter was saved over one the handler had not read (two overlapping sign-ins),
or set to 0. There the promise of `docs/AUTH_FLOW_SPECIFICATION.md` that counters
"reject cloned authenticators" does not hold: the check is made on a row that is
neither locked nor read again.

`PasskeyService` is the promise, with no ceremony, cache or worker in it: a
credential is registered once, as it was created, by the user for whom it was;
each sign-in is by its active owner with what an authenticator signed, and takes the
counter from below to there, or adds the credential to the excused.

### TokenEndpoint

A ticket is kept in the receiving worker's memory (`heard`), in the cache, in the
row (`row`) and in that worker's copy of the credential (`vector`); `Revoked` is
`is_credential_revoked`, which asks all four. `ExchangeBegin`, `RefreshBegin` and
`VisitBegin` are the middleware, `Gate` is `PkceTokenView.post` up to the library,
`Hook` is `custom_id_token_claims` with `inject_dependent_claims`, called inside
the library, `Save` and `Refuse` are the library. `MintInLibrary` is a code of
`SovereignAuthorizeView`, which has no PKCE entry (`gone` from the start), and an
exchange whose `view` is `library` is one sent to `openid/token` without the last
slash: `config/urls.py` has `PkceTokenView` at `openid/token/` only, and the library's
own pattern takes both. `GateHolds` is about `PkceTokenView`; whether the library
compares the verifier is left open. `Verdict` keeps the order of the
checks of `validate_age_bracket_vc` and abstracts structure, personal data and
signature into `sound`.

A database lookup may fail by itself, in the middleware and in the hook, while those
before and after it work. `is_credential_revoked`, `get_dependent_vector_for_did` and
the middleware all take the error for a no, so the request goes on; a page is then
served, since nothing looks at it again. `missed` in a request is history: the looks -
on arrival, in the hook - that failed and would have found something. `noted` is
history too: what the row said when the request came in. `RevocationHolds` and
`DependentsMarked` speak of what was on record then, because a ticket that arrives while
a request is served may come too late. They say what a failed look can cost and what it
cannot: a worker that heard of the ticket turns sessions away without the database, and
one that registered the dependent marks her tokens.

"A dependent gets no plain token" is less than "a dependent never passes for an adult":
`inject_dependent_claims` prefers a credential that the session or the request itself
brings to the registered one, so what the token says of her is what that credential says
(`about`), as long as it is valid; `token_subject` shows that not even its subject's
revocation counts.

`update_or_create` is one step. `dep.revoked` in a session or token is
left out: no code path sets it. `register_dependent_vector` and
`record_revocation_ticket` have no URL; they are called as a library.

`DependentAccess` is the promise: one record instead of four places, looked at when a
request comes in and again when a token is granted. Nobody revoked at a look that is
answered gets past it, and a dependent's token is marked as one; a look that is not
answered lets the request through. A request that came in over a revocation because its
code was spent already is one that is not being served (`Promised`): it must end in a
refusal.

## 3. The runs

| Run | Question | Bounds |
|---|---|---|
| `invite_quota` | Does a counter keep its budget under every failure? | 2 workers, 2 tokens under one nonce with budgets 1 of 1 and 2 of 3, all failures |
| `invite_exact` | Is a claim one atomic decision when Redis answers? | 3 workers, 2 tokens with a nonce each, budgets 2 and 1 |
| `challenge_login` | Who is signed in, where, how often? | 2 workers, 1 challenge, 3 DIDs (staff, with or without an account; disabled; gated), an invited and an uninvited tab, all failures |
| `challenge_single_use` | (violation) Is a challenge single-use? | nothing fails |
| `graduation` | Are keys neither lost nor kept, and is every request answered? | 3 workers, 2 custodial accounts, all faults |
| `graduation_merge` | (violation) Does a merge respect a sovereign account? | nothing fails |
| `airlock` | Who is signed in, who gets a code, what becomes of redeemed access? | 1 browser, 2 workers, 3 keys, an admitted user and a stopped one who is staff, `MaxOverlap = 2` |
| `email_identity` | Which account does an address lead to, and what was proved for it? | 2 workers, 2 addresses, 4 accounts (one that can graduate; one with a password; two to come), 1 OAuth profile, 2 codes; Redis may be away, entries lapse, workers die |
| `email_split` | (violation) Does an address lead to one account? | the same, 1 worker, nothing fails |
| `passkeys` | Whose is a credential, and what does its counter keep out? | 2 workers, 2 ceremonies, 2 users (one disabled), 1 credential on 2 authenticators, one of them silent, `MaxCount = 3`; all failures but culling |
| `tokens` | Who is served after a ticket, with which token, past which verifier? | 2 workers, 1 dependent, 1 code; any lookup fails, Redis and workers restart, LocMem culls |
| `token_subject` | (violation) Is a credential's subject checked for revocation? | 2 dependents, nothing fails |

Why the bounds are enough to be interesting: two workers already interleave any
pair of handlers and a third can overtake both (`graduation` and `invite_exact`
have three); a budget of one is exhausted by a second claim and a budget of two
is not; `MaxCount = 3` lets a counter pass the narrow budget, and no new claim
starts on a counter that reached it; `MaxCopies = 3` lets a challenge be
written, solved, and missed by a deletion, and no new request starts on a
challenge stored that often. Challenges do not interact except through the
session they open, which a run with one challenge still overwrites. In `airlock`
three keys are enough: a cookie changes only when a request ends, so with two requests
under way it names the session of the later one or none, and beside the two there is a
fresh key for whichever moves; browsers share nothing but the disclaimer flag, so a second one would
only add what the proofs cover anyway, that it leaves the first one's session alone
included; `MaxOverlap` is how often a browser starts
a request beside another, and a long history of single requests is unbounded.
Symmetry is used over workers, session keys, ceremonies, mail codes and accounts to
come, all of which the models and the properties treat alike; the temporal properties
checked with it are boxed step properties and refinements without fairness.

In `email_identity` two codes are enough for two users to overwrite each other's
challenge, and two accounts may still be created for two addresses; the account
that can graduate has no address at first and gains one through the locker, before or
after it graduates. One profile cannot give an account two identities: that `get()`
then finds several (`Sole`) is left to the proof. In
`passkeys` a count of 3 leaves room for registration, a clone that falls behind
and one that overtakes. In `tokens` single calls of Redis do
not fail and entries do not lapse by themselves; that is left to the proofs, which cover
every failure. A restart of Redis forgets the entries that a missed call would not have
written, so each of the lookups finds nothing in some behaviour; what does not occur there
is a worker that reads its LocMem (culling is then without effect), and an entry that stays
because Redis missed its deletion. A second
dependent or code shares nothing with the first but the credential she presents,
which `token_subject` has.

`CHECK_DEADLOCK FALSE` stands where the system may stop: when every token has
expired, or every challenge reached its bound and nothing may be lost.

**Liveness.** Only `graduation` makes requests wait for each other, so only it
states fairness. `FairSpec` is weakly fair to the steps a handler takes by itself -
Vault's answer comes or the hvac client's 30 s timeout raises, and Postgres answers -
and strongly fair to the two that queue for a row lock (`Promote`, `MergeSave`),
because Postgres grants a lock to its waiters in order. Nothing is assumed of users
and faults. `EveryRequestEnds` then says that no confirmation or merge waits for
ever. Everywhere else nothing retries by itself and a user may always walk away, so
there is nothing that must eventually happen.

### Where code and documents disagree

Each violation run contradicts a sentence of the repository (quoted in
`PROJECT.json`):

* `SingleUse`: challenges are documented as single-use; two requests that both
  read one before either deletes it both sign in.
* `SovereignPreserved`: the merge is documented to preserve sovereign
  identities; it can write an earlier read of the row back over a promotion.
* `OneAccountPerAddress`: an address bound to one DID "cannot be claimed" by
  another; a sign-in by mail opens a second account for a linked address.
* `SubjectChecked`: a credential is to be validated against revocation; the
  validation swallows its own refusal of a revoked subject.

Seen in the same way, but given no run of its own:

* a claim made while Redis is away is counted in the worker's own LocMem, though
  `resilient_cache.py` says it fails closed;
* a deletion Vault performed but whose answer is lost leaves a managed account without
  a key (the `mishaps` of `Graduation`);
* four logins mint a code before the legal disclaimer is acknowledged;
* the POST of the authorize view makes codes past the airlock and the disclaimer, which
  the comment at `config/urls.py:39-41` says cannot be bypassed (`FinishConsent`);
* `/admin/` signs staff in on any password, though access there is "not legacy
  relational database passwords" (`docs/IDP_DEVELOPER_GUIDE.md:979-980`; `console` in
  `Airlock`);
* the token URL without its last slash reaches the library without the gate that is to
  "enforce PKCE" (`config/urls.py:36`; `view` in `ExchangeBegin`);
* a revocation lookup that fails counts as a no, though `middleware.py:39-40` promises to
  reject revoked dependents (`missed` in `TokenEndpoint`);
* the 300 seconds meant for the OAuth state stay on the whole session.

What holds instead is stated as a property and proved: `EveryAdmissionCounted`
and `BudgetPerCounter` per backend, `ReuseBound`, `AtomicBarringMishaps`,
`CodesAreEarned`, `SplitsExplained`, `RevocationHolds`. And what it would take for
three of the four to hold is proved as well: `OneWorkerUsesOnce`,
`OnlyStaleMergesDemote`, `SplitsHaveTwoCauses`.

## 4. The proofs

All for any values of the constants that satisfy the named assumptions
(`CacheAssumption`, `InviteAssumption`, `LoginAssumption`,
`GraduationAssumption`, `AirlockAssumption`, `EmailAssumption`,
`PasskeyAssumption`, `TokenAssumption`), which TLC evaluates in every run.

* **InviteQuotaProofs.** `TypeCorrect`; then one inductive invariant over it
  relates `store`, `seed` and `granted`: a present counter is at least its seed
  plus what it granted, and what was granted fits a budget of that nonce. The
  second conjunct is kept for lost counters as well, because a claim that had
  begun earlier can still meet a fresh counter. `AdmissionsAreCounted`,
  `BudgetHolds`, `CountersAdvance` follow. `ClaimsAreExact` assumes that Redis
  answers, nothing is lost and no two tokens share a nonce (`Reliable`): then
  every claim is pinned to Redis and finds at `Incr` the counter its `Add` left
  or found (`PinInv`), so each step maps to a step of `UseBudget` or to none, the
  decision being made at `Incr`.
* **ChallengeLoginProofs.** `SessionsAreSigned` (`OriginInv`) and
  `KindsStaySeparate` (`KindInv`) strengthen their property to all copies of an
  entry and all requests in flight: a solved copy anywhere names a DID that had
  a presentation verified for that challenge, and an entry is of the kind its
  challenge was issued for. `ReuseIsBounded` rests on `ReuseInv`: as long as a
  worker can read a copy or serves a request on the challenge, it has granted
  strictly fewer sign-ins than `copies`. `SignInsKeepTheLedger` combines the three:
  the last step of a handler (`FinishLedger`) has in its request a holder who signed
  (`OriginInv`), a challenge of the right kind (`KindInv`) and a copy left to spend
  (`ReuseInv`), which are the guards of `SignIn`; everything else copies or stutters.
  `OneWorkerUsesOnce` says what the refuted `SingleUse` needs: a single worker, and no
  deletion that misses Redis. Then, once the challenge was used, no copy of it is left
  that anybody could read (`UsedUp`).
* **GraduationProofs.** `KeysAreHandedOver` (`CustodyInv`): a confirmation past
  its verification proves its account's key is home. `KeysAreShreddedFirst` and
  `GraduationIsAtomic` (`GoneInv`): a request about to commit has its key out of
  Vault and is the only one with the row lock; an unharmed account has a key in
  Vault until a request is about to commit or it is sovereign.
  `OnlyStaleMergesDemote` says what the refuted `SovereignPreserved` needs: that no
  promotion commits while a merge has a copy of the row in hand (`NoCopyOutdated`, what
  `SELECT ... FOR UPDATE` in `pipeline.py` would give). Then merges have the rows as
  they are (`CopyInv`) and nothing is demoted, whatever fails; a single worker cannot
  do otherwise (`OneWorkerDemotesNobody`).

* **AirlockProofs.** Every handler has one shape (`Turn`): it writes one session
  derived from the one it loaded, or none; `StepShape` shows it for each, and the
  invariants are proved once for `Turn`. `KeyInv`: a session key belongs to one
  browser, across cookies and requests. `OwnInv`: what a browser's row or request
  says - user, parked DID, access - was proved, named by staff at the admin's form,
  or redeemed through that browser;
  `SignedInProvenAlways` and `CodesAreEarnedAlways` follow for any interleaving.
  `SerialInv`: the only request of a browser that never overlapped two still
  has the session it loaded; `SponsorOnceAlways` and `AccessIsKept` follow.
  `SessionsAreAtomic` is the refinement of `AtomicSession`: a handler's last step
  turns what its request loaded into a new row, the same row or none, which is what
  the cell `Becomes` (`SavedBecomes`, `EntersBecomes`), while the cells of all other
  browsers stay (`OthersHeld`), because no two browsers share a key (`KeyInv`) and
  the row of a browser that is being served is the one its request loaded
  (`SerialInv`, `FitInv`). There is one lemma per handler, with one case for a browser
  that is whole (`WholeStep`) and one for a torn one (`TornStep`).

* **EmailIdentityProofs.** `EveryLinkIsProven` (`LinkInv`): a cached code lies
  under the key it was mailed for, and a request past `LinkRead` carries an address
  and a user some code was mailed for. `SplitsAreExplained` (`SplitInv`): an address
  that is not excused has at most one request about to claim it, and that one has
  found it free in both tables; without it the unique columns alone do not carry the
  argument. `SplitsHaveTwoCauses` does without the history variable: if a sign-in by
  mail never misses a linked address and no two requests are about to claim one
  address, the refuted `OneAccountPerAddress` holds, so a look into the locker and a
  reservation would be enough. `SovereignsAreGuarded` (`GuardInv`): a request that has
  the row of an account in hand which graduated in between is on record in `overtaken`,
  so for any other sovereign account it read a sovereign row, and was admitted as its
  own. `SignInsAreOnFile` needs no strengthening: a request comes to its login with an
  identity on file, and nothing removes one.
* **PasskeysProofs.** `PasskeysAreOwn` (`OwnInv`): an entry anywhere in the cache is
  the one its ceremony began with, and a request about to create a row carries what
  was attested in its user's ceremony. `CountsLetInOnce` and `CounterStaysAhead`
  (`CountInv`): barring the excused, the stored counter is at least every accepted
  count, and a request about to save has passed the check against the counter it
  saw. `SavesRows`, in `Typed`, says that the row it is about to save to is there.
  `PasskeysAreServed` maps `RegisterCreate` and `AuthenticateSave` to the two steps of
  `PasskeyService` that matter, `Create` and `Sign` to those of its environment, and
  the rest to nothing; it needs that a request still carries what was made and signed.
* **TokenEndpointProofs.** `RevocationIsFinal` (`RecordInv`): a request that came in
  over a revoked row got past the middleware only because its lookup is in `missed` or
  because it is `Hopeless`: its code is spent and does not come back, so the library
  cannot serve it. `DependentsAreMarked` (`KnownInv`): a row never goes away again, so
  a dependent known to the middleware is one to a hook whose lookup is answered.
  `TheGateHolds` (`GateInv`): a code that was minted has its entry in Redis unless it
  is `gone`. `AccessFollowsTheRecord` puts the first two together: the middleware's step
  is `Come`, the hook's is `Grant`, `Save` is `Issue`, and a hopeless request never gets
  to either.
* **ResilientCacheProofs** has the lemmas on `AfterSet`, `AfterDelete` and the losses
  the three rest on: what they return is typed, and differs from what was there in
  one key only, by the value written or `Absent`.

Only model-checked: `EveryRequestEnds`, since liveness under fairness is out of the
prover's reach; every other property of a passing run is proved. Only refuted: the
four above. No module uses recursion.

## 5. Plan

1. For `EmailIdentity` a promise like those of the other modules: accounts, addresses
   and identities as one book in which a primary address never moves and an identity
   on file stays; and for `ResilientCache` the conditions under which it is one map.
2. What follows from the promises alone, without the modules that keep them: that a
   browser's codes are earned in `AtomicSession`, and that no more sign-ins than copies
   are in `SignInLedger`.
3. The check of the OAuth state and the back-channel exchange with the provider, as
   one more ceremony beside `Airlock`.
4. The consent form and the PKCE check of `django-oidc-provider`, to state end to
   end that a code is exchanged once and only with its verifier.
5. `Airlock` with `EmailIdentity`: the account an address resolves to and the session
   it opens in one specification, with `auth_method`, which a redemption sets to
   `did:websocket` for every parked login.
