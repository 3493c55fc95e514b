# Verification of nest-auth

TLA+ models of `@bymax-one/nest-auth`, the TLC runs that model-check them on
small instances, and TLAPS proofs that carry every safety property of those runs
to every instance. Source paths below are relative to the repository
root (`src/server/...` is the NestJS library, `src/client`, `src/react` and
`src/nextjs` its consumers).

## 1. The system

nest-auth is a library: a NestJS module whose services keep all shared state in
one Redis and in the host's user repository, and whose HTTP clients live in
browsers. There is no process-wide lock and no worker; the unit of concurrency
is the *request handler*. Between two `await`s a handler runs alone in its
process, and other handlers, in this process or another replica, run in between.
A Lua script is one atomic step of Redis; the repository reads or writes one
account at a time and has no transactions. Two *identity planes*, dashboard and
platform, use the same code over disjoint key prefixes.

| component | state it keeps | operations | hard behaviour | modelled in |
|---|---|---|---|---|
| refresh keyspace (`redis/auth-redis.service.ts`) | `rt: rp: cf: fam: sess: ep:` and their `p*` twins | CREATE, ROTATE, RECOVER_GRACE, REVOKE_FAMILY, sweep, prunes, epoch bump | scripts of different handlers interleave; six key types with six times to live | `RefreshStore` |
| token rotation (`services/token-manager.service.ts`) | records in flight in each handler | issue, reissue on both planes | grace window, reuse detection, absolute cap, stale records | `TokenRotation` |
| sessions (`services/session.service.ts`) | `sd:` details next to the keyspace | create, revoke one, revoke others, rotate detail, limit and eviction | acting on a listing that is stale when used | `SessionManagement` |
| sign-out (`auth.service.ts`, `platform-auth.service.ts`, `utils/pending-logout.ts`) | blacklist `rv:`, pending marker `lp:` | logout and its retry | partial failure of a list of writes | `Logout` |
| MFA (`services/mfa.service.ts`) | the account's record, `mfa_setup:`, two locks, claims, replay marks, counters | set-up, enable, challenge, disable, reset, regenerate, re-encrypt | read-modify-write of one record under a lock that expires | `MfaRecord` |
| sign-in, lockout, passwords (`auth.service.ts`, `brute-force.service.ts`, `password.service.ts`) | the account, `lf:`, queued rehashes | login, register, unlock, detached rehash | check before, count after; a write based on an old read | `Credentials`, `Onboarding` |
| password reset and change, codes, e-mail change | `pw_reset: pw_vtok: otp: resend: ec:` | request, verify, redeem, supersede | one-time use under concurrency; a proof that is stale when used | `Credentials` |
| invitations (`invitation.service.ts`), OAuth (`oauth.service.ts`) | `inv:`, the invitee index, `os:` | invite, supersede, revoke, accept; initiate, callback | two keys with no transaction; an account created twice | `Onboarding` |
| account status (`account-status.service.ts`) | `us: uev:` | read through, invalidate | a stale value refilled after the invalidation | `Credentials` |
| WebSocket tickets, revocation checks | `wst: rv:` | issue, redeem; blacklist, check | times to live rounded to seconds against a clock | `Tickets` |
| API keys (`api-key*.service.ts`) | rows of the host | issue, rotate, revoke, verify | two writes, either of which fails; a row judged after it was read | `ApiKeys` |
| cookies (`token-delivery.service.ts`, `config/resolved-options.ts`) | the browser's jar | plant, clear | attributes a browser silently refuses | `Deployment` |
| browser clients (`createAuthFetch`, `AuthProvider`) | one refresh promise, a generation counter | fetch with retry, revalidate, login, logout | an answer that arrives after the state it was asked for has gone | `AuthClient` |
| Next.js proxy and handlers | a counter and a reason in the URL | guard a page, refresh silently, sign out | redirects that never end | `Navigation` |

Interactions: `AuthService.refresh` calls the token manager, which calls the
keyspace; `SessionService.rotateSession` runs detached after a refresh; password
reset, password change, MFA enable/disable/reset and `revokeAllSessions` all end
with *sweep, then bump*; the guards, the tickets and the client compare an
access token's epoch stamp with `ep:`. Redis and the repository are the only
channels between handlers; the cookie jar is the only one between tabs.

What makes the system correct, in a sentence each:

- a session that is alive can always be found by whoever must end it (the
  user's index, the lineage's family set);
- what a revocation ended stays ended, whatever was in flight;
- a token is exchanged once, and recovered at most once;
- a successor session never has more than its predecessor (owner, lineage,
  second factor, absolute age);
- when a revocation has returned, the access tokens it covered are refused;
- a logout that failed is finished, and announced, by its retry;
- a code, link, ticket, invitation or second factor is accepted once, and
  guesses at one are bounded;
- what proves the knowledge of a password ends with that password;
- the account's record moves as a series of whole transitions;
- a tab shows what its last completed sign-in or sign-out left, and every page
  load ends on a page.

The hazards this list is aimed at are in `PROJECT.json`, each at its line.

## 2. Modules and how they correspond to the code

| module | models | composed with |
|---|---|---|
| `RefreshStore` | the refresh keys of one plane: one action per Lua script, sweep, prune and expiry | |
| `TokenRotation` | `TokenManagerService` and the two revocations, one action per stretch between awaits | extends `RefreshStore` |
| `SessionLedger` | abstract: what the token manager promises, over tokens and sessions only | |
| `TokenLedger` | the refinement mapping from `TokenRotation` to `SessionLedger` | extends `TokenRotation`, instantiates `SessionLedger` |
| `SessionManagement` | `SessionService`: details, the limit and its evictions, revoking the other devices, the detached detail rotation | extends `RefreshStore` |
| `Logout` | the sign-out of both planes: list of writes, pending marker, hook, retry | extends `RefreshStore` |
| `MfaLedger` | abstract: what a second factor promises its owner | |
| `MfaRecord` | `MfaService` for one account, both planes, and its refinement of `MfaLedger` | instantiates `MfaLedger` |
| `AccountStore` | the repository and keys the account services share, their expiry, the handlers and their history | |
| `Credentials` | login, lockout, rehash, codes, resets, password and e-mail change, status cache | extends `AccountStore` |
| `Onboarding` | registration, invitations, OAuth | extends `Credentials` |
| `Tickets` | an access token against a clock: revocation checks, blacklist write, socket tickets | extends `AccountStore` |
| `ApiKeys` | issue, rotate, revoke and verify service keys | extends `Tickets` |
| `Accounts` | the four together, and their properties | extends `Onboarding`, `ApiKeys` |
| `Deployment` | the cookie options that are accepted, the Set-Cookie lines that follow, the browser's rules | |
| `Browser` | one jar, the server as requests see it, what happens to the account elsewhere | extends `Deployment` |
| `AuthClient` | tabs: the React provider over `createAuthFetch` | extends `Browser` |
| `Navigation` | page loads through the proxy and the silent-refresh handler | extends `Browser` |
| `BrowserSession` | tabs and page loads over one jar, and their properties | extends `AuthClient`, `Navigation` |
| `RotationClaims`, `SessionClaims`, `AccountClaims`, `BrowserClaims` | statements found in comments that the code does not keep | extend the module they are about |
| `RefreshStore_proofs` | lemmas on the keys and on the writes the components of `RefreshStore` share | extends `RefreshStore` |
| `TokenRotation_proofs`, `SessionManagement_proofs`, `Logout_proofs`, `MfaRecord_proofs`, `BrowserSession_proofs` | theorems (section 5) | extend the module they are about (`TokenRotation_proofs` through `TokenLedger`) |
| `AccountSteps_proofs`, `Accounts_proofs` | the inductive invariant of `Accounts` and what its steps do; the theorems that follow | extend `Accounts` |
| `MC*` | model values, workloads, symmetry | |

`PROJECT.json` maps every definition to its lines. In general:

- **A key is a function.** `live`, `grace`, `consumed`, `family`, `index`, `epoch`
  are `rt:`, `rp:`, `cf:`, `fam:`, `sess:`, `ep:` (or their platform twins,
  `p...`); `detail` is `sd:`, `marker` is `lp:`, `blacklist` is `rv:`. The
  account modules gather theirs in one record, `redis`. An absent key is `None`
  (or zero, or a null record), an absent Redis set is `{}`.
- **A Lua script is one action**, a plain command or one call of the repository
  one action, and the TypeScript between two awaits belongs to the action of the
  command before it. What a handler carries across an await (the record it read,
  a listing, a remaining life) is a field of its record and may be stale when
  used; this is where the interesting interleavings come from.
- **A handler that dies** simply takes no further step, or returns to `idle`
  through `Abandon`; the store keeps what was written.
- **A refresh token** is its SHA-256 hash, a member of `Hashes`. `Fresh` is a
  hash no record was ever minted with, which is what a 256-bit random token is.
  In the account modules a handler draws at most one random value and the value
  is named by the handler's number.
- **A session record** keeps its owner, lineage and second-factor bit. A member
  of `Users` stands for a (tenant, user id) pair, since every key is derived
  from both. Role, device and address are inherited by the same expression as
  the owner and are left out.
- **Clocks** are abstracted to what the code compares. A time to live is an
  expiry action, guarded by the order the code's own EXPIRE arguments force:
  every script that writes a live record re-arms the index and the family set
  for as long, so a set never expires before a key it names. The absolute
  session lifetime is the set `aged` of lineages that have outlived it. Where
  the arithmetic itself is at stake there is a clock: TOTP steps in
  `MfaRecord`, half seconds in `Tickets`.
- **A mix** (`mix`, chosen once in `Init`) is one deployment and one workload
  with its bounds: which requests arrive, which keys may expire, whether
  commands fail. One run explores all its mixes; every behaviour stays in one.

Variables and fields marked *history* exist for the properties only and guard no
action, with these exceptions: `minted` makes new tokens new, `named` and
`succeeded` tell a retrying client of `Logout` what it was answered, and the
mailboxes `seen.mailed` say what a client can present.

### TokenRotation

`login`: `LoginReadEpoch`, `LoginCreate`. `refresh`: `RefreshSeed` (the read of
`rt:old`, the lifetime check) then one of the four answers of ROTATE
(`RefreshRotated`, `RefreshGraced`, `RefreshReused`, `RefreshInvalid`); the grace
path goes on with `RefreshCheckFamily` and `RefreshRecover`, the platform plane
with `PlatformPruneSpent`, both with `RefreshSign`; reuse goes on with
`ReuseReadFamily`, `ReuseResolveOwner`, `ReuseRevoke`. `RevokeAllSweep` or
`RevokeOther` and then `RevokeBump` are the revocations. A client may present
any token ever handed out, at any time, to any number of handlers.

### SessionLedger

The abstract specification: a token is issued once, stands for a session, is
exchanged once, and its exchange is repeated once at most, never after its
account was signed out everywhere (and has not signed in since) or its lineage
was ended; ending a lineage takes a replayed token and ends exactly the
sessions of that lineage; signing out everywhere ends exactly those of the
account. Each is one step. `TokenLedger` maps `holds` to `live`, and reads what
was exchanged or recovered off `minted`.

### SessionManagement

A sign-in is nine commands deep when it evicts; the model has one action for
each of them, with the listing and the ages it read as handler state. Seed read
and cap check of a refresh are folded into its ROTATE (the record of a live hash
never changes, and `TokenRotation` has them apart). A detail record is its
`createdAt`.

### Logout

One action per command, each with three outcomes: done, refused, or done with
the answer lost. `Writes` is the list handed to `settleWrites`, `Skipped` is
`settleAfter`, `Decide` is what `logout` does once all writes were attempted.
`plane` is chosen initially: the platform's `logout` shares the marker protocol
and has more writes.

### MfaRecord

`rec` is the one record the repository keeps of the account's factor, `redis`
the keys around it, `req` the handlers. Every flow that changes the record goes
through `transitionMfaRecord`: take the lock (on the dashboard two, the scoped
key and the one an older release used), read, decide, write the whole record,
release. A lock expires whether its holder is done or not; `Overrun` says a
handler's did. `jobs` are the detached re-encryptions. What the model shows
beyond its properties:

- Either lock of a pair may lapse. Two handlers that both stall can each lose a
  different one, so losing one is enough to be followed (`LockHeldAlone`
  says so); the code's ten seconds are its only defence.
- `RecordIsLedger` excepts, by name, a write by a handler that had lost its
  locks (`late`) and a set-up enabled after another replaced it (`crossed`:
  `verifyAndEnable` enables what it read, and its GETDEL may take another one).
- A recovery code completes one sign-in, unless its claim ran out under a
  challenge in flight (`outlived`).
- Two concurrent submissions of one TOTP code can both be refused, each having
  won one of the two replay marks. Safe; the owner waits for the next code.
- A disable is a write, a sweep and a bump; the sweep and bump are those of
  `TokenRotation` and are left out here. A sign-in that read the account before
  the factor was enabled may write its session after that sweep, as in
  `Accounts` (section 7).

### Accounts

`users` is the repository, `redis` the keys, `grants` the sessions and access
tokens issued (their own rotation is `TokenRotation`'s subject), `req` the
handlers with their flow and program counter, `seen` the history. Assumptions:
the host's unique index on the address, which
`interfaces/user-repository.interface.ts` asks for; a sweep is one step here,
because `RefreshStore` shows it to be one script. Worth knowing:

- A sign-in that compared the old password before a reset wrote the new one may
  write its session after the reset's sweep (`ResetEndsSessions` speaks of what
  was issued before the write).
- An account without a password has the empty fingerprint, and all its links
  share it: `StaleProofRefused` speaks of links bound to a password.
- Several links of one password are out at once: the first completed reset ends
  those presented afterwards. One already past its check when the other writes
  still writes.
- The rank rule of invitations is best effort while a record is being written.

`Tickets` follows one access token, the owner's first, stamped with epoch zero.
The clock counts half seconds and keys live in whole ones, so every rounding
shows. Time does not pass a second between the measurement of a ticket's life
and its write, the margin the code itself holds back. The blacklist entry lapses
exactly with its token, and a token's expiry is checked before the entry is
read: a signed-out token, or a ticket of it, presented in its last instant is
let through (`RevokedRefused` excepts it by name; it is a hazard in the list).

`ApiKeys` has the host's rows. A rotation reads, issues the successor, retires
the old key (at once or after an overlap), and hands over the plaintext; the
guard reads a row, judges it by the clock after the read, and writes its audit
record. A rotation that read the key as active issues its successor even if the
key was revoked meanwhile, and of two concurrent rotations the later may extend
what the earlier retired; `RevokedRefused` excepts an expiry a rotation under
way may still move. Commands that fail are refused; a *lost answer* of
`markRevoked` at overlap zero, which would leave the old key revoked and the new
plaintext unreturned though `rotate`'s documentation says a failure leaves both
keys valid, is not in the model.

### Browser

A sign-in or refresh issues the next number; the jar holds, for each of the
three cookies, the number it was planted with. `Deployment` decides which
Set-Cookie lines a browser takes, which cookies a route is sent, which lines
delete what. Secure cookies are taken to be served over HTTPS and others not.
Server operations are one step each (their interleavings are the subject of
`TokenRotation` and `Logout`). `AuthClient` has the interception of a 401, the
shared refresh slot with its three failures, the retry, and the provider's
generation; `Navigation` the proxy's decisions and the silent-refresh
handler. `onSessionExpired` only notifies. The application's own handlers are
assumed to be told the API's cookie names, the default dashboard to admit its
user's role, and the account's address to be verified.

## 3. Runs

| run | properties | what it shows |
|---|---|---|
| `rotation_dashboard` | `TypeOK` `LiveIndexed` `GraceIndexed` `LiveInFamily` `RevokedFamilyStaysDead` `SweptUserStaysOut` `NoSessionPastCap` `KilledTokensRefused` | two handlers, three generations of tokens, two lineages, expiry and prunes: indexes complete, revocations final |
| `rotation_platform` | `ExchangedOnce` `LineageInherited` `LedgerKept` | the platform plane, four generations, markers and family sets expiring: one exchange and one recovery per token, and the whole protocol is `SessionLedger` seen from outside |
| `sessions` | `TypeOK` `LiveIndexed` `OwnSessionKept` `ListedSessionsEnded` `LimitHolds` | evictions, refreshes, recoveries and revoke-others over stale listings, with commands that fail |
| `logout` | `TypeOK` `LiveIndexed` `SignedOutForGood` `AnnouncedOnce` `EventuallyAnnounced` | attempts of one logout beside each other and beside refreshes, commands refused or their answers lost; and one client that retries |
| `mfa` | `TypeOK` `LockHeldAlone` `OpensOnce` `GuessesBounded` `RecordIsLedger` | every MFA flow, two at a time, while locks, claims, set-ups, tokens and counters expire: the record moves as `MfaLedger` says, nothing is accepted twice |
| `accounts` | `TypeOK` `ProofsSpentOnce` `LockoutBounds` `StaleProofRefused` `ResetEndsSessions` `SupersededStaysDead` `CacheFollows` `RevokedRefused` `KeyInHand` | the account flows, tickets and API keys in eighteen mixes |
| `browser` | `TypeOK` `NotOverwritten` `EndedForReal` `NavigationEnds` `CookiesFollow` | tabs and page loads over one jar in eight workloads, and one sign-in or sign-out of every accepted deployment |
| `claim_swept`, `claim_otherdevices`, `claim_rehash`, `claim_invitation`, `claim_cleared` | one each | a comment says more than the code does; see section 6 |

Every property has mutants in `PROJECT.json`: a one-definition change of the
model, of the kind a refactoring could make, that the run refutes. The mutated
definitions stand next to the real ones, marked *Mutant*.

### Bounds, and why they are enough

- **Two handlers.** Each property relates one handler to one other that
  interferes. The third generation of interference (an abandoned handler's
  leftovers) needs no third handler, since handlers go idle and start again.
- **Three or four hashes** are three or four generations: sign-in, exchange,
  recovery, and one more exchange. Reuse needs a token replayed after its
  successor exists, recovery two successors of one token; both fit in three.
- **One account** (`Users`), because no command of a handler of one account
  touches another's keys; the theorems hold for any number of accounts.
- **Two or three lineages** where a sign-in beside another matters.
- `Lapses`: which expiries and prunes a run explores. The two rotation runs
  split them: session, pointer, index and listing prunes in one, pointer,
  marker and family set in the other.
- `Verified = {TRUE}` (sign-ins that completed a second factor), the value that
  can be lost; `FALSE` is covered by the sessions of an older release that may
  exist initially, and by the theorem.
- `MaxEpoch = 1`: revocations stop once one has completed; two may overlap.
- `Limit = 2` with three sessions is the smallest limit with a choice of whom
  to evict.
- **Logout**: `handlers`, `begun`, `failures` of a mix. Two overlapping attempts
  with two failing commands; the same beside refreshes, or with a third attempt,
  with one; and five attempts of one client through four failures, so that the
  marker's write, its removal and the read back can all fail in one history.
  `Refusable` is every command; `Losable` are those whose lost answer makes a
  difference (`live`, `settle`).
- **MFA**: `starts` is two or three handlers begun per mix. Two secrets, three
  codes with lists of one: a list, its replacement and a code of neither. One
  TOTP code over a clock of three instants: before, at and after its step, with
  a window of one. `MaxAttempts = 1` is the smallest limit; the excess of
  concurrent handlers shows at any.
- **Accounts**: `starts` is three or four handlers. A reset takes one to ask and
  one to redeem, and the third or fourth interferes before, between or after; a
  proof in hand at the start does not exist, so nothing is skipped. One address
  is the owner's, one the administrator's, one vacant; two passwords; one slot
  for a new account. `TokenLife = 2` and `TicketTtl = 1` second on half-second
  ticks have every combination of rounding up and down, and the clock runs past
  the token's life; for keys two ticks are an overlap's start and end.
- **Browser**: `calls`, `navs` and `events` of a mix, and `MaxNumber = 5`
  sessions issued, more than any mix of three calls consumes with one retry
  each. `MaxAttempts = 2` for the proxy's counter, so that it can be seen
  between its limits. The product of the deployments leaves `secureCookies`
  to follow the environment.

Where the system may stop on its own account, deadlock is not checked (the two
rotation runs, `sessions`, `logout`, whose models end when their tokens are used
up; `browser`, where nobody has to act). In `mfa` and `accounts` it is: `Rest`
is enabled only at the bounds with nothing in flight, so no handler can hang.

## 4. Fairness

Only two models assume any. In `Logout`, `FairSpec` has weak fairness on the
steps of a handler that has begun (Node runs a ready continuation, and each
Redis call ends with an answer or an error) and on `Retry`, the client that
sends its logout again after an error: the code's own documentation makes the
retry the client's part. That the store stops failing is the bound
`mix.failures`, not a fairness assumption. In `BrowserSession`, `FairSpec` has
weak fairness on the steps of a page load in progress: the browser follows a
redirect and the server answers, if only with a fault. No call, event or page
load has to happen. `NavigationEnds` needs the guard on `reason`: with the
counter alone, a login page with cookies nobody can delete and the
silent-refresh handler send the browser to each other for ever (each redirect to
the login page starts the count again). That the counter is needed too shows in `TypeOK`, which bounds it: in
a loop of refreshes that all succeed the model runs out of session numbers
(`MaxNumber`) and ends the load itself.

## 5. Proofs

TLAPS checks the following for every value of the constants: any sets of users,
lineages, tokens, secrets, codes, passwords, addresses, handlers, tabs and page
loads, any limit, lifetime, window and deployment, whichever workload runs and
whatever fails in it. Every safety property of a passing run is a theorem. None
of the properties is inductive, so each module strengthens them to an `IInv`, which
TLC checked on the module's run before it was proved. The strengthening is
always of one kind: a handler asleep between two commands acts on what it read
before, and `IInv` says, for each program counter, what of that still holds.

The theorems rest on the named assumptions of the modules, which TLC evaluates.
Most give an option its type or say that a placeholder (`None`, `NoUser`,
`NoFamily`) is none of the values it stands beside, as an absent key is none of
the values of a key. Three say more. `SessionAssumption` takes the hashes to be
finitely many (`LimitHolds` counts them), `MfaAssumption` and
`AccountAssumption` the handlers (`GuessesBounded` and `LockoutBounds` count
those). `MfaAssumption` also keeps challenge
tokens, recovery codes and TOTP codes apart, as the code does: they are matched
against different keys and have different formats (a JWT, grouped
characters, digits).

`TokenRotation_proofs` has eleven theorems, ten for the safety properties of the
two rotation runs and one for the refinement.
`IInv == TypeOK /\ Links /\ Indexed /\ Answers`, where:

- `KeyLinks`, `MintLinks`: every key of a hash carries the record the hash was
  minted with; a hash with a pointer, or with a successor, is no longer live.
- `IndexLinks`, `SweptLinks`, `RevokedLinks`: the index names hashes of its own
  user; a swept user has no index, a revoked lineage no family set. The last two
  are what RECOVER_GRACE tests, which is why a recovery in flight is refused.
- `RequestLinks`: what each pc knows. A seeded request either has the live
  record or will not rotate; a request past ROTATE's GRACE answer owns a spent
  pointer nobody else holds (`OneHolder`) and nobody has recovered; a signing
  request is alone with its hash; a bumping one holds only issued tokens.

The preservation proof first classifies the steps (`StepCases`): three mint a
hash, one signs, one bumps, and all others only take keys away (`Shrinks`),
which disturbs no link. What a sleeping request knows survives because hashes
evolve one way (`Evolves`).

Its last theorem, `LedgerImplemented`, is `Spec => LedgerKept`. `RInv` adds that a pointer or
a marker is there only because its hash was rotated, that requests on the grace
and reuse paths work on rotated hashes, and that a family set names its lineage
only; so a sweep or a reuse revocation ends exactly the sessions the ledger
says, and a recovery is one the ledger allows.

`SessionManagement_proofs` has five theorems. `StoreLinks` says that keys carry
the record their hash was minted with, that at most one hash of a device is
live, and that a pointer leads to a hash of the same device. `RequestLinks` says
what a listing is still good for: its hashes stay minted, those it was to end
are ended or still on it (`OtherDevicesEnded`), and at most one of them is of
the caller's device, which it skips (`OwnDeviceKept`). `LimitKept` needs a
count. `LimitLinks` says that an account over its limit has a sign-in that will
list it, or one whose evictions still to come take it back within the limit
(`Remaining`); the step to prove is that an eviction takes one from both sides,
and the excuse `loose` is what a rotation of a listed session does to it.

`Logout_proofs` has four. What an attempt has done is known only from what is
left of its list of writes and from those that failed: `WriteLinks` says that a
command which is neither has taken effect for good, and that the session is
deleted before its pointer, without which a rotation in between would revive it
(`SignedOutStaysOut`). For `AnnouncedAtMostOnce`, `Kept` says who still knows of
a logout begun and not announced (the marker or an attempt in flight), and
`Settled` that after an announcement, of attempts that never overlapped, neither
is left.

`MfaRecord_proofs` has five. `FlowLinks` types a handler by its flow and step.
`HoldLinks`: one that has not overrun a lock it took still holds it, hence
`TransitionsAlone`. `TotpLinks` and `TokenLinks`: a TOTP code or a challenge
token is claimed by one handler at a time and its mark outlives the window in
which it would be accepted, hence `SignsInOnce`. `GuessLinks` counts the guesses
already admitted by a counter and not yet recorded by it, which is how far
`GuessesLimited` lets it be passed. `LedgerImplemented` is the refinement of
`MfaLedger`. It needs `Clean => CleanInv`: unless some handler wrote without its
locks (`late`) or enabled a set-up it had not taken (`crossed`), what a handler
is about to write follows from the record as it is now (`WriteLinks`), the
secrets and codes it carries are nobody else's (`SourceLinks`), and a recovery
code is spent by the one handler that struck it (`CodeLinks`). From the step at
which either happens, `RecordIsLedger` asks nothing more: the record has been
overwritten from a read that was stale.

`Accounts` has one for each property of its run, and two modules for them.
`AccountSteps_proofs` says what every action changes and proves `TypeCorrect`,
`Accounts_proofs` proves the rest. All of it rests on `TypeInv`: where a handler of each flow can be (`OnPath`), what it has in hand
there (`FlowLinks`, `DataLinks`), and that whoever it is about exists and has an
address (`Standing`). The other conjuncts of its `IInv` stand beside each other:

- `IdInv`: until the handler that draws a value has written it, the value is
  nowhere (`Unused`); afterwards it is in one place, and unspent there
  (`ProofLinks`). What takes a value removes it in the same command, hence
  `SpentOnce`.
- `GuessInv` counts, for each counter, the handlers between the check and the
  count, which is how far `LockoutHolds` lets it be passed.
- `DateInv`: a password hash is *dated* by the number of writes its account had
  seen when it was read. It is the account's password only if there was none
  since (`Dated`), because a hash not yet stored is none that anybody has read
  (`Old`); so a proof that compares equal is not stale (`StaleRefused`).
- `SessionInv`: what a reset that is past its sweep, or past its bump, has left
  (`SessionsEnded`). Of a sign-in that writes its session after the sweep it
  says nothing, and neither does the property.
- `NameInv`: what only the drawer of an invitation knows (`Unnamed`) until it
  claims the index; from then on the index names it for one address, and
  whoever approved its end was told so by that index. A superseded invitation
  is not named again, and the drawer that had not written its record finds that
  out before it mails it (`Mailing`, `DeadInvitations`).
- `CacheInv` is the property itself (`CacheIsFollowed`), and that what does not
  exist is not cached.
- `TicketInv`, `KeyInv`: what was dead when it was presented is dead at each
  check still to come (`Late`, `KeyDead`), because revocations are final and the
  clock only advances (`DeadRefused`); and a rotation retires a key only with
  its successor written (`Supplied`, `AlwaysAKey`).

The steps are classified first (`NextCases`): a request begins (`Enters`), a
handler goes on or ends (`Step`), or a key lapses, a counter is cleared or time
passes (`Drifts`).

`BrowserSession_proofs` has four, one of them the action property
`CookiesPlantedAndCleared`. A number (one rotation of the server's) once born
only ages (`Ages`), and an answer issues only numbers the server had not issued
(`Follows`); the cookies a jar or a call holds are born (`BornLinks`).
`TransitionsPrevail` follows from generations (`ViewLinks`, `CallLinks`).
`ToldTheTruth` needs `OverLinks`, that whoever was told its session is over
presented a number that yields none, and, for a tab that works alone,
`AloneLinks`: each number that could still be rotated is in one place only, the
jar or the answer on its way. That the server always has a next number to issue
(`Next1`) is the well-foundedness of the naturals.

The proofs share a layout. A lemma per action states its outline: what it leaves
alone and the fields of the one record it changes. A lemma per action and group
of conjuncts shows that the group is kept, and the theorems cite these.

Model-checked only: liveness (`EventuallyAnnounced`, `NavigationEnds`), which is
outside the prover's reach, as is `ENABLED`: that no handler hangs is the
deadlock check of the runs. That the statements of section 6 fail is shown by
TLC's counterexamples.

## 6. Where the documentation says more than the code does

- `claim_swept`: the comment of RECOVER_GRACE_LUA takes an absent index to be
  "precisely" that a revoke-all has run. A sign-in between the sweep and the
  recovery re-creates the index, and the swept lineage gets a session back.
- `claim_otherdevices`: "sign out my other devices" revokes what one SMEMBERS
  returned. A device that rotates after that listing keeps its new session,
  although the comments say it cannot.
- `claim_rehash`: the detached rehash "can only lose an upgrade, never a
  password". It reads the hash again and then writes unconditionally, so a
  change that lands between the two is overwritten with the old password.
- `claim_invitation`: the invitee index "is the only handle the issuing side has
  on a record". An acceptance or a revocation deletes it whatever it names by
  then, and a new invitation of the address stays live out of its reach.
- `claim_cleared`: `clearAuthSession` "clears all auth cookies on the resolved
  domains", with lines that lack `Secure`. With a `__Host-` or `__Secure-` name,
  or `SameSite=None`, a browser drops such a line and the cookies stay.

Two more, met while modelling and not made into runs. The hook's contract
(`interfaces/auth-hooks.interface.ts:206`) says a retry that completes a failed
logout fires nothing; the marker `lp:` exists so that it does, and
`AnnouncedOnce` counts on it. `createAuthFetch`'s comment takes a 401 of the
refresh route for a refusal by the API; the Next.js refresh route answers every
failure of its upstream with a 401, so behind it a fault signs the user out
(`EndedForReal` speaks of it for fault-free workloads only).

### Behaviour no property states

No comment denies these; each was met in the code, and several in traces.

- Refresh: a successor revoked from the session list between ROTATE and RECOVER
  does not stop the recovery. A rotation reads the epoch after it wrote the
  session, so a revoke-all in between leaves the caller an access token that
  verifies until it expires, for a session that is gone. `readFamilyOwner`
  reads a snapshot, and a rotation in between leaves the reuse hook without an
  owner (the revocation holds). `AuthService.refresh` re-reads the account after
  the rotation; what it refuses then is a revoke-all by another handler to the
  keyspace.
- Refresh: a process that dies between ROTATE's answer and the session it
  writes leaves a spent pointer; the client's next retry then counts as reuse and
  ends the lineage. `ExchangedOnce` allows it.
- Status: a guard that read the account before a suspension may refill the cache
  after the invalidation, and what it wrote stands for its time to live.
  `invalidate`'s comment names the gap; `CacheFollows` excuses such a fact as one
  that did not hold when it was written.
- API keys: a second rotation may move the instant a first one set and revive a
  key for a while. A retirement that took effect with its answer lost, or a
  process that dies before it hands the plaintext over, is not in the model.
- Sessions: overlapping sign-ins at a limit of one list and evict each other. A
  session picked for eviction that rotates first leaves the account one over
  (`LimitHolds` excepts it by name, `loose`). Detail rotations of consecutive
  refreshes overtake each other and lose the session's age.
- Logout: attempts that run beside each other may announce it more than once,
  as documented. A grace recovery already between ROTATE and RECOVER writes a
  successor after the logout of its token completed. A lost answer to the
  marker's removal leaves the next retry nobody to announce (`unkept`).
- Browser: a refresh in flight when its tab signs out plants the rotated
  session's cookies after the sign-out (section 7). An earlier validation's 200
  arriving after a later one's 401, both of one generation, shows the user until
  the next validation. The provider's own 401 hook clears the session after a
  refresh that was merely unavailable.

## 7. Not modelled, and why

About three fifths of the implementation's lines are documentation comments, and
much of the rest keeps no state: DTOs, interfaces, the OpenAPI fragment and its
generated schemas, e-mail templates, error codes, exception filters, throttle
limits, module wiring, and the options that are read once at start. The mapped
lines are the services' bodies, the scripts, the handlers of Next.js and the
client's fetch and provider. Components without a module are listed with their
reason in `PROJECT.json`. Inside the modelled ones:

- `AuthService.refresh`'s gate after the rotation, beyond a blocked account
  (which `Browser` has), and the claims a refresh is re-stamped with.
- Durations, except the TOTP window and the half seconds of `Tickets`; the
  retention of the epoch key.
- Redis failover that loses acknowledged writes, and clock skew.
- JWT signing and verification, beyond the epoch stamp and the expiry of an
  access token; the second-factor claim, tenant binding and scopes a guard
  compares, which are predicates of one request.
- API keys: the batch of last-used dates. Its timed flush is not awaited at a
  shutdown, and one that then fails puts its dates back with no timer left,
  though the method's comment says a clean shutdown loses nothing.
- MFA: the sweep and bump after a change (they are in `TokenRotation`), mail and
  hooks.
- Browser: the two orders of a sign-out beside a refresh of the same tab are
  both in the model, and one ends with a live session in the jar; no property
  forbids it, since the client does not order them. A logout answered with a
  route-level 403 or 404 counts as final though nothing was revoked, and is not
  modelled, nor are handlers that disagree with the API on a cookie's domain or
  path (their deletions miss, in `Deployment`, and `CookiesFollow` asks nothing
  of them). `dedupeSetCookieHeaders` (keyed by name and domain, not path),
  statuses and identity headers carried by the proxy, and path matching are left
  out.

## 8. Plan

What is next, most important first:

1. An abstract specification of single-use records (drawn, mailed, taken once,
   or ended) that `Accounts` implements in each of its flows, with the refinement
   proved from `IdInv` and `NameInv`.
2. Abstract specifications of what a sign-out promises, for `Logout`, and of one
   session seen through a browser, for `BrowserSession`.
3. The gate of `AuthService.refresh` after the rotation, with the claims it
   re-stamps, composed with the account's status.
4. The batch of last-used dates of API keys beside a shutdown.
