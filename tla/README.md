# A verification project for FrejaID

FrejaID signs people in without passwords: with passkeys (WebAuthn) or with
Freja eID, which Apache authenticates before a request reaches the Go server.
Accounts are asked for by e-mail, proved by mail and a credential, and created
by an administrator. This directory holds TLA+ models of the server, the TLC
configurations that check them, and proofs checked by TLAPS. Paths below are
those of the repository.

## The system

One process, one goroutine per HTTP request (`net/http`), one SQLite connection
(`SetMaxOpenConns(1)` in `internal/db/db.go`). All state is in tables; a request
keeps only local variables. Hence the shape of every model: a SQL statement is
atomic, a transaction is atomic, and the statements of different requests
interleave in any order. A client that goes away cancels `r.Context()`, so
every later statement of its request fails. The process may stop at any time;
systemd starts it again and finds what was committed. What requests share beside
the tables is in `Server`: the one connection, the rate limiter's map, and the
process itself with its signal, deadline and restart.

| Component | State | Operations | Hard part |
|---|---|---|---|
| Registration and approval (`auth/handler.go`, `auth/freja.go`, `admin`) | `registration_requests`, `users` and what an approval inserts | submit, verify, begin/finish passkey, Freja registration, approve, reject, automatic approval | the SELECT of an approval is outside its transaction; the promotion is after it; a row has two authentication methods and many writers |
| Passkey management (`auth/passkeys.go`) | `webauthn_credentials`, `webauthn_add_sessions` | begin/finish add, rename, delete | count and DELETE are separate statements |
| Freja login and linking (`auth/freja.go`) | `user_identities`, `freja_link_confirmations` | login with fallback, link, confirm, unlink | several writers of one UNIQUE column; look-ups long before the write |
| Credential reset (`auth/reset.go`, `admin`) | `credential_reset_requests`, shared ceremony rows | request, approve, reject, reset by passkey, reset by Freja | the link is checked first and spent last; ceremonies share a row with the settings |
| Sessions and passkey login (`auth/session.go`, `auth/handler.go`, `auth/check.go`) | `sessions`, `webauthn_login_sessions`, `sign_count` | begin/finish login, logout, check, cleanup | ban or role change during a request; `sign_count` written late |
| User administration (`admin`) | `users.role`, `users.is_banned` | ban, unban, set role | races with logins; the last administrator |
| Profile and e-mail change (`user`) | `email_change_tokens`, `users.username`, `provider_email` | request, confirm | three statements, no transaction; look-up a day before the write |
| Rate limiter (`middleware/ratelimit.go`) | a map of times by address, under a mutex | allow | the clock is read before the lock |
| Database connection (`db`, callers that mail) | the one connection | every statement | rows kept open while SMTP is slow |
| Hooks, mail | none | notifications | called after commits that may be followed by a crash |
| Pages, configuration, logging | none that changes | | |

They interact through tables: registration creates what the login methods keep;
an e-mail change rewrites the name registration compared and the address Freja
logins fall back on; a reset shares a ceremony row with the settings. What makes
each component correct is stated as its properties below; `PROJECT.json` lists
the hazards, each at its line, with the property that would catch it.

## Modules

`AccountLifecycle` is an abstract specification: what registration promises
about one address, without statements, tokens or handlers. An address asks,
verifies, submits and is decided upon; an approval has a beginning and an end,
and only one that began before a rejection can overrule it.

`Registration` is the detailed specification. `reg[e]` is the row of address
`e`; a row is never deleted and its address is UNIQUE, so the address also
stands for the row's id, its tokens and its `pending_user_id`. Time is what can
be told of it: `fresh` and `setup` say that the two expiry times are ahead.
`users[u].username` may move away from `u` by an e-mail change. A member of
`Calls` is a request being served: `call[p].pc` names its next statement, and
the record holds the locals that outlive one. `Commit` is the transaction of
`SendApprovalEmail` with one of its branches, `Rollback` its failures. `Approve`
is the SELECT before it. `Promote` is the UPDATE after it. `Disconnect` and
`Crash` end requests between any two statements; the hook after a commit
survives a disconnect, as in the code, and not a crash.
`MCRegistration` gives the small instance. Here as elsewhere the proofs stand in
modules of their own, named `..._proofs`.

`LoginMethods` has the passkeys and Freja identities of accounts once these
exist. Its `stale` field is history: a passkey of the account was deleted since
this request counted them. Addresses are only ever compared by `LOWER()` here,
so one stands for all its spellings. A WebAuthn challenge is represented by the
passkey an answer to it would register, here as elsewhere: both are random.

`CredentialReset` has the reset requests, the links mailed for them and the
ceremonies. `via` is history: the request a passkey was stored for. The
ceremonies of the settings appear again, as they write the same rows.

`ResetLifecycle` is the abstract specification of one reset: asked for, decided
once, the link of that decision opened by any number of requests while it stands
approved, granted only by one of those, and completed only by one that granted. It
knows no statements, ceremonies or tokens. `Lifecycle` in `CredentialReset` maps the
detailed state onto it: a request has opened a reset when it serves it at all
(`Serving`), and has granted when it is about to spend the link (`Completing`).

`Sessions` has passkey login, sessions and what administrators change about a
user. A request that carries a session is a call with the user, session and role
it read; `SetUser` and `CallHook` are the UPDATE and the hook after it, which is
called whether or not the UPDATE worked (`Disconnect`). `ceremony[c]` is what an
authenticator did with a challenge. History: `overtaken` has the requests whose
session, ban or role changed after they read it, `muddled` and `crossed` name what
two changes or two logins crossed on, `highest` is the count a login was last
accepted with, `forfeited` says that an administrator removed themselves or acted
after being removed.

`OneTimeLink` is an abstract specification: a link is issued, redeemed once and
applied once, or given up. `EmailChange` is the detailed one: the token, the three
statements and the hook of a confirmation, the mail to the new address, and every
other statement that writes a username or a row of `user_identities`. `Join` is the
transaction of an approval, which may bring a Freja subject; `CallOnUserCreated`
comes after it and after a mail that has no time limit, so a change may be confirmed
or the process stop in between. `ResetFreja` reads the username and `UpsertIdentity`
writes it later, into the subject's row whoever owns that. `LinkFreja` stores
whatever address Freja asserts, `AdoptSubject` moves a row to another subject, and
`UnlinkFreja` deletes a user's rows. `identity` is a table by subject, so that a user
may have several. An address is a mailbox and a spelling. History: `joined` is the
mailbox a user registered with, `applied` has the links whose UPDATE was made,
`stale` the requests whose user was renamed after they read the name, and `crossed`
the users whose identity or host picture fell behind by one of the events that the
two properties name; the next change of the user clears it.

`RateLimiter` is `middleware/ratelimit.go`: `Ask` reads the clock, `Allow` is what
happens under the mutex, and any number of requests may stand between the two.
The code keeps a slice of times on which nothing depends but how many of them there
are and when they were; here it is a set, and `nth`, how many requests of the address
were admitted before, tells equal times apart. `admitted` and `latest` are history:
the requests let through and the latest stamp decided, by address. `Server`
instantiates it, puts it before the three limited handlers and composes it with the
database connection, the mail relay, the hourly cleanup and the life of the process. A handler is the sequence of what it does with the
connection: a statement takes it and gives it back, mail under rows keeps it,
mail after the last statement does not. `hung` says that the relay has stopped
answering. A restart forgets the limiter's map.

Mutants, named after the definition they change (`Promote_Forgotten`), stand
before it and are used by no specification; each shows that a property notices
the bug its comment names.

## What the runs show

| Run | Bounds | Distinct states | Checks |
|---|---|---|---|
| `registration` | 2 addresses, 3 spellings, 2 passkeys, 1 subject, 2 concurrent requests | 1.06 M | below |
| `login_methods` | 2 users, 2 passkeys, 2 subjects, 2 addresses, 1 link, 2 requests | 2.10 M | below |
| `credential_reset` | 2 users, 2 reset requests, 2 tokens, 2 passkeys, 1 subject, 2 requests | 1.90 M | below |
| `sessions` | 2 users, both administrators, one with a passkey and one with Freja, 2 sessions, 2 challenges, 2 changes, 2 requests | 3.49 M | below |
| `email_change` | 2 users, 2 mailboxes in 2 spellings, 2 subjects, 2 links, 2 requests | 1.62 M | below |
| `server` | 2 requests, 1 address, a limit of 2 in a window of 2, 3 ticks of the clock | 86 k | below, with liveness |

`registration`: a request is completed exactly when its account exists
(`CompletedIffAccount`); the host application is told at most once and after the
fact (`AnnouncedOnce`); nobody gets an account without a verified address and a
credential, though the approval checks neither (`AccountOnlyAfterProof`); an
account has a login unless its Freja subject was another's by then
(`LoginMissingOnlyByConflict`); the session an automatic approval creates is an
administrator's, whatever was cut short (`SignedInIsAdmin`); a rejection is final
unless an approval was in flight (`RejectionSticks`); a request is in the
administrators' list exactly while it awaits them, though the list's condition is
about two columns two methods write (`AwaitingIsListed`); the flow implements
`AccountLifecycle` (`FollowsLifecycle`). `SignedInIsAdmin` is about the promotion and
the session within one registration: `setRole` is no step of this module, so that an
administrator who takes the role away later is outside it and in `sessions`.

`login_methods`: an account loses its last login only by the one race of two
removals around a stale count (`LastLoginLostOnlyByRace`); none of the five handlers
that write the subject column, `resetFreja` among them, moves a subject to another
account (`SubjectStays`); a challenge is redeemed once
(`ChallengeRedeemedOnce`); an identity is linked to the account whose session
presented it (`LinkedByPresenter`).

`credential_reset`: decisions are final and of several mailed links at most one
opens (`DecisionIsFinal`); a passkey is stored only for the approved user of an
opened link, whatever ceremony its challenge came from (`PasskeyNeedsApproval`);
no link is spent before its passkey is stored, or before the Freja subject signs in to
some account, which may be another's (`CompletedAfterCredential`); no session before the
link is spent (`SessionAfterCompletion`); the handlers implement `ResetLifecycle`
(`FollowsResetLifecycle`).

`sessions`: what a request read when it started still holds when it writes, unless
the ban, the role or the session was changed meanwhile (`ActsOnWhatHolds`);
somebody can always administer the server unless an administrator removed
themselves or acted after being removed (`LastAdminLostOnlyBySelfOrRace`); the
host application's picture of bans and roles is wrong only where changes crossed
or were cut short (`HostPictureLostOnlyByRace`); a signed challenge opens one
session at most (`AssertionSignsInOnce`); `sign_count` falls behind only by two
logins that cross (`CountBehindOnlyByCrossing`); a session that ended stays ended
and the cleanup takes none that works (`SessionsEndForGood`).

`email_change`: a username is the registered address or one at which its link was
followed (`UsernameIsProven`). `provider_email` is the username's address but for
changes of one user that cross, a change cut short before its second UPDATE, another
address stored by `frejaLinkConfirm`, and an upsert of `resetFreja` that writes into
another user's row or what it read before a change (`IdentityInStep`). The host
application has the user's address but for hooks still to come, a stop of the process
before one, and a change confirmed while an earlier change or the approval had not
made its call (`HostHasAddress`). The next change mends both. The link implements
`OneTimeLink` (`FollowsOneTimeLink`).

Properties whose name or comment says "only by" (`ActsOnWhatHolds`,
`LastAdminLostOnlyBySelfOrRace`, `HostPictureLostOnlyByRace`,
`CountBehindOnlyByCrossing`, `LastLoginLostOnlyByRace`, `IdentityInStep`,
`HostHasAddress`) exempt the races they name. They do not say that these races cannot
happen: the code has nothing against them. They say that there is no other way to the
bad outcome, so that closing the named races would close it.

`server`: the connection is held only by one who uses it (`ConnectionInUse`); in any
window at most the limit is let through until a later stamp is decided, so that the
hour just past is always within it, as `ratelimit.go:7` says; looking back, a request
that read the clock early and was decided late may have been let through on top, but
never more of them than the other requests served at a time (`WithinLimit`); nobody
is turned away before the limit was let through (`RefusedOnlyWhenFull`); the connection comes back however the
relay behaves (`ConnectionComesBack`), everybody who waits for it, the cleanup
included, stops waiting (`NobodyWaitsForEver`), and a signal ends the process
(`ShutdownEnds`).

Six runs expect a violation; each is a sentence of the repository that the code
does not keep:

| Run | The repository says | The code |
|---|---|---|
| `registration_silent` | a *pending* request for the address is silently ignored (`auth/handler.go:243`) | so is one for a rejected or expired request: the address is shut out |
| `registration_promoted` | the bootstrap administrator is *immediately promoted* (`auth/handler.go:93`) | a cut-short request leaves them passive, and nothing retries |
| `registration_case` | usernames are *case-insensitive* (`001_init.up.sql:24`) | two spellings become two accounts |
| `login_methods_delete` | deleting refuses to leave *no passkeys at all* (`passkeys.go:328`) | two concurrent deletions leave none |
| `login_methods_hook` | hooks run *after the database write succeeds* (`hooks.go:36`) | `OnFrejaLinked` runs after an INSERT that did nothing |
| `credential_reset_once` | the link has a *one-time token* (`admin/handler.go:259`) | it can store two passkeys |

More disagreements were met that have no run of their own:

- `README.md:184` says that after a Freja reset the *identity* is *linked*. Where
  another account has the subject, the upsert of `resetFreja` changes only the address
  in that account's row; the request is completed, and its user is signed in once and
  has no Freja identity afterwards. `UpsertIdentity` in `CredentialReset` is that step.
- The page `frejaLink` serves carries neither the form token that
  `frejaLinkConfirm` asks for nor the script that adds it to other pages.
  `ConfirmLink` assumes a client that has a token.
- `auth/handler.go:737` says `finishLogin` verifies that `sign_count` has not
  decreased. go-webauthn only sets `CloneWarning`, which nothing reads:
  `ReadCount` accepts any count and keeps the higher one.
- `README.md:462` speaks of rolling sessions; `expires_at` is written once. No
  action of `Sessions` extends one.
- `hooks.go:71` says that `OnLogin` is called after every successful login;
  `frejaRegister` and `resetFreja` create a session without it.
- `hooks.go:36` says that hooks run after the write succeeds; `banUser`,
  `unbanUser` and `setRole` call theirs whatever became of the UPDATE. This is
  the `change` branch of `Disconnect`.
- `001_init.up.sql:24` wants `LOWER()` before every comparison;
  `auth/handler.go:693` and `:745` compare as typed, so an account answers only to
  the spelling it was registered with.

### Bounds

Every race in these components is between two requests: each handler reads once
and writes later, and what it wrote is not undone. Two members of `Calls` give
every pair of handlers; a third would repeat one of the two. Two addresses (or users)
are needed because rows meet in UNIQUE columns, two passkeys for an account
that can lose one, two subjects for a replaced subject, two tokens for two
administrators who approve one request. One address of `registration` is a
bootstrap administrator's in another spelling, so that the automatic approval
and the comparison without case both happen. One link token is enough for
`login_methods` since links meet only through identities, which logins and approvals
write too. Tokens, passkeys, and request ids are used up, so the state spaces are finite
without a constraint; `created` needs no bound because an account is created
once. Symmetry is taken in sets whose members no definition tells apart, and in
safety runs only. `CHECK_DEADLOCK FALSE`: with every address decided upon and
every token used the system does stop.

In `sessions` the passkey belongs to one user and Freja to the other, since the
two ways to sign in meet in nothing but the sessions table; two challenges let an
old answer meet a new one, two changes let bans and role changes cross, each
other and a login. In `email_change` two links let two changes of a user cross, and
the second subject gives a user two identities and `frejaLogin` somewhere to move a
row. Registrations are typed in mixed case there (`Typed`), so that a mailbox can
be registered in one spelling and changed to in the other; that a registration is
typed in lower case is left to the proofs, which hold for both. In `server` the
limit and the window are 2, the least at which a window can be filled by two
requests and be left by one of them; three instants give stamps on both ends of a
window and beyond. Two requests suffice for the connection: one holds it and one
waits, beside the cleanup, which is a third. Deadlock is checked in `server`: a
process that stops is started again.

### Fairness

Registration, login, reset and e-mail change assume none and claim no liveness:
the code retries nothing, a client may always go away, and an administrator may
never look, so no request has to reach a decision. What must eventually happen
is that those who wait for the connection stop waiting, and that a signal ends
the process. `Server` states the fairness this needs:

- weak fairness of `Allow`, `Finish`, `FinishRows`, `FinishMail` and
  `CleanupFinishes`: the scheduler runs every goroutine, a statement of SQLite
  ends, and a relay that has not stopped answering answers. None of it is assumed
  once the relay hangs;
- strong fairness of `Acquire` and `CleanupAcquires`: whenever the connection
  comes back `database/sql` hands it to one of those who wait, chosen at random
  from a map, so that nobody is passed over for ever;
- weak fairness of `ProxyTimeout`: Apache does not wait for ever for an answer
  (its default is a minute), and when it gives up the request's context ends.
  `Send` sets no time limit, so without the proxy a silent relay would keep the
  rows of `requestCredentialReset`, and with them the connection, for ever;
- weak fairness of `Stopped` and `Deadline`: `main` waits for `Shutdown` and its
  ten seconds.

Clients, signals, crashes, expiry and the ticker are not fair: nothing claimed
needs one to happen.

## What is proved

Eight modules hold the proofs, one or two for each component. They hold for any
sets of users, addresses, passkeys, subjects, tokens and concurrent requests.
What is assumed of the constants is named in the module that declares them, and
TLC evaluates it in the component's run.

`Registration_proofs` proves the type invariant and every safety property of the
run `registration`: `TypeCorrect`, `StatusMatchesAccounts`, `AccountsAnnouncedOnce`,
`AccountsAreProved`, `AccountsCanSignIn`, `AutoApprovedSessionIsAdmin`,
`RejectionsAreFinal`, `AwaitingAreListed`. Assumed is
that addresses have a canonical spelling, that the sets the code draws from are
what their names say, and that `None` is none of their members.

None of the properties is inductive. The invariant `IInv` adds what each request
knows while it waits for its next statement:

- `RowInv`: a row's columns fit together. A submitted row is verified and its link
  was delivered; a parked passkey or the provider 'freja' means submitted; a
  subject in the row is one that may assert the address.
- `CallInv`: what a request read is still true when it matters. An approval at its
  transaction holds a credential the row once had, so the row is submitted for
  good; one at `notify`, `promote` or `session` follows the commit that created
  the account; one at `session` follows the promotion.
- `OneNotifies`: at most one request per address is at `notify`, and the account
  was not announced before. Two approvals may both read the row as pending, but
  `users.id` is the primary key, so one of the two commits fails.
- `UserInv`: a user's row exists with its request completed, and what an account
  was given to sign in with is kept or conflicts with another account's subject.

The step lemma `InvStep` has a case per action, and under it a case per conjunct
the action can disturb; `RowsGrow` and `TablesGrow` say that rows and tables
only grow in what the others rely on, so that a step of one request keeps what
the other requests know (`CallInvKept`). `RejectionsAreFinal` is an action
property from the same invariant.

`AwaitingAreListed` needs `RowInv` too: a row is submitted exactly when it has a
parked passkey or the provider 'freja', which is what `ListPending` asks for.

`RegistrationRefinement_proofs` proves the refinement, `FlowFollowsLifecycle`:
every step of the handlers is a step of `AccountLifecycle` or leaves what it sees
alone. The invariant is needed where an abstract step has a guard that the code
does not repeat: a credential is parked in a verified row (`SubmissionMaps`); an
approval that has read a credential has read a submitted row (`BeginMaps`);
`Commit` finds its row submitted, verified and not completed; `Notify` announces an
account for the first time. Whatever ends or moves a request without beginning an approval is `GiveUp`.

`LoginMethods_proofs` proves `TypeCorrect`, `ChallengesRedeemedOnce`,
`LinkedByItsPresenter`, `SubjectsStay` and `LastLoginStays`, all of the run
`login_methods`. Its invariant adds that a challenge is in one place
(`CeremonyInv`), that a subject is one user's (`SubjectInv`), and that what a
request counted is still there unless a passkey of the account was deleted after
that (`CountInv`): at `delete` two passkeys, at `unlink` one. Only the last makes
`LastLoginStays` follow, since the removal itself looks at nothing. That the
passkeys stay finitely many, so that counting them means something, is part of the
invariant and not assumed. `SubjectsStay` has a case for each of the five writers of
the column, the upsert of `resetFreja` among them.

`CredentialReset_proofs` proves `TypeCorrect`, `PasskeyIsApproved`,
`CompletedIsGranted`, `SessionIsCompleted` and `DecisionStays`. A request carries
the reset it serves from one statement to the next without reading the row again;
the invariant (`Carries`) says that the row is still approved or completed, with
the same user, provider and token, and the link mailed (`Linked`), and that one
about to complete it has granted what was asked for. This is stable because rows
only move forwards (`RowStep`), which is `DecisionStays`.

`CredentialResetRefinement_proofs` proves the refinement, `ResetFollowsLifecycle`:
every step of the handlers is a step of `ResetLifecycle` or changes nothing it
sees. What the handlers check and what the abstract steps ask for differ in the
link: `Opens` finds a row by its token and wants it approved, and the abstract
opening wants the link of that approval mailed. Two administrators may approve one
request, each with a token of their own, and only one of them writes the row. Hence
`TokenInv`: only a row that was decided for has a token, and the token an approval
is about to store was mailed, or is held, by nobody else. With `Carries` a request
that serves a reset has opened it, and one about to complete it has granted.

`Sessions_proofs` proves `TypeCorrect`, `RequestsActOnWhatHolds`, `LastAdminStays`,
`HostPictureIsRight`, `AssertionsSignInOnce`, `CountIsHighest` and `SessionsEnd`.
Assumed besides is that the challenges are finitely many
(`ChallengesAssumption`), so that the highest count exists; that the changes an
administrator may ask for are bans and roles (`ChangesAssumption`); and that
there is an administrator to begin with. The invariant adds that a challenge is in
its row, with one request or with one session (`ChallengeInv`), that a count about
to be stored is the highest unless logins crossed (`CountInv`), and that what a
hook is about to tell is what the row says unless changes crossed (`HookInv`).

`EmailChange_proofs` proves `TypeCorrect`, `UsernamesAreProven`,
`IdentitiesFollow`, `HostIsTold` and the refinement `LinksAreOneTime`. The
invariant adds what a link stands for (`LinkInv`: who asked, which mailbox, and
that an applied link was mailed there), that a confirmation carries the link's
words, that what a confirmation or an approval has still to pass on is the username
unless a change crossed it, and that the address `resetFreja` is about to write is the
username unless the request is stale (`Latest`, a part of `CallInv`), that a row of
`user_identities` is one of a user with an account (`UserInv`), and that one request
at most redeems a link (`OneRedeems`). `IdentityStep` and `HostStep` have a case per
writer. The refinement rests on `OneRedeems`: a link given up is in nobody else's
hands.

`Server_proofs` proves `ConnectionIsInUse`, `TypeCorrect`, `LimitHolds` and
`RefusalsAreDue`, for any limit, any window longer than zero and any last tick. For
the connection the invariant `IInv` adds that a request has a step left wherever it
takes one, and waits for the connection only for a step that needs it
(`StepsLeft`). For the limiter `LimiterStep` shows that a step of the server is one
of the limiter or leaves it alone, and the invariant `LInv` adds what the map of
entries is to the requests admitted: what is kept was admitted (`AddressOK`), and
what is still in the window of the latest decision was not dropped (`Remembers`),
although each request drops by its own stamp, which may be older. `WithinLimit`
alone is not inductive. Its first half needs `Remembers`: a request is counted
against what is kept, and only that says that the windows it is the last of hold no
more. Its second half needs a count of those who wait (`WindowOK`): once a later
stamp was decided, a window grows only by requests that read the clock before and
still wait for the mutex, each admission is one of them less, and nobody comes to
wait with a stamp that old (`InThePast`). Counting them needs the requests served at
a time to be finitely many and at least one (`CallsAssumption`).
`RefusalsAreDue` needs the other half, that nothing kept was not admitted.

Only model-checked are the expected violations and the three liveness properties of
`Server`, since liveness under fairness is beyond the provers this project uses.

## Not modelled, and why

Rendering of pages and mail, SMTP itself, logging, headers, static files and the
reading of the environment change no state. Migrations run before the server
listens. The form token and the honeypot only end a submission before its first
statement. CSRF tokens, signatures and OpenID Connect are taken to do what they are for.
`renamePasskey` and `saveProfile` write a label that no decision reads.
What a host application does in its hooks is not in this repository.
SQLite is taken to execute statements as written; a statement fails by a
constraint, a cancelled request or a stopped process.
