# FlyingCerts in TLA+

FlyingCerts obtains certificates for hosts that cannot reach a CA themselves. A
*broker* (`flying-certs-server`) talks ACME, stores certificates and serves them
over mutual TLS; an *agent* (`flying-certs-agent`) on each host enrols once,
keeps its identity alive, and collects and deploys what it is permitted. This
directory holds models of both, the TLC runs that check them on small instances,
and TLAPS proofs of what matters most for instances of any size.

## The system

| Part | State | Operations | Hard because |
|---|---|---|---|
| Token store, `internal/enroll` | record files in `pending/` and `redeemed/`, `.claiming` files | `Put`, `Get`, `Redeem`, `List`, `Prune` | requests race on one file; the pruner acts on a listing that has aged; the process dies between two file operations |
| Agent registry, `internal/registry` | configured agents, `agents.json` and a copy of it per process | `New`, `Authorise`, `Revoke`, `Restore`, `Enrolled`, `Delivered`, `Review` | `serve` and each command hold a copy and save the whole of it |
| Rate limiter, `internal/brokerapi/ratelimit.go` | a bounded table of counters | `Allow`, `Prune` | table full; window ends |
| Broker API, `internal/brokerapi` | none of its own; reads the registry, spends tokens, signs | `enroll`, `identity/request`, `identity/renew`, fetch, `issue`, `whoami` | four credentials with four lifetimes; configuration changes between issue and use; lost answers |
| Agent CA and endpoint, `internal/agentca`, `cmd/.../broker.go` | CA key and certificate, the endpoint's TLS pair | `OpenOrCreate`, `SignAgent`, `SignServer`, `brokerServerCertificate` | two files each, several processes, made on first use by whoever comes first; an end of its own |
| Certificate store, `internal/certstore` | three files per certificate | `Save`, `Load`, `List` | three renames, read meanwhile; a save that stops half way |
| Renewal, `internal/acme/renewal.go`, `cmd/.../main.go` | – | `obtain`, `renew` | decision, order and save are far apart; CA advice missing or late |
| ACME issuer, `internal/acme` | one lock per challenge target | `Obtain`, `ObtainForCSR` | concurrent orders write one DNS record |
| ACME account, `internal/acme/account.go` | key file, metadata file, the registration at the CA | `register` | a crash between any two of the three |
| Backup, `internal/backup`, `backupcmd.go` | archive | `Create`, `Inspect`, `Restore` | files change while they are collected; a restore stops half way; old state over new |
| `check`, `registry.Review` | reads `agents.json` | `check` | the broker knows what it signed, not what arrived |
| Agent, `cmd/flying-certs-agent`, `internal/agent`, `internal/devicekey` | device key, identity key and certificate | `run` | every file operation may be the last |
| Deploy, `internal/deploy` | target files | `Deploy` | write, reload and verify fail separately |
| Pure code: `csrcheck`, `lifetime`, `keyfp`, `config` | – | checks, parsing | edges |

They interact through files more than through calls. `token` puts a record that
`serve` redeems; `revoke` writes `agents.json`, which `serve` read at its start;
`renew` writes the files that `serve` reads for a fetch; `serve` and `renew` each
order from the CA with a lock of their own. Inside `serve`, every request is a
goroutine, and one more prunes tokens and counters on a ticker.

What makes each part correct, in a line: a token yields one identity at most; a
revocation holds from the command that makes it to the command that lifts it; the
limiter limits, in bounded memory, without locking anyone out; whoever gets an
identity or a certificate was let in as the agent that may have it; a stored
certificate is whole; orders do not spoil each other; a host can always come back, and
somebody is told in time when it cannot; there is one root and one account, and a
backup brings both back.

## Modules

| Module | Models |
|---|---|
| `OneTimeToken` | abstract: a token is issued, claimed by one, granted at most once, or lost |
| `TokenStore` | `internal/enroll`, one action per file operation; implements `OneTimeToken` |
| `Registry` | `internal/registry` with `serve` and the `revoke`/`restore` commands as processes |
| `RateLimiter` | `internal/brokerapi/ratelimit.go` |
| `Account` | `internal/acme/account.go` and `cmdRegister` |
| `CertificateSlot` | abstract: a slot with one whole certificate or none, and what a fetch may be answered with |
| `CertStore` | `internal/certstore`, `certinfo`, `DecideRenewal` and `cmdObtainOrRenew`, for one certificate; composed with `Account`; implements `CertificateSlot` |
| `ZoneLock` | `internal/acme/zonelock.go` and the two operations of the issuer under it |
| `CsrCheck` | `internal/csrcheck`, a pure algorithm on sets of names |
| `BrokerAPI` | the routes of `internal/brokerapi`, composed with `OneTimeToken`, `CsrCheck`, the registry as loaded, `SignAgent` and `agentNotAfter` |
| `Lifetime` | `internal/lifetime`: from a written lifetime to a span, in the width of a `time.Duration` |
| `Review` | `cmdCheck`, `Registry.Review` and `effectiveWarnBefore`, beside a host and the answers it gets; composed with `Lifetime` |
| `BrokerState` | the broker's disk: `openBroker`, `agentca.OpenOrCreate`, `brokerServerCertificate`, one token, one agent |
| `Backup` | `internal/backup` and `backupcmd.go`; composed with `BrokerState` |
| `AgentHost` | a host: `cmd/flying-certs-agent`, `internal/agent/identity.go`, `internal/devicekey`; the broker is external |
| `Deploy` | `collect` and `internal/deploy`, for one target over many runs; the service is external |
| `MC...` | constants and symmetry for TLC |
| `...Proofs` | theorems and proofs; `BrokerAPIProofs` also has the limiter's and `AgentHostProofs` the deployment's, which is why `RateLimiter` and `Deploy` name their specifications `LimiterSpec` and `DeploySpec` |

Definitions named `...` after "Fault variant:" are mistakes one could make in the
code at that place. No specification uses them: putting one in the place of the
definition that follows it must make TLC find the property violated that is meant
to exclude it (`PROJECT.json`, "mutants").

### How state and actions correspond to the code

**TokenStore.** `pending`, `claiming` and `redeemed` are the files, a record or
`None` per id. `Redeem` is `RedeemStart` (the handler reads the clock),
`RedeemVerify` (`Get` and `Verify`; the two reads inside `Get` act as one because
a record never returns to `pending`), `RedeemClaim` (the rename), `RedeemWrite` or
`RedeemWriteFails`, `RedeemDone`, whose removal of the claim file may fail without anybody
being told. `Prune` lists one directory, then the other, entry
by entry, then removes file by file. `Crash` ends all requests and the pruner.
A secret is right or wrong. `grants` observes successful redemptions.

**Registry.** A state entry keeps what the properties tell apart: revoked or not,
stamped or not. `file` is `agents.json`; `mem` is serve's copy and `cmdMem` a
command's. Loading and saving are separate steps of a command, as they are in
`cmdRevoke`. `Exclusive` says whether processes take turns on the file: the code
does nothing to ensure it, so it is an operating rule, and the model shows both
worlds. `ruled` observes which command succeeded last.

**RateLimiter.** One action per call, as each holds the mutex. Buckets hold an
age rather than a start time. `recent` observes the ages of a host's last `2 * Limit + 1`
admitted attempts; the oldest of them must lie outside the window.

**CertStore.** Key, chain and metadata each carry the serial of the certificate
they belong to. Serials that nothing holds are reused, so that the clock and the
number of renewals need no bound; `age` counts up to `Life`. A command loads chain
and key in two steps, decides, orders, and saves in three. An order names the
serial it gets; the CA's advice is one of `reached`, `ahead`, `unavailable`. The mapping to
`CertificateSlot`: the slot holds a certificate while chain and key fit (`Whole`), and a fetch
that has read the chain will be answered with it while the key beside it fits (`Seen`).

**Account.** `accountKey` and `accountMeta` are the files, `registered` counts the
registrations at the CA. A command of `CertStore` starts when the key exists, as
`cmdObtainOrRenew` does, and fails later when the account does not load; without one
the CA's advice is unavailable. One `register` runs at a time.

**ZoneLock.** An order goes through `Acquire`, then lego's `Present`, `Validate` and
`CleanUp` (external: modelled from what `Obtain` relies on), then the deferred
release. A TXT record holds the value of the order that wrote it last. Each process has
locks of its own, and orders may share any of their names: what the lock sees of that is
the first name within one process, and `Unseen` names the rest.

**BrokerAPI.** Handlers whose outcome depends only on state that cannot change
while `serve` runs (its configuration, its revocations) are one action; enrolment
is two, because the token's claim comes first and a crash can follow. `arrives`
says whether the answer reached the host. `Issue` takes any request of `CSRs` and
orders what the request says, so that the check stands between the two. Lifetimes are the time left, `caLeft`
and `ident[h].left`. A host stands for its device key. `entitled` observes whom an
operator let be which agent: by a redeemed token, or by a device key in a
configuration `serve` was started with. `Lower` is `NormaliseName`, which `verifiedAgent` applies
to the name in a certificate and nothing else to any name. Malformed requests, bad CSRs, the refused
request to sign the device key, and failing orders change nothing and are left
out. `revoke` and `restore` run while `serve` is down here: `Registry` covers the rest.

**AgentHost.** `key` and `crt` are the identity's files, each with the serial of the
identity it belongs to; `ca` and `deviceKey` say that those files exist. `LoadIdentity`
is called from four places, and `why` remembers from which: `ensureIdentity`, `enrol`
with a token, the end of `SaveIdentity`, and once more after a new identity. An
identity may be old when it arrives (`StartAges`), because it is backdated and may
be configured to live for minutes. `torn` observes that a save stopped after its
first write. The steps of `run` after the identity are one action, `UseIdentity`, and
a module of their own.

**Deploy.** `targetKey` and `targetCrt` are the target's files, `served` what the service has in
memory. In share mode a run collects what the broker has, in issue mode a
certificate for a key made in that run. The reload command may work, fail, or exit 0
without effect; the service may restart on its own and read what it finds.
`reported` and `cutShort` observe that a run failed or died since the last write began.

**Review.** `held` is what the host has left, `recorded` what `serve` believes; they part
when an answer is lost. `check` is another process and reads `agents.json` (`fileSeen`,
`fileExpires`), which falls behind when a save fails (`saved`), since the handlers only log
that; a restart of `serve` then forgets what was not saved. `signed` observes the identity
signed last. A lifetime as written is a record of what its parts
denote (days, remainder, sign) and `Parse` adds them up with wrap-around. Time is kept as
what is left or has passed, so the model runs for ever. `warned` and `excused` observe
whether the operator was told and whether the broker could have known.

**BrokerState, Backup.** `disk` holds every file, `None` when missing. Two files that
belong together carry the same number: a root's, or a root and a serial for the
endpoint's pair, so that who signed a pair is visible. Any process may be first and
create the CA: `OpenOrCreate`, `CreateKey`, `CreateCertificate` are the steps of `serve` and of
a command alike. `brokerServerCertificate` uses the operator's pair if one is configured (`tls` is
`None` then: who signed it is not known), else a stored pair that loads, else makes one; `Refuse`
is a configured pair that does not load, or a `listen` that names no host to make one for, after
which `serve` exits. `Backup` lists one directory after the other and reads file by file,
then writes the archive; a restore writes entry by entry, in the archive's order. What is
left to read or to write is a set, of which `First` picks the next file in the order of the walk.
`promise` observes what was in place when a backup began, `due` what a completed restore
owes, `cut` and `replaced` that a restore broke off or went over other state. Operating
rules the code does not enforce, and the model assumes: one process at a time while there
is no CA (`MayOpen`), `revoke` while `serve` is down, nothing started during a restore.

## Runs

Passing runs, one per module:

| Run | Shows | Bounds |
|---|---|---|
| `token_store` | `SingleUse`, `RedeemedInTime`, `ClaimsHeld`, `OnlyStaleRemoved`, `RecordsDrain`, and the refinement of `OneTimeToken` | one token, two redemptions of it racing the pruner, one crash or failed write at any step, a clock that outlasts validity and retention |
| `registry` | `RevocationHonoured`, `RevocationStored`, `OnlyRevokedRefused`: revocations hold exactly as long as they should | `Exclusive`; a damaged file and a failed save can meet |
| `rate_limiter` | `MemoryBounded`, `AtMostTwice`, `NoLockout` | more hosts than the table has rows, so it does fill; nothing stops a behaviour |
| `cert_store` | `OrderedOnlyWhenNeeded`, `OneAccount`, `ExpiredIsReplaced`, and the refinement of `CertificateSlot` (`ImplementsCertificateSlot`) | one command, one fetch, one `register`, one save (of a certificate or of the account) that stops half way; serials for one stored, one half-saved and one new certificate |
| `zone_lock` | `RecordsSerialised`, `OrdersEnd` | a name and its wildcard in one process, and a name that is the first of one order, the second of another, and ordered by a second process too: four orders |
| `broker_api` | `Provenance`, `RevokedGetsNothing`, `DeliveredAsPermitted`, `IssuedAsConfigured`, `OutlivedByCA`, `AlwaysAWayBack` | every request over three names, a second spelling of one, a name that is empty once normalised, and a non-DNS identity; three agents, two of them told apart by a capital only (`web`, `Web`), with different modes, lifetimes and ways in, two hosts, one token, two configurations that move a device key from one agent to another, a CA that ends after three ticks |
| `agent_host` | `IdentityWhole`, `MintsOneIdentity`, `WorkingIdentityKept`, `ComesBack` | one command at a time, three identities (two on disk, one arriving), one of them due on arrival, one death or failed write at any step; time and the number of commands are unbounded |
| `deploy` | `StaleServiceReported`, `ReachesService`, `QuietWhenCurrent` | four certificates (broker, files, service, run), two faults, so that a failed deployment can fail again; both modes, with and without a check |
| `review` | `LockoutAnnounced`, `NoFalseAlarm`, `LockoutNoticed`, `SignedAsWritten` | one agent (they do not influence each other); any answer lost, any save failed, any number of restarts; lifetimes unset, unlimited, with and without days, zero, negative and wrapping, for the agent and for the broker; an integer range of 32 that a number of days leaves; thresholds in the code's proportions |
| `backup` | `ArchiveTruth`, `RestoreBringsBack`, `KeysKept`, `EndpointVerifies`, `ServeComesUp` | one archive, one token, one agent, and two faults among deaths, failed writes and lost disks: a disk is lost and the restore, or the serve before it, dies as well; any start of `serve` with or without a pair of the operator's, or with a configuration it refuses |

Every module also states the type of its variables, as `TypeOK` or under a name that begins
with the module's part. It is proved for the token store, the registry, the API, the agent's
identity, the certificate store, the zone lock and the review, as the first conjunct of
their inductive invariants, under the assumptions of those theorems. In the other modules it
can be checked by adding it as an `INVARIANT` to the configuration.

Runs that refute a statement of the repository (`PROJECT.json`, "findings", quotes it):

| Run | The statement fails because |
|---|---|
| `registry_live_revoke` | `serve` never reads `agents.json` again |
| `agent_host_token` | `enrol -token` stops at any identity that loads, expired or not |

Several properties are conditional, and the conditions are not padding: without
them the code does not have the property. `ExpiredIsReplaced`
speaks of the time before the first save that fails half way, after which the old
chain lies beside a new key, `Load` fails, and no command, forced or not, replaces
the pair. `IdentityWhole` and `ComesBack` exclude a torn save of the identity for the
same reason: `run` reports a broken identity and does not ask again (`enrol` with the
device key repairs it). `StaleServiceReported` excludes a run that died between
writing and reloading. `NoLockout` is about a host for which the others do not keep the
table full for ever. `LockoutAnnounced` excludes a lost answer, after which the broker
believes in an identity nobody holds; `LockoutNoticed` says that even this comes to light. It
excludes an `agents.json` that knows that the host was seen and not when its identity ends (a
first save failed, `serve` restarted, a later save went through), of which no check can warn. It
also asks that `check` run more often than an identity lives: where a short lifetime is
inherited from the broker the threshold is not scaled, and no check may come in between.
`NoFalseAlarm` excludes that inherited lifetime and an expiry that `serve` could not save.
`ClaimsHeld` ends with the first fault. `RecordsSerialised` excuses a record that an order
spoiled which the lock does not see, and `RevokedGetsNothing` a name revoked in another
spelling than the lower-case one. `EndpointVerifies` excludes a restore that broke off or went
over other state, after which `serve` uses a pair of another root, and a pair of the operator's;
`ServeComesUp` counts a refused configuration as an answer, and excludes a torn CA, after which
every command refuses to open the broker: that is why the run `backup` does not check deadlock.

Smaller things seen while modelling, without a run of their own:

- `serve`'s next save erases a revocation made beside it, so that even a restart does
  not bring it back (`registry.go:491`); `RevocationStored` fails without `Exclusive`.
- Renewal never looks the agent up, so one taken out of the configuration goes on
  renewing its identity (`handlers.go:354`; the comment at `handlers.go:393` says that
  it cannot get there). It gets no certificates (`DeliveredAsPermitted`).
- A write that fails after a token's claim leaves a `.claiming` file and no redeemed
  record (`store.go:128`; `token.go:102` says the record is kept). A removal that fails
  leaves the file after a redemption that succeeded (`store.go:131`); nothing ever lists it.
- The limiter's window is fixed at the first attempt, not sliding (`ratelimit.go:43`),
  hence "twice" in `AtMostTwice`.
- "Key first: ... a stale key alone is harmless" (`certstore.go:129`, `identity.go:183`,
  `deploy.go:190`) holds for a first save only; a fetch between the renames is
  answered with an error.
- The zone lock is one process's own: `serve` and `renew` are not serialised.
- `challengeTarget` takes the lock's key from the first name of an order only
  (`issuer.go:234`), so two orders that share another name run at once and overwrite each
  other's challenge record, though "work competing for the same DNS challenge record is
  serialised" (`issuer.go:156`). The run has such orders, in one process and in two, and
  without the excuse `Unseen` in `RecordsSerialised` TLC shows the collision.
- `verifiedAgent` lowers the common name (`server.go:344`), but configuration, tokens,
  revocation and signing keep the spelling: an agent configured as Web is looked up as
  web, is refused its own certificates, gets those of an agent web if there is one, and renews
  as web, which a revocation of Web does not stop (`registry.go:498` says that a case difference
  must not create a second identity). The run has both spellings; `Provenance`,
  `RevokedGetsNothing` and `DeliveredAsPermitted` say what is left: names are confused with
  their lower-case form and with no other, and a revocation in lower case stops both.
- Two first commands can each create a CA, and the files of the two mix; a crash between
  `agent-ca.key` and `agent-ca.crt` leaves every later command refusing; and any command,
  `check` too, makes a new root on a disk that was lost, after which a restore needs
  `-force` (`agentca.go:172`).
- The endpoint's certificate lives 365 days and is never renewed, nor is it asked who
  signed it (`broker.go:202`).
- With `listen: ":8443"` and no `server_cert`, as in the shipped `examples/config.yaml`, `serve`
  refuses to start until there is a `broker.crt` (`broker.go:207`).
- A crash between `account.key` and `account.json` leaves `register` answering "already
  stored" and every order failing (`main.go:189`, `account.go:112`). Two `register` commands
  at once overwrite each other's files.
- `check` scales its threshold to the agent's own lifetime only (`registry.go:422`): under a
  short broker-wide `identity_lifetime` it reports a host that has just enrolled as about to
  lock itself out, which the comment at `registry.go:459` says was fixed; and a broker-wide
  "unlimited" is never reported.
- A save that fails after an identity was signed is only logged (`handlers.go:122`,
  `handlers.go:364`). Until the next save `check` goes by the old expiry and reports a host that
  has just renewed; if it was the first save and `serve` restarts before the next, the
  expiry is forgotten and no lockout of that identity is announced.
- A day count whose nanoseconds do not fit wraps around (`lifetime.go:126`): "213504d" is
  accepted and means some 25 minutes.
- A backup that is killed while it writes leaves a truncated archive that `backup-info`
  calls restorable and that `restore-backup` stops half way through. A token redeemed during
  the walk can be in both `pending/` and `redeemed/` of the archive; a certificate renewed
  during the walk can be archived with its old chain and its new key.
- A restore removes nothing: tokens issued since the backup stay. One that breaks off
  before `agent-ca.crt` is followed by a second root beside the restored endpoint pair if
  `serve` starts, and one run beside `serve` is undone by serve's next save of `agents.json`.
- In issue mode every run of the agent orders a new certificate, writes and reloads;
  "Nothing happens when nothing changed" (`cmd/flying-certs-agent/main.go:11`) is true
  of share mode, which `QuietWhenCurrent` is about.

The bounds are small because the code treats tokens, agents, hosts and
certificates alike: an error needs at most two of each and one more actor than
the mutual exclusion it breaks. Two tokens share nothing but the pruner's listing,
so one is enough for what races on its files; the theorems cover any number.
In `backup` two faults are what it takes to lose a disk and have the recovery fail too.
`MaxTime`, `MaxIssueTime` and `MaxFaults` are the only counters that stop a
behaviour; the other models run on for ever.

### Fairness

- `TokenStore`: time passes, an accepted request runs on, and the ticker goroutine
  of a running broker keeps firing. Nothing obliges anyone to issue or redeem, and
  nothing keeps the broker from dying.
- `RateLimiter`: time passes, and each host retries, as the agent's timer does.
- `CertStore`: time passes, the systemd timer keeps starting `renew`, a command that
  runs goes on, and the CA does not refuse every order for ever (strong fairness
  of the order that succeeds).
- `ZoneLock`: an order at work goes on, and `sync.Mutex` does not starve a waiter
  (strong fairness of `Acquire`; Go's mutex switches to hand-off after 1 ms).
- `AgentHost`: the timer keeps starting `run`, also when an operator's commands come in
  between (strong fairness), a command goes on, and the broker does not refuse the device
  key of every run for ever. `agent_host_token` adds an operator who keeps trying.
- `Deploy`: the timer keeps starting runs that get an answer, and a run goes on.
- `Review`: time passes and the operator's timer keeps running `check`.
- `Backup`: the service manager starts `serve` again whenever it is down, also when
  restores and other commands come in between (strong fairness of opening), and what runs
  goes on. Nobody is obliged to back up or to restore.
- `BrokerAPI`: a host with a device key asks on every run of its timer, and some
  answer reaches it. Nothing is assumed of the operator or of `serve`.

## Proofs

Every invariant, action property and refinement that a passing run checks is proved for all
values of the constants; liveness is not (see the end). Hardly any invariant is inductive as it
stands; what each proof adds is said here.

**Token store** (`TokenStoreProofs`): `TypeCorrect`, `RedeemedAtMostOnce`,
`RedemptionsAreInTime`, `ClaimFilesAreHeld`, `PruneRemovesOnlyStale`,
`StoreImplementsOneTimeToken`. Nothing in `grants[t] <= 1` excludes a second handler about to
finish. The invariant adds where a token can be: in one place at a time, held by one handler
at most between claim and end, and a granted token nowhere it could be claimed from. The
same invariant makes every file operation a step of `OneTimeToken` or a stutter, under the
mapping `StatusOf`. `PruneRemovesOnlyStale` needs more: a stale token that was judged before it
expired can be redeemed between Prune's listing and its removal. `DoomedAreStale` follows it
there: whatever is doomed is stale in `pending/`, in `redeemed/` and in the hands of the
handler that holds it, because the copy the handler read is the record it claimed
(`CopyIsTrue`) and a redemption is stamped inside the validity.

**Registry** (`RegistryProofs`): `RevocationIsHonoured`, `RevocationIsStored`,
`OnlyRevokedAreRefused`, assuming `Exclusive`. The invariant says that the file, serve's copy
while it is up and the copy of the one command that runs agree with `ruled` on who is
revoked, and that processes do take turns.

**API and limiter** (`BrokerAPIProofs`): `IdentitiesHaveProvenance`, `RevokedAgentsGetNothing`
and `DeliveriesArePermitted`, up to the case of a name, `IssuedForConfiguredNames` and
`IdentitiesEndWithTheCA`, for any names and spellings; all that is used of `Lower` is that it is
idempotent. A renewed identity has the lower-case form of a name its host was let be, and
renewing it again leaves it so.
That certificates are ordered for the configured names rests on the lemma `CheckIsExact`: a
request passes the check exactly when its names, common name included, normalise to the
permitted ones. The invariant adds that a host in the middle of an enrolment is entitled to the
name on the token (`ClaimsEntitled`), that every token out there has a name (`TokensNamed`), and
that the device keys `serve` loaded are entitled (`KeysEntitled`). `LimiterMemoryIsBounded` rests
on the lemma `AllowBounded`: Allow leaves the keys of a table alone, drops some, or adds one where
it has just counted that there is room. `AdmittedAtMostTwiceTheLimit` needs a host's history
cut in two (`HostInv`): of a host with a bucket, all admissions but the newest n, n being the
bucket's count, came before the bucket was opened, and all but the newest n + `Limit` are older
than the window (`Counted`); of a host without one, all but the newest `Limit` are (`Quiet`). When a
bucket is older than the window the first says what the second does, so that evicting, pruning
or reopening it loses nothing.

**Agent** (`AgentHostProofs`): `OneIdentityPerCommand`, for any number of commands at once: a
command that may still ask has been given nothing yet, which depends on who called
`LoadIdentity`. `StoredIdentityIsWhole` and `WorkingIdentityIsKept`, assuming one command at a
time (`OneCommand`): the first adds where a save stands, and that an identity in use was loaded
together with the CA, so that a renewal, which stores no CA, does not need to; the second that
from the decision to ask until the first write the stored identity is missing or due, and
stays so because it only grows older. `StaleServicesAreReported`: the invariant says of
every difference, between the two files and between file and service, whose business it is
(`DifferenceIsTold`), because a service that restarts between two writes reads a pair that
does not fit.

**Certificates and account** (`CertStoreProofs`): `StoreImplementsCertificateSlot` and
`AccountIsKept` for any number of commands and fetches. Under the refinement each rename and each
read of a file is a step of the slot or a stutter: it needs that a certificate being saved
has a serial no file and no reader holds yet (`Fresh`), or a key written under a fetch could
happen to fit the old chain, and that a fetch under way has read a chain (`Holding`).
`ServedPairsMatch` follows from the slot alone. `OrdersAreNeeded` assuming one command at a time
(`OneCommand`), without which another command replaces the certificate between decision and
order. `AccountInv`: metadata belong to the key beside them, and a `register` under way has found
the place empty and not filled it yet; `DecisionHolds`: what a command read and decided is
still true when it orders.

**Zone lock** (`ZoneLockProofs`): `RecordsAreSerialised`, for any orders in any number of
processes. The invariant: whoever works on a challenge holds the lock of its target
(`WorkersHoldLock`), and what an order presented for its earlier names is still there, or was
spoiled by an order the lock does not see, while it presents the later ones
(`PresentedStays`). `WaitersWaitForWork`:
the holder of a lock is another order, at work, so that no order waits for itself, for a
waiting one, or for a lock that a failed order left behind. It is the safety half of
`OrdersEnd`.

**Review and lifetimes** (`ReviewProofs`): `LockoutsAreAnnounced`, `AlarmsAreTrue`,
`LifetimesAreAsWritten` and `ParseIsExactInRange`, for every set of texts, every width of a duration, and every
threshold up to a third of the default lifetime (5 and 30 days in the code).
`ParseIsExactInRange` is arithmetic: product, sum and negation each shift the value by a multiple
of the integer range, so that a value inside it comes out right even if a step wrapped.
`NoticeAhead` adds up the time since the last check and what is left of the identity: as long as
nobody was warned, the sum is at least the threshold (at that check it was not reached) or the
lifetime (that check came before the identity was signed), so the next check comes in time. It
needs that what `agents.json` has keeps up with what the host holds unless an answer was lost:
it is never the later of the two, failed saves and restarts included (`RecordKeepsUp`), and that
an identity has the lifetime that is configured (`LifeAsConfigured`).

**Broker state and backup** (`BackupProofs`): `ArchivesAreTrue`, `RestoresBringBack`,
`EndpointsVerify`, `KeysAreKept`, for any number of faults. The invariant has five groups: a
process that opened the CA has in memory what is on disk, and one that makes it is alone
(`CAInv`); `serve` has a pair of the CA it opened and knows of a revocation (`ServeInv`); a
restore runs alone, has written what it passed, and, unless it is forced, finds of the files
that matter only what it would write itself, also after others broke off (`RestoreInv`);
without a CA key, what lies there of CA and pair came from the archive, a pair is of the CA
beside it, and what a restore owes stays (`FilesInv`); and what was in place when a backup
began stays, and has been read or is still ahead of the walk (`BackupInv`). Of the pair the
last one says that its CA is read after it, so that an archive with a pair has its root too.

The proofs use the named assumptions on constants of each module, which TLC evaluates in
every run, and the ones named above: `Exclusive` and `OneCommand`. Both of them hold in the
instances that are checked. The theorems hold for any sets of tokens, handlers, agents, hosts,
certificates and configurations, and any bounds.

Only model-checked: liveness (`RecordsDrain`, `NoLockout`, `ExpiredIsReplaced`,
`OrdersEnd`, `AlwaysAWayBack`, `ComesBack`, `ReachesService`, `QuietWhenCurrent`,
`LockoutNoticed`, `ServeComesUp`), which is out of the prover's reach.

## Not modelled

The audit log and log redaction (output nothing reads back), `keyfp` (an encoding),
YAML parsing and the checks of single configuration fields, the test CA, file modes and
sizes, and what commands print (`list`, `status`, `fingerprint`; `agents` is the command that
only looks). TLS itself is taken at its word: who presents a certificate holds its key.
lego, the CA and DNS are external. Two `keygen` commands that both find no device key, of which
the second replaces a key whose fingerprint was already printed, are one step each here. The certificates in a backup are left out of
`BrokerState`, to keep it small; so is lifting a revocation there, which `Registry` has.

## Plan

Done: token store, registry, limiter, certificate store, zone lock, API, agent and
deployment first; then the broker's own state with backup and restore, the ACME account,
the name check, lifetimes and the review; then the proofs of their invariants, action
properties and refinements. Next:

1. `AgentHost` composed with `BrokerAPI`: the broker's refusals as they are, instead of any.
2. The certificates as files of `BrokerState`, with a renewal during the walk.

Runs are kept few, one per module and question: a new module takes the place of a
refuting run whose statement the README can carry, or shares a run with the module it
extends.
