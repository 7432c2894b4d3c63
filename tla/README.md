# A TLA+ verification of the Agent Enrollment Protocol library

This directory models the Python implementation of the Agent Enrollment Protocol (AEP),
`src/src/agent_enrollment_protocol/`, in TLA+. The models are checked on small instances
with TLC, and their safety properties are proved for every value of the constants with
TLAPS. Paths below are relative to that package unless they begin with `src/`.

## 1. The system

An *Agent* enrolls with a *Service*, identified by a DID and a client assertion (a signed
JWT) that accompanies every command. A *Platform* may host the Agent's identity and sign
for it. All three sides are `asyncio` programs: within one process steps interleave exactly
at awaits, and every object that keeps state guards it with an `asyncio.Lock`.

| Component | State | Operations | Interacts with |
|---|---|---|---|
| Service commands (`service/service.py`, `Service`) | none of its own; configuration | `enroll`, `status`, `grant`, `revoke`, `authenticate_protected_resource` | the stores, the assertion verifier, the enrollment policy, the Grant Type handlers: all awaited callbacks |
| Idempotency store (`service/stores.py`) | `_records`, `_pending` (an event per running key) | `execute(value, operation)` | runs the command's stored operation as a callback, outside its lock |
| Replay store (`service/stores.py`) | `_records`: identifier to expiry | `consume(record, now)` | called after the verifier with a clock reading made before it |
| Enrollment store (`service/stores.py`) | `_records`, `_pending` (an event per Agent) | `find`, `find_or_create(did, create)`, `save` | runs the enrollment factory outside its lock; the application saves into it |
| Credential store and stored Grant Types (`service/credentials.py`) | `_records`: credential, owner, digest, expiry, revocation | `save_credential`, `authenticate_credential`, `has_credential_presentation`, `revoke_credential`, `revoke_grant_type` | the application's issuer; the digest of a Basic credential runs in a thread |
| Platform (`platform/platform.py`) | none of its own | provision, list, update and sign identities, verify assertions | identity, idempotency and replay stores, key store, the application's policies |
| Platform stores (`platform/stores.py`) | identities; `_records`/`_pending` | `find_or_create`, `update`, `execute` | as the Service's stores |
| Agent client (`agent/client.py`, `Agent` and `ServiceSession`) | per session: the resolved identity, whether an active enrollment is authoritative, its inspection and identity locks; per Agent: an identity lock | `inspect`, `identity`, `enroll`, `status`, `wait_for_active`, `grant`, `revoke`, `authentication_headers`, `forget_credential` | the transport, the identity provider, the stores, the inspect cache |
| Agent stores, transport (`agent/stores.py`, `agent/transport.py`) | credentials and identities by Service; cached Inspect documents | find, save, delete; bounded and conditional requests | the client |
| Protected-resource client (`agent/protected_resource.py`) | locals of one fetch | `fetch` with redirects, challenges and authenticated retries | client, transport |
| Platform provider (`agent/platform_provider.py`) | the cached discovery document and its locks | discover, find, get or create, sign in stages | Platform over HTTP |
| Pure code (`core/`, `platform/document.py`) | none | models, validation, OpenAPI matching, `did:web`, JWTs, headers | used by all |
| Document reader (`agent/documents.py`) | none | one bounded read of a Service's document | the transport |
| ASGI adapter (`adapters/asgi.py`) | none between requests | routing, body limit, authentication of protected resources | Service |

What is hard here, and hard to test:

* **Awaits between a read and the use of what was read.** The Service reads the clock before
  it awaits the verifier, the enrollment record before it awaits the policy, the enrollment
  before it awaits the issuer; the Platform reads an identity's status before it signs.
* **Single flight.** Two stores run a caller's operation outside their lock and make others
  wait for an event. Failures and cancellations must neither run it twice nor leave a waiter.
* **Boundaries of time.** The retention of responses, the expiry of assertions with their
  tolerance, and the expiry of credentials are tested with `>=`, `<=` and `>` against clock
  readings that arrive in another order than they were made.
* **Calls that are lost or late.** An answer of the Service can fail to arrive, or arrive
  after the answer to a later command; the Agent writes what it learned from each.
* **Caches renewed by several tasks.** Two tasks can find a document expired and renew it;
  the one that asked first may be the one that stores last.
* **A loop the other side drives.** Redirects and challenges send a fetch round again, with
  credentials that belong to one origin.
* **Long sequences.** Grant, Revoke, Grant of the same identifier; Enroll after a change of
  the requirements; a retry after the retention.

What makes each part correct: an idempotency key stands for one execution and one response;
an assertion identifier is used once while it is valid; an Agent has one enrollment, whose
identity does not change and whose lifecycle belongs to the application; a credential
belongs to one Agent and stays revoked; the requirements of a Service hold for what it
stores. On the Agent's side: a session keeps to one identity; a Revoke leaves nothing behind
that it revoked; a document that has expired is not used; a credential is sent only where it
belongs; no stage of a sign request is answered by the stage before. `PROJECT.json` lists every hazard at its line with the properties that cover it.

## 2. The modules

| Module | Models | Proofs | TLC |
|---|---|---|---|
| `IdempotentExecution` | what an idempotency store promises (abstract) | | |
| `Idempotency` | `MemoryIdempotencyStore.execute`, and the Platform's copy of it | `Idempotency_proofs` | `MCIdempotency` |
| `AssertionReplay` | `_authenticate_assertion`, `_valid_assertion`, `MemoryReplayStore` | `Assertion_proofs` | `MCAssertionReplay` |
| `Enrollment` | the stored operation of Enroll and `MemoryEnrollmentStore` | `Enrollment_proofs` | `MCEnrollment` |
| `ServiceCredentials` | Grant, Revoke, protected-resource authentication and `MemoryServiceCredentialStore` | `ServiceCredentials_proofs` | `MCServiceCredentials` |
| `ServiceHttp` | a request through the ASGI adapter, the assertion, the idempotency store and the operation: the composition of the four above | `ServiceHttp_proofs` | `MCServiceHttp` |
| `Platform` | `provision`, `sign`, `update_identity` and `verify` of the Platform with `MemoryIdentityStore` and its `MemoryReplayStore` | `Platform_proofs` | `MCPlatform` |
| `AgentSession` | the commands and headers of `ServiceSession` with `Agent`, its stores and a transport that loses and delays | `Agent_proofs` | `MCAgentSession` |
| `DocumentCache` | a cached discovery document: `_inspect` and `_discover` with freshness and renewal | with `PlatformProvider` | with `PlatformProvider` |
| `PlatformProvider` | `PlatformIdentityProvider`: find, get or create, sign in stages; extends `DocumentCache` | `PlatformProvider_proofs` | `MCPlatformProvider` |
| `OpenApi` | matching of paths, their specificity, security requirements | with `ProtectedFetch` | `MCProtectedFetch` |
| `ProtectedFetch` | `fetch_protected_resource`; extends `OpenApi` | `Agent_proofs` | `MCProtectedFetch` |
| `ServiceIdempotency` | `ServiceHttp` with history variables, as a refinement of `IdempotentExecution` | `ServiceHttp_proofs` | |
| `PlatformIdempotency` | `Platform` with history variables, as a refinement of `IdempotentExecution` | `Platform_proofs` | |
| `NoValue`, `AuthenticationMethods` | Python's `None`, and the methods that `AgentSession` and `ProtectedFetch` share | | |

Code that keeps no state is modelled by operators, in modules without variables. Their
properties are named assumptions of an MC module, which TLC evaluates over sets of inputs
before the first state of the run (section 3).

| Module | Models | Evaluated in | Proofs |
|---|---|---|---|
| `ProtocolModels` | which combinations of members the models of `core/models.py` accept | extended by the next, and by `PortableDocuments`, `AgentChecks`, `PlatformDocuments` | |
| `ServiceConfiguration` | what a Service accepts as its options, and the Inspect document it publishes | `MCServiceHttp` | `ServiceHttp_proofs` |
| `ClaimLimits` | the walk over claim values with its limits | `MCServiceHttp` | |
| `Urls` | every test of a URL, an origin, a resource and a `did:web` DID | `MCProtectedFetch` | `Assertion_proofs` |
| `ClientAssertions` | signing and verifying assertions, and what each party asks of one; extends `Urls` | `MCAssertionReplay` | `Assertion_proofs` |
| `AgentChecks` | Grant Type selection, Revoke selectors, credentials from response to header | `MCAgentSession` | `Agent_proofs`, but for the selection |
| `PortableDocuments` | reading a Service's document, with its bounds | `MCAgentSession` | |
| `PlatformDocuments` | options, discovery, DID documents and lists of a Platform | `MCPlatform` | `PlatformProvider_proofs`, but for the lists |
| `ProviderChecks` | what a Platform's client makes of those; extends `PlatformDocuments` | `MCPlatform` | `PlatformProvider_proofs`, the headers |

### Granularity

A *task* is one invocation of a method, or one HTTP request. A step is the code between two
awaits that can suspend. A lock section without an await inside is one step: an uncontended
`asyncio.Lock` is taken without suspension, and such a lock is never found taken. A lock
section with an await inside (`save_credential`, whose digest of a Basic credential runs in
a thread) excludes the other sections of the same lock, and is one step too; where others
wait for such a lock (the Agent's, a session's, a provider's), the lock is a variable.
Callbacks of the application (verifier, policy, issuer, signer, resolver, operation) are
suspension points with an arbitrary outcome, failure included. Cancellation of a task at an
await is an action (`Cancel`, `Fail`, `AdmissionFails`, `Abort`, `Abandon`, `GiveUp`).

### Idempotency and IdempotentExecution

`ready` is the head of the loop, `waiting` the event, `running` the operation outside
the lock. `Replay`, `Conflict`, `Claim` and `Wait` are the four ways through the lock
section, and each of them purges first (`Purged`). `Release` is the `finally` clause;
recording the response and releasing the key are one step because neither lock is
contended. The Service's clock stamps `created_at` and the store's clock purges: they are
one clock here. The input validation of `execute` is left out: its callers validate.

`IdempotentExecution` knows only who executes and which responses are remembered.
`Idempotency` implements it under `executing <- pending, memo <- records`.

### AssertionReplay

`Arrive` reads the clock into `arrived`. After any delay the task is refused by the verifier
(`VerifierRefuses`), refused by `_valid_assertion` (`Refuse`) or consumes its identifier
(`RefuseReplay`, `Accept`), the last three with the *old* reading, which also decides what
`consume` purges. `bound` stands for the tests on header, audience, issuer and resource,
which `ClientAssertions` spells out.

### Enrollment

`Find` is the first read; it refuses an incomplete first request. A first enrollment goes
through `Reuse`, `ClaimCreation` or `AwaitCreation` (the loop of `find_or_create`) and ends
in `Admit` or `AdmissionFails`; a repeated one waits for its policy in `updating` and ends in
one of the `Update...` actions, computed from the `snapshot` it found. `SetStatus` and
`RequireAgain` are the application's saves. A record keeps status, claims, acknowledged ids,
ids to acknowledge again, one flag for the three that the code treats alike
(`owner_action_required`, `requirements_pending`, `verification_pending`) and its creator,
which stands for `enrollment_id`, `created_at` and `since`.

### ServiceCredentials

A Grant goes `issuing` (the application's issuer), `saving`, done. A Revoke takes one step
of `revoking` for each Grant Type. A protected-resource request tries its methods one after
the other: `probing` (`has_presentation`), `matching` (`authenticate_credential`), then
`checking` (`_active`). `standing` is what the code looks at in an enrollment record:
`unmet` is active with a missing claim or document. A secret stands for the API key, the
token, or user name with password. Grants and Revokes here are past assertion and
idempotency.

### ServiceHttp

A task is an HTTP request, of which the module keeps what routing and authentication look
at: path, method, the fields that may be there several times, and what the body says.
`Receive` is `AepAsgiApplication.__call__` or the middleware up to its first await:
`ServeInspect`, `ServeCommand` and `ServeResource`. `ReadBody` and `Disconnect` end the
reading of a body; `Consume` and `Refuse` are the assertion; `FindStatus`, `FindSession`,
`CheckActive` the reads; `Enter` is the idempotency store. An operation is one step
(`EnrollNew`, `EnrollKnown`, `ExecuteRevoke`) but for a Grant, which reads the enrollment
(`ExecuteGrant`) before its credential is issued (`Issue`). `Fail` is an operation that
raises, a Revoke perhaps after part of its work. The parts appear by what their own modules
show: an assertion is consumed once, a key has one execution and its answer is kept, a
Revoke revokes all that it selects. The keys of the idempotency store are `Slots`; how
waiters are woken is left to `Idempotency`. A response is its status code and whether it has
content; for a command, also what the answer says. Options and documents are those of
`ServiceConfiguration`; `WithinLimits` is a constant, which the instance for TLC makes the
walk of `ClaimLimits`.

### Platform

A task is one request and stands where it is suspended: every one is `authorizing` first,
then `entering` (the idempotency store) or, for `update_identity`, `transiting`. A
provisioning goes on through `resolving` (the Service's DID), `locating` (the loop of
`find_or_create`), `creating` (generators and key store) and `storing` (the key has come and
uniqueness is tested). A signing goes through `deciding` (lifecycle policy), `handling` (the
sign handler, which may sign, defer, or leave it) and `signing` (the key store); a
verification through `deciding` and `verifying` (the key of the issuer). Requests wait only
in `entering` and `locating`. `snapshot` is the record that was read on arrival: `Arrive` and
`AskSign`, `AskUpdate`, `AskVerify` are the code before the first await, and what follows
decides by it, as the code does. `Raise` is the two `finally` clauses, on behalf of a
collaborator that raises, a cancellation or a collision of identifiers.

The Platform's idempotency store is the code that `Idempotency` models, so it appears here
as what `IdempotentExecution` says of it: `Enter`, `Replay` and `Conclude` are its
operations, and how a waiting request is woken is left to that module. Likewise a task that
waits for a pending creation keeps its place in `locating`. `agent_did_id` is determined by
the DID and shares its index; a `jti` stands for identifier and operation; an
identifier that is not in the replay store is one remembered until time 0. The
callers without principal or key and `hosted_verification=False` (refused at once) are left
out; what only reads is in `PlatformDocuments`. `Provisioned` is what an application finds in
its identity store when it starts. `issued` and `uses` are history.

### AgentSession

A task is a call of one of the Agent's sessions with a Service. It waits in `session` and
`agent` for the two locks of `_resolve_identity`, is `creating` or `finding` an identity at
the provider, and `ready` to sign; `probing` and `sent` are the await of the transport, for
the Status that a Grant asks for first and for the command. `mail` is what is in transit: a
request whose caller has timed out may still be served, and a lost request is one that
`Serve` never picks up. A Revoke lists what it selects (`ReceiveRevoked`) and deletes
it one by one (`DeleteOne`); other calls save and forget credentials meanwhile. `active` is
`_authoritative_active_enrollment`, set by whichever answer comes last. `headers` is
`authentication_headers` (`AskHeaders`, `SignHeaders`), `forget` deletes a stored credential,
`wait` is `wait_for_active`, which `GiveUp` ends anywhere. The Service
(`Decide`, `Issue`, `Withdraw`) is one step per request with a memory by key, and its
operator changes the Agent's standing. `seen`, `told` and `gone` are history. What a call
checks before its first await (the selection of a Grant Type, the form of a Revoke, the
credential of a response) is in `AgentChecks`.

### DocumentCache and PlatformProvider

A reader takes its lock, finds the entry and decides whether it is fresh (`Find`), and if not
asks the origin, conditionally on the version it found; the answer (`Respond`) may come from
a cache on the way and be old, with `Date` or `Age` to say so. `ReceiveDocument` stores it as
of the time the request *began*, or not at all; a 304 renews what was found (`Renewed`),
though another reader may have replaced the entry since. `Spoil` is an application's cache
whose entries fail the checks. `until` and `found` are history: when a version was replaced,
and how stale a returned one was.

`PlatformProvider` puts a discovery before every request (`Discover`, `Discovered`).
`AskFind` is `find_identity_by_service_did`; `AskResolve` and `Enter` are
`get_or_create_identity` under its lock, which provisions after a list without an active
identity. A signing goes `keying` (the application's key, which must not be the previous
stage's), `discovering`, `sent`, and for a pending answer `resolving`, then round again with
the resolver's context. The Platform answers once per key. The checks on the answers' content
are in `ProviderChecks`.

### OpenApi and ProtectedFetch

`Matches`, `Score` and `Higher` are the template matching and its specificity, `Effective`
and `PolicyMethods` the security requirements of the operation and their disposition.
`ProtectedFetch` is the loop: `Discover` is Inspect with the OpenAPI document of a target,
`SendAnonymous` the request that is meant to be challenged, `Authenticate` and `NoCredential`
the two outcomes of `authentication_headers`, `Grant` the Grant in between, and
`ReceiveAnonymous` and `Receive` what follows an answer, a challenge or a redirect. Origins
answer as they please. `Abort` is any failure and the timeout of the whole fetch. The
module's names differ from those of `AgentSession`, so that one proof module can extend both.
Where the code filters a list, `OpenApi` and `ServiceHttp` speak of the positions of what
it keeps (`Satisfiable`, `RecognizedIn`), in their order.

### ServiceIdempotency and PlatformIdempotency

`ServiceHttp` and `Platform` say what their idempotency store does in their own words: a
request enters, is answered from memory, or ends and is remembered. These two modules
justify that. They add what the store remembers with the request that computed it (`kept`)
and what it told each request (`told`), and state that every step is then a step of
`IdempotentExecution` (`ExecutesIdempotently`), the specification that the store itself
implements (`Idempotency`), and that the answer of a request is the one the store told it
(`RepliesFollow`). The history follows the steps and restricts none.

## 3. The runs

Each passing run checks all the properties of its module at once; `PROJECT.json` gives for
every property a plausible mistake in the code (`mutants`) that violates it. The mutated
forms are kept in the modules before the definition that they replace; nothing uses them.

| Run | Instance | Shows |
|---|---|---|
| `idempotency` | 3 tasks, 2 keys, 2 requests, retention 1, time 0..3 | single flight, one completion per retention, faithful replays and conflicts, refinement, every call returns |
| `replay` | 3 requests, 4 assertions of 2 identifiers, tolerance 1, lifetime 2, time 0..5 | single use while live |
| `replay_once` | 2 assertions | an assertion *is* accepted twice (see 5) |
| `enrollment` | 1 Agent, 3 executions, 4 requests, 3 decisions, 1 save by the application | one factory, sound records (complete claims, no invented status, no undeclared acknowledgement), one enrollment, undisturbed merge, every execution ends |
| `enrollment_lifecycle` | the same with 2 requests | a lifecycle change *is* overwritten (see 5) |
| `enrollment_echo` | the same without saves | a declaration *is* echoed without being stored (see 5) |
| `credentials` | 2 Agents, 3 tasks, 3 Grant Types (1 not configured), 2 identifiers, 2 secrets, time 0..1, 1 change of standing | unique secrets, justified authentication, complete revocation, final and by the owner only |
| `service` | 3 requests, 2 Agents, 2 keys, 8 assertions, the middleware and all commands, 1 change of standing | effects are justified by an assertion, happen once and are told alike; who is passed on was authenticated |
| `platform` | 3 tasks, 2 principals, Services, ids, DIDs and keys, lifetimes 2 and 3 with maximum 2, retention 1, time 0..2, material that collides | whole identity store, standing identities, justified answers, single acceptance of an assertion, no circular wait |
| `agent` | 3 calls of 2 sessions, 2 DIDs, 2 Grant Types (1 stored), 2 credentials, 1 key, lifetime 1, time 0..1, 1 change of standing | one identity, a Revoke forgets, answers are the call's own, no circular wait |
| `platform_provider` | 2 providers that share a cache, 2 keys, 2 stages, 2 versions of the document, time 0..2 | no document outlives its allowance, no stage is answered by the one before |
| `fetch` | 2 origins, 3 methods, 7 OpenAPI documents, 3 redirects | secrets stay home, the policy is respected, the fetch ends |

Besides, these runs evaluate the properties of the pure modules:

| Run | Assumptions | What is compared |
|---|---|---|
| `service` | `PublishedKept`; `LimitsExact`, `LimitsConfigured` | the document of every small configuration promises nothing it refuses; the walk over claims accepts exactly what is within the limits |
| `agent` | `SelectionsSound`, `RevokesSound`, `CredentialsServe`, `BoundsExact`, `ReadsSound` | the choice of a Grant Type, the forms of a Revoke, a credential from its response to the header it is sent in, the bounds of a document, the outcome of reading one |
| `replay` | `SigningSound`, `TakingSound`, `GivingSound` | what is signed verifies; what an Agent takes from its signer, its Service accepts in time; what a Platform gives, its client and the Agent take |
| `platform` | `TemplatesSound`, `EndpointsSound`, `PagesComplete`, `FindsSound`, `HeadersSound`, `KeysPublic` | document URLs agree with DIDs; published endpoints are usable; pages cover a list; the client finds the active identity within its limit; a command keeps its own headers; a DID document holds public keys only |
| `fetch` | `UrlsNormal`, `LookupsBound`, `DocumentsKept`, `ChecksTogether`, `RequestsBound` | comparison of resources, DIDs and origins; two DIDs share no key; the checks of a URL agree from one side to the next; a command goes to the origin it is for |

**Why the bounds suffice.** Three tasks are the least that let one hold a key, another wait
and a third come between the release and the wake-up; in `replay`, one that is slow, one
that uses the identifier and one that purges it; in `credentials`, one that grants, one that
revokes and one that authenticates with what they left; in `service`, one that grants, one
that repeats its key or its assertion or revokes, and one of any kind; in `platform`, one
that signs, one that verifies and one that verifies or replays, or two that provision with one
that updates; in `agent`, two calls of one session, which share a lock, and one of another. In
`platform_provider` two suffice, because the calls of a provider only meet at its lock and
those of two in the cache and at the Platform; a third version or reader changes no new
entry. In `fetch`, two origins are home and elsewhere, and three redirects lead away, back and
away again. Two keys, identifiers or Agents
show that operations on one leave the other alone. The clocks run long enough for a record
to be kept at the boundary, to expire and to be replaced: retention 1 in 0..3, lifetimes of
1 and 2 with tolerance 1 in 0..5, credentials that are over at 1 and at 2 in 0..1, assertions
that expire at 1 to 4 in 0..2, with answers remembered for 1, documents allowed for 1 and 2
in 0..2. The clock and the origin only move during two lists of `platform_provider` (`Timed`): caching
and signing do not read each other's state.
`Enrollment` has one Agent because no step reads another Agent's record; the proofs cover
any number. Every task runs once, so every run ends: deadlock is not checked.
Tasks are symmetric in `replay` and `platform`, tasks and Agents in `credentials`, DIDs in
`agent`, where only safety is checked; runs with liveness use no symmetry.

**Fairness.** `Idempotency!FairSpec` asks that a ready task eventually runs (the event loop
schedules every ready task, and `asyncio.Lock` is first-come-first-served) and that a running
operation eventually answers or fails. `Enrollment!FairSpec` asks the same of the loop of
`find_or_create` and of the policy. `ProtectedFetch` asks that every await of the fetch is
over at some time, be it by its timeout, `WF_fetchVars(Fetch \/ Abort)`; since `Abort` need never
be the one that happens, `FetchEnds` also holds for a fetch whose timeout never comes.
Nothing is asked of clocks, cancellations, new calls or the application's saves. An
operation that never returns blocks its key for ever; no timeout in the code prevents that,
which is why this is an assumption. `Platform` and `AgentSession` are checked for safety
only: with three tasks their state spaces leave no room for a liveness run, so
`HoldersProceed` says instead whom a waiting request or call waits for.

## 4. The proofs

All theorems hold for every number of tasks, keys, Agents, credentials and for unbounded
time (`MaxTime` is an arbitrary natural number). They assume what the modules' `ASSUME`s
say: `None` differs from the values it is put beside, bounds are natural numbers, requests
and credentials have their types; TLC evaluates each on every run. A theorem about a pure
module states its assumptions itself: the types of its inputs, over any set of texts.

* `Idempotency_proofs`. The inductive invariant adds to the checked properties that a
  task's answer, record and call belong together, and that a fresh completed response is
  still on record. That is the point of the retention: to complete again, a task must have
  found no record, hence the old one was purged, hence it was too old. `MutualExclusion`,
  `RunsOncePerRetention` and `ReplaysAreFaithful` follow; `Refinement` shows that
  each step maps to a step of `IdempotentExecution` or to a stutter.
* `Assertion_proofs`. `LiveUseRemembered` is what makes `SingleUseWhileLive`
  inductive: a purge with an old reading forgets less than one with the present time, so
  whatever was accepted and is live is still on record when the next request consumes. The
  second part is about `Urls` and `ClientAssertions`, for URLs, DIDs, identifiers and times of
  any value: resources have one normal form exactly if they are the same
  (`NormalFormsIdentify`), a Service is looked up and commanded at the origin it is bound to
  (`LookupsBound`, `RequestsStayAtHome`), two DIDs have no key in common
  (`DidDocumentsApart`), the checks of one URL by several parties agree (`UrlChecksAgree`);
  and what one party signs, takes or gives, the next one accepts (`SignedIsVerified`,
  `TakenAssertionsServed`, `GivenAssertionsTaken`), with the times by which their clocks may
  differ. They are proved by unfolding both sides' tests; what takes an argument is that a path
  is determined by its components (`DidDocumentsApart`) and that normalizing again changes
  nothing.
* `Enrollment_proofs`. The invariant adds that who is about to create supplied the required
  claims, that a factory runs only where no record is, and that the snapshot of an update
  has the creator of the present record, claims that were complete and a status that was
  given. From it: `OneFactory`, `NoLostWaiter`, `IdentityIsStable`, `MergeIsMonotone`, and,
  with `AcksGenuine` (records and snapshots acknowledge what was declared), `RecordsAreSound`.
* `ServiceCredentials_proofs`. The store only ever grows and revokes (`Evolves`), which
  preserves what the other tasks rely on (`OthersKeep`); each action then has to re-establish
  its own task's part. A Revoke keeps that every selected credential is revoked or of a type
  still to come; a request, that what was invalid when it came still is. All the safety
  properties of the module are proved, `RevocationStands` as an action property.
* `Platform_proofs`. The invariant has two layers. The first (`IInv`) says that each
  stage works on a request and a record of its kind, that records and indexes lead to one
  another, that only the holder of a pending scope makes keys for it, that holders of
  executions and creations are past their waits, and that a use whose assertion is live is
  remembered. It is inductive by itself and gives `StoreStaysWhole`, `NoCircularWait`,
  `AcceptedOnce` and `IdentitiesStand`. The second (`AInv`), proved with the first at hand,
  adds what a request has checked at its stage and that whatever is *remembered* is
  justified, which is what a replayed answer rests on; `AnswersFit` follows. On `IInv` stands
  `HistoryFits`: what `PlatformIdempotency` keeps is for the request whose answer is
  remembered, and who was told something is over. With it `PlatformExecutesIdempotently` maps
  every step to one of `IdempotentExecution`, and `AnswersFollow` holds;
  `EveryStepIsObserved` and `ObservedIsPlatform` say that the history leaves no step out and
  adds none.
* `PlatformProvider_proofs`. `CacheInv`, over the cache alone, says that versions were
  replaced one after the other, and that every entry and every answer in transit is `Known`: a
  version that its origin had when the answer was born, no older than its fields admit.
  `DocumentsServedFresh` follows by arithmetic. For `StagesNeverRepeat`, `StageInv` says that the
  Platform answered every stage of a signing once, under a key of that stage, that all but the
  last stage are over, and that an answer in transit is to the present key. Of
  `PlatformDocuments` and `ProviderChecks`, for options, records, keys and headers of any
  value: `TemplatesAgree` (a template that passes with the sample has its one place where
  every DID has its identifier, because two paths that differ in one component only differ
  there), `EndpointsServe`, `DocumentsArePublic` and `HeadersStay`.
* `Agent_proofs`. `Agreed` is the type with what a call's place says of its job, the
  Service's memory of what it granted and the mail that fits both; `ServiceGrows` says that
  nothing the Service remembers is taken back. On top of it stand `Replies` (who was told
  what, for `RepliesAreJustified`), `Held` (who holds a lock is inside its section, and no
  identity is stored while one is made, for `OneIdentityKept` and `NoCircularWait`) and
  `Forgetting` (a record has one place and its Grant is over; what a Revoke found and has not
  deleted is still to do, for `RevokesForget`).
  For `ProtectedFetch`, `Informed` says that the methods in use are all permitted by the
  document they come from, that leaving an origin is remembered by `requireChallenge`, and
  that a request for headers after leaving was preceded by a challenge; `SecretsKept` and
  `PoliciesRespected` follow. The latter needs that a template with the highest score is the
  one that is higher than all others (of two scores of one length that differ, one is higher,
  by the first difference), and that every alternative is a requirement of
  one scheme. Of `AgentChecks`: `RevokesAreSound`, and `CredentialsServe` from the response of a
  Grant through the record to the header.
* `ServiceHttp_proofs`. `Served` says what is known of a request at its place, `Alone` that
  accepted assertions are used and differ, `Kept` that who executes is the one in `running`
  whose key has no answer, that who was told an outcome was told the one on record, and that
  every effect has its record. `CompleteStep` is the heart: when a command completes, its key
  had no answer, so nobody was told anything about it, and no other execution runs under it.
  `PrincipalsAreJustified` needs `Proper`: a request for a resource that goes on presents one
  recognised thing, and the Agent found for it vouches for that (`Vouched`). `HistoryFits`, `ServiceExecutesIdempotently` and `CommandAnswersFollow`
  are as for the Platform, without expiry: the Service's clock is left to `Idempotency` here.
  `PublishedIsServed` is about `ServiceConfiguration`, for any options.

Every safety and action property that a passing run checks is proved. Only model-checked:

* `EveryCallReturns`, `EveryEnrollEnds` and `FetchEnds`, because liveness under fairness is
  out of the prover's reach.
* What is computed by recursion over data, for which there is no induction here: the walk over
  claim values (`LimitsExact`) and over the blocks of a document (`BoundsExact`,
  `ReadsSound`), and what `SelectSeq` or a sort makes of a list (`SelectionsSound`,
  `PagesComplete`, `FindsSound`).

Not checked by a run of their own are `ServiceIdempotency` and `PlatformIdempotency`: their
steps are those of `ServiceHttp` and `Platform`, which the runs `service` and `platform`
explore, and what they add is proved.

## 5. Where the code and its documentation differ

* **A replay after a slow verification** (`replay_once`). The second acceptance of an
  assertion needs a verifier that takes longer than the rest of the assertion's life. It is
  harmless for assertions that are still valid: `SingleUseWhileLive` is proved.
* **Lifecycle changes are lost** (`enrollment_lifecycle`). A repeated Enroll writes back the
  record that it read before the policy was awaited. The same window lets two repeated
  Enrolls lose one another's claims, which `UndisturbedMerge` therefore excludes.
* **An echo of what was not stored** (`enrollment_echo`). Of two first Enrolls, the one whose
  factory does not run is answered from the other's record with its own declaration.

Behaviours that no statement of the repository excludes, and that no property here claims:

* A Grant can save its credential after its Agent was suspended, or after a Revoke of
  everything has answered; an authentication that overlaps a Revoke may still succeed. A
  Grant that is retried with its key gets the credential it got before, revoked or not.
* The Platform signs and verifies by the status that it read when the request came, and a
  remembered answer outlives a suspension (`src/tests/test_platform_boundaries.py` expects
  the latter). Two updates allowed from one status both happen.
* A collision of identifiers, or a failure after the key was made, leaves a key in the key
  store that belongs to no identity: `IdentitiesComplete` asks only for the converse.
* The template of DID document URLs is tried with the identifier `validation` only: under a
  prefix with that component a template passes that is wrong for every identity (`UrlsAgree`).
* The provider looks among the newest 100 identities for a Service. Beyond them it finds
  nothing, and once the one identity of a scope is revoked, `get_or_create_identity` raises
  each time.
* The provider compares the next key of a signing with the previous one only: a key from two
  stages before is answered from the Platform's memory if the request is the same.
* The Service compares resources in a normal form, the provider and the Agent by their text.
  The Platform's sign request admits `https` resources only, so a hosted identity
  authenticates for no loopback resource.
* A bearer token that is not one visible word is stored and can never be presented
  (`SavedServes`). A bearer token with a comma is ambiguous in the dedicated field, and an API
  key whose value begins with the name of a scheme is refused in `Authorization`.
* A Grant whose Agent is pending for want of documents reports the missing documents in a
  problem that its model refuses, and so ends as a server error (`Fail`).

## 6. Not modelled

* **Bytes.** Cryptography, the encoding of JWTs, JSON, dates, the syntax of header values and
  the spelling of names and URLs. A text is one bit, whether its field's pattern accepts it;
  where a parser's verdict matters it is an input of a model. `Cache-Control` with a `max-age`
  that is no number counts as not fresh and is not distinguished from `no-cache`.
* **Scripts and packaging** (`src/scripts/`): the conformance adapter and the
  interoperability check drive the library from outside and keep no protocol state of their
  own.
* **The application's own storage.** The library ships stores in memory; what a database does
  between two of its calls, and a crash of the process, are the application's. Nothing here is
  persisted, so no module has a restart.
* **Liveness of the Agent and the Platform**, as said under *Fairness*.
* **Proofs about walks over claims, documents and lists**, as said in section 4.
