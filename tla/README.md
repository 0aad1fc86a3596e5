# A verification project for htownautos-backend

The repository is the NestJS backend of a car dealership: PostgreSQL through Prisma, Twilio for
telephony, Redis for presence, S3 for media, Cognito for sign-in. This directory holds TLA+ modules
that model its logic, TLC configurations that check them on small instances, and proofs checked by
TLAPS. Paths below are relative to `src/src/` of the repository unless they start with `prisma/` or
`scripts/`.

    tlc -workers 2 -config simulcall.cfg MCConferenceDial     # any row of "Runs"
    tlapm PartsStockProofs.tla                                # any module named ...Proofs

`PROJECT.json` maps every definition to the lines it models, and lists components, runs, mutants,
findings, hazards and theorems.

## What makes this program hard

One Node process serves every request. A handler runs alone between two `await`s and interleaves with
all others at each of them. Almost every operation has the shape *read a row, await, decide, await,
write a value computed from what was read*. Few of them use a transaction, and those that do have
their reads outside. So the questions asked here are always the same: what may have changed between
the read and the write, in which order may webhooks arrive, what is left when one of several steps
fails, and does what was started come to an end?

The modules share one way of writing this down. A handler that has begun is a record in a set (`tasks`,
`requests`, `req`, ...) with where it is and what it has read; one action is the code between two
awaits. Where no other handler can tell the difference, a handler is a single action. What the
database guarantees by itself (unique columns, foreign keys, cascades, transactions) is part of the
action that writes. What is outside `src/` (Twilio, Redis, S3, Cognito, MarketCheck, the callers and
agents) is modelled from how the code uses it, and marked external in `PROJECT.json`.

## Inventory

| Component | State | Operations | Module | What must hold |
|---|---|---|---|---|
| Conference dialling of agents (`phone-call`, `call-flow/twiml-generator`, `twilio/twilio-webhook`) | the `phone_calls` row, its JSON column `metaValue`; the legs at Twilio | TwiML of the dial, simulcall, round_robin steps; five webhooks | ConferenceDial | a waiting caller is served; answered means that an agent joined or the caller has left; the flow moves forward |
| Transfers of an answered call (`phone-call`) | one row per segment, the caller's leg | `transferCall`, the webhooks of each segment | CallSegments | segments form a chain; one segment's agent never ends another's conversation; a transfer settles |
| Call flow execution (`call-flow/twiml-generator`, `twilio/twilio-webhook`) | the flow, the caller's place in it, nested lists in `metaValue` | every step type, retries, the dial action | FlowRouter | every call goes the way of CallJourney, to its end; the agent who answers is credited |
| Recordings and transcriptions (`phone-call`, `phone-call/transcription`) | rows, background jobs | status webhooks, recording webhook, transcribe, resegment, edit, delete | CallLog | a transcription that begins ends; nothing waits for ever |
| SMS (`sms`) | messages, callbacks, what screens show | send, receive, status callback, edit, delete | SmsDelivery | delivered has a time |
| Presence (`presence`) | sockets, Redis keys and roster, a flag in the database | connect, join, leave, heartbeat, disconnect, any authenticated request | Presence | who is gone goes offline |
| Tenant membership (`tenant`) | `tenant_users`, `tenant_invitations` | add, update, remove, transfer ownership, invite, resend, revoke, accept, register | TenantMembership | one owner, who is active, as long as no stale check is acted on; active members have accounts; invitations are closed |
| Tenant profile (`tenant`) | tenants, usernames, e-mail addresses | create, update with a new subdomain, settings, username, delete | TenantProfile | addresses follow the subdomain |
| Phone numbers (`tenant`, `twilio/twilio`) | numbers at Twilio, their rows | buy, change, release, assign a flow | TenantNumbers | what is paid for has its row, and the other way round |
| Call flow administration (`call-flow`) | steps, cached speech | create, update, duplicate | CallFlows | what is stored can be carried out and heard |
| Roles and permissions (`roles`, `auth/guards`) | roles, permissions, holders | create, update, remove, assign; the guard | RoleAdmin | a role grants what it was told to |
| Sign-in and provisioning (`auth/guards/cognito-jwt`, `auth/cognito`, `tenant`) | users, accounts at Cognito | first request, invitation, registration | UserAccounts | a user comes to an account only by who claims it |
| Part categories, conditions, statuses (`parts`) | reference rows | create, update, delete; parts that refer to them | PartsCatalog | every part has a condition its tenant sees |
| Parts stock (`parts`, `vehicle/vehicle-parts`, `vehicle`) | `Part.quantity`, `vehicle_parts` | associate, create and associate, remove, adjust, sell, update, delete | PartsStock | stock is conserved, never negative, put back once |
| SKUs (`parts`, `vehicle/vehicle-parts`) | `Part.sku` | generate, type in, backfill | PartSkus | generated SKUs differ; a finished backfill is complete |
| Vehicle registry, titles, metadata (`vehicle`, `title`, `metas`) | vehicles, numbers, prices, titles, metas | create, bulk create, update, remove, title upsert | VehicleRegistry | both names of a price agree; no title without vehicle |
| Vehicle catalogue (`vehicle-year`, `-make`, `-model`, `-trim`) | a tree of four tables | CRUD, list that fills itself, yearly job, seed | VehicleCatalogue | no name twice, no vehicle left with a row that is gone |
| Nomenclators (`nomenclators`, `scripts/sync-body-*`) | body types and subtypes | CRUD, seed, scripts | Nomenclators | every term once |
| Upload sessions and media (`media`, `upload-session`) | S3 objects, rows, sessions | upload, presign and confirm, session, update, remove | MediaStore | a row has its file; a buyer's media are private |
| MarketCheck caches (`marketcheck`) | three tables with expiry | look up, drop, fetch, store | MarketCache | a fresh answer is never dropped |
| Auction listings, favourites (`marketcheck`, `favorites`, `scripts/*copart*`) | listings, lots, favourites | search, sync, import, image update, mark | AuctionListings | imports are complete; loops end |
| Audit log, expenses, titles (`common/interceptors`, `extra-expense`, `title`) | log rows, records | the interceptor around create, update, delete | AuditTrail | the entries add up to what is there |
| Buyers, tasks, notes, e-mail messages | rows and their references | CRUD, counters, reopening | BuyerRecords | references stay in the tenant; what is reopened is open |
| External data and outgoing mail (`copart`, `nhtsa`, `mail`, ...) | none | pass-through | | not modelled |
| Infrastructure (`prisma`, `app.module`, DTOs, docs) | none | wiring | | not modelled |

Components interact in four ways: through Twilio (TwiML in one direction, webhooks in the other: first
five rows), through a shared row (`phone_calls` in the first four, `tenant_users` in the tenant's),
through foreign keys (parts, vehicles, catalogue, media), and through the guard and the interceptor that
wrap every request. The hazards behind the last column, each at its line, are in `PROJECT.json`.

## Modules

### The conversation: ConferenceDial, CallSegments

**ConferenceDial** is an inbound call from its arrival to its end or first transfer, through the stages
of its flow. `Stages` is the flow: a `dial` or `simulcall` step is one stage with its number of targets,
and each destination of a `round_robin` step is a stage of its own, because each has its own attempt
index in the callback URLs.

* `row`, `meta` are the columns `status`, `answeredAt` and `metaValue` of the row. `meta` has the
  conference target, `agentCallSids` (a set: its order is only that of a loop) and
  `conferenceAttemptFailed`. Every handler that changes it takes a copy (`snap`) in one step and
  writes the *whole* copy back in a later one, as the code does.
* `caller`, `leg` are Twilio's call legs. `caller.req` numbers the TwiML requests, so that the answer
  to an outdated one has no effect. Both are external: modelled from the options the server passes
  (`endConferenceOnExit`, `statusCallbackEvent`, `timeout`, `action`).
* `tasks` are the handlers. One exists from the moment Twilio issues the webhook, so its first step
  stands for a network of any delay, and webhooks overtake each other: `FlowRead`/`FlowWrite`
  (`storeConferenceTarget`), `FlowAction` (`handleDialStatus`), `Dial...` (`dialAgentIntoConference`,
  `storeAgentCallSid`), `Join...` (`handleAgentJoinedConference`), `Term...`
  (`terminatePendingAgentCalls`), `AgentLeave` (`handleConferenceStatus`), `Status...`
  (`handleAgentCallStatus` with `removeAgentCallSid`, `didConferenceAttemptFail`,
  `clearConferenceAttemptFailed`), `VoiceStatus` (`handleVoiceStatus`). Of the caller's own statuses
  only the final one is modelled: the number is configured without `statusCallbackEvent`, and Twilio
  then reports nothing before the end of the call.
* `Env` switches the unkind behaviours of Twilio on: `rest_error`, `early_status` (a leg answers or
  ends before `storeAgentCallSid`), `late_action` (the dial action is requested for a caller who hung
  up, after the final status).

**CallSegments** is the transfers after that. Each transfer ends a segment (row, conference, agent) and
starts the next one, the caller's leg being the same throughout. `transferCall` is the five actions
`TransferRead`..`TransferStore`, in the order of its writes and REST calls. Here the update of one
row's `metaValue` is a single step (its races are ConferenceDial's), and the number of segments is
bounded by `MaxSeg`. `Env` adds `late_join` (a transfer before the join webhook is handled),
`hasty_agent` (an agent hangs up before the answer to the transfer request), `overlap` (two transfers
at once).

### Around the conversation: Telephony

**Telephony** composes **FlowRouter**, **CallLog**, **SmsDelivery** and **Presence**. These share no
variable, so a behaviour of the composition is one of one of them (`scope`); what the composition adds
is one place for their instances, their fairness and their runs. Administration and Inventory below are
compositions of the same kind.

* **FlowRouter** carries out a flow: `HandleIncomingVoice`, `HandleFlowContinuation` and `GatherEnds`
  answer Twilio's requests with the TwiML that `ExecuteStep` makes of the steps (menus with their
  retries, schedules at a time of the week, hunts, voicemail), `HandleDialStatus` follows the end of a
  hunt. The flow is read anew for every request, so `EditFlow` may change it under the call. What is left
  of a nested list is in `meta`. A hunt is answered, missed, or fails as a whole; leg by leg it is
  ConferenceDial. **FlowSteps** has the constructors of steps.
* **CallJourney** is what a flow promises to a caller, whatever it says: from the flow to ringing, to a
  talk or a message, to the end; never back; rung at most `Limit` times. `ImplementsJourney` is the
  refinement, with `phase <- Router!Phase` (`fetch` and `gather` are "flow", `conference` is "ringing",
  `record` is "message"); it includes CallJourney's fairness, so every call that has begun ends.
* **CallLog** is the rows of one call in the log: status webhooks, recordings of a segment or of the
  whole call, transcriptions in the background, changes by users. `jobs` are the background tasks.
* **SmsDelivery** follows a message through the row, the answer of Twilio, and callbacks in any order.
* **Presence** is one user with several sockets, and requests in flight that need none: `Intercept` is the
  global interceptor, which records activity for any authenticated request with a tenant's header. `Age`
  lets what is in Redis grow old and expire. Who is gone for good opens no socket and sends no request any
  more (`Absent`).

### A tenant and its people: Administration

**Administration** composes **TenantMembership**, **TenantProfile**, **TenantNumbers**, **CallFlows**,
**RoleAdmin**, **UserAccounts**, **PartsCatalog**, **AuditTrail** and **BuyerRecords**.

* **TenantMembership**: `member` is the row of each user, with an id that tells a row from its
  successor; operations of the owner are `Verify` (`verifyOwnership`), `...Check` (the read and its early
  returns) and `...Write`. `Crash` stops the server in the middle of a request of the kinds in
  `Crashing`. `stale` is a history variable: a request of the owner has written when what it had checked,
  that the asker is the owner and that the member may be changed, no longer held.
* **TenantProfile**: `update` with a new subdomain is a read, the write of the tenant, and one write per
  member, from the names read before. An address is the name and the subdomain it is made of, which a member
  from before usernames has not. `strays` is a history variable: the rows whose address was last made of a
  name or a subdomain that was no longer current, or that a loop which ended early has not reached.
* **TenantNumbers**: buying and releasing are calls to Twilio between steps on the database, each of
  which may be the last of a request (`Faults`). `half` is the purchases and releases that ended so.
* **CallFlows**: validation, the generation of missing audio with its cache, storing and duplicating.
  A flow is the sequence of its steps in the order of the walk, each saying in which list it is, so that
  the service's recursion through menus and schedules is a quantifier over positions.
* **RoleAdmin**: the permissions of a role are cleared and filled by two statements, between which another
  update may come or the server stop; `torn` remembers the roles to which that happened. `Permitted` is the
  guard.
* **UserAccounts**: the guard's find-or-create-or-link of a token's user, and registration with an
  account at Cognito, with failures in between. The access token is verified, the identity token only
  decoded, so `CanActivate` takes any address with any account. A person's address has more than one
  spelling.
* **PartsCatalog**, **BuyerRecords**: references between rows of tenants that are checked in one step and
  written in another.
* **AuditTrail**: the interceptor reads the record, the handler runs, the entry is written when the
  answer is on its way.

### Vehicles and parts: PartsStock, Inventory, AuctionListings

**PartsStock**: `...Read` is the handler up to its last read, the action without it the write or
transaction; a transaction that finds no row rolls back. `seen` is the quantity read. `ledger` and
`restored` are history variables: units taken in less units used up or sold, and which handler put which
association's units back.

**Inventory** composes **MarketCache**, **VehicleCatalogue**, **VehicleRegistry**, **MediaStore**,
**PartSkus** and **Nomenclators**.

* **MarketCache**: one key per table; each request looks it up, drops an expired row, asks the API,
  stores the answer.
* **VehicleCatalogue**: the four services have one shape; an operation is written once with its level and
  instantiated for each (`MakeCreate`, `ModelCreate`, ...), with the differences of the code. A vehicle keeps
  its year, make and model from being deleted; its trim is optional, and the database sets it to null.
* **VehicleRegistry**: `split` remembers the vehicles for which a client itself gave two prices.
* **MediaStore**: file and row are written and deleted in separate steps, each of which may fail. The
  server generates keys, and never one twice; a confirmation names whatever key the client gives, so two rows
  may have one. History: `named` and `again` are the keys that were confirmed once and again, `condemned` the
  rows whose removal has begun, `raced` those whose last update had not seen the buyer another has put on.
* **PartSkus**: SKUs as numbers: 0 for none, `n` for `HTW-P-` with `n` in six digits, `Typed` for the
  prefix followed by letters, which sorts above every number. `GenerateSku` is `generateSku` with its
  `parseInt` (NaN starts again at 1). `backfill` holds the list `backfillMissingSKUs` works on.
* **Nomenclators**: body types, which have subtypes and are referred to, with the requests and the
  scripts that change them; the other lists are body types without subtypes.

**AuctionListings**: rows named by MarketCheck or Copart, their internal ids `Row(l)`, the favourites that
point to them, the sync and the two scripts page by page.

`MCConferenceDial` and `MCPartsStock` hold the constants of the instances; the compositions have a section
"A small instance" for those of theirs that are not numbers or sets of strings.

## Runs

| Run | Question | Instance | States |
|---|---|---|---|
| `dial_fair` | Is a caller who waits alone connected or moved on? | one dial step, one leg, no faults, fair | 3 thousand |
| `simulcall` | Types; is an answered call one an agent joined, or the caller gone? | one simulcall of two agents, two legs, `rest_error`, `late_action` | 2.6 million |
| `round_robin` | Does any webhook send the caller back to an earlier attempt? | two attempts, two legs | 920 thousand |
| `segments_fair` | After a transfer, does the caller get an agent or is the call ended? Does an agent's end stay within its segment? Is the caller in the newest segment between transfers? | two transfers, three requests, fair | 8 thousand |
| `segments_chain` | Do the rows form a chain whatever goes wrong? | two transfers, two requests, `rest_error`, `early_status`, `late_join`, `overlap` | 2.2 million |
| `stock_races` | Types (no negative stock), at most one restore, conservation up to stale writes | one part, two vehicles, quantities to 2, four requests, three in flight | 165 thousand |
| `telephony` | Does every call go the way a flow promises, to its end; is it credited to who answered; does a transcription end; has a delivered message a time; does who is gone go offline? | four flows with every step type, two edits; a call of two segments; one message; two sockets, two tenants, one request without a socket | 381 thousand |
| `inventory` | Is every name, SKU and term there once; does nothing that is referred to go; do prices agree; are a buyer's media private and with their files; does a fresh answer stay? | two or three requests per component, clients that confirm any key | 1.5 million |
| `listings` | Are imports complete; do favourites of lots show; does the sync end? | one listing, two lots, pages of one, batches of two, a limit of two pages | 186 thousand |
| `administration` | Is membership settled, are accounts who claims them, do addresses, paid numbers, stored flows, permissions, conditions, log entries and references hold? | two users, two tenants, two requests in flight (one in AuditTrail), two of them the owner's; faults and crashes; a member from before usernames | 3.2 million |
| `image_update` | Does the update of images end, as its comment says? No: see "Findings" | one listing, two lots | |
| `transcripts` | Does the last row's transcription reach the others, as a comment says? No: see "Findings" | two segments | |

**Bounds.** Handlers interact through one row and pairwise, so the smallest instances in which two
handlers of each pair of kinds meet are two legs, two attempts, two transfers, two requests. Requests
that change the stock interact through one part's quantity; three in flight let a third request see the
result of a race of two; the same holds of the rows of MarketCache, where ids tell a fresh row from the
expired one before it. Three rows of members allow a row to be deleted and created anew while a request
holds the first id; two ids of purchased numbers, rows of the catalogue and terms likewise. Two tenants
are needed wherever something may leak from one into the other. The four flows of `telephony` have every
step type, hunts after hunts, and nested lists with and without an end. `SafetyLimit` and `BatchSize` of
`listings` are smaller than in the code, and reached. What a run leaves out because it makes a property
false (`early_status` in `dial_fair`, two requests at once in AuditTrail) is in "Counterexamples"; what it
leaves out because the state space is too large is covered by the theorem. So is what `administration` does
apart: subdomains and usernames (`scope = "addresses"`) from settings and removals (`"profile"`), and
messages (`"mails"`) from tasks and notes (`"tasks"`), which share no column.

**Races that are there.** Where the code writes on a check that another request has made stale, a property
that says "no such request in flight" would be about another program. Such properties are stated of every
interleaving, and a history variable (`stale`, `strays`, `half`, `torn`, `raced`, `again`) or the step itself
(`StockConserved`, `ReopenedIsOpen`, `AccountsAsClaimed`) tells exactly the harmful write apart: the property
says that nothing else breaks the statement, "Counterexamples" that the write does.

**Symmetry** over legs (`simulcall`, `round_robin`) is sound: no definition compares or orders them and
these runs check no liveness property. The other runs use none.

**Deadlock** is not checked: the systems really may stop. A call has ended, a bounded number of requests,
rows or openings is used up, a tenant that a stale write has left without an owner can do nothing more.

**Fairness.** In ConferenceDial and CallSegments `FairSpec` has weak fairness of `Server`, some handler's
step: the event loop runs every handler to its end, the REST calls return or throw. And of `AgentMisses`: a
ringing leg is given up after the `timeout` passed to `calls.create`. Telephony's `Spec` has weak fairness
of Presence's handlers and of Redis letting keys expire, of Twilio asking for the next document or ending a
hunt (`Progress`), of a caller who is called for by nobody hanging up at last (`GivesUp`), and of the
background transcription (`Work`). AuctionListings' `Spec` has weak fairness of the loops of the sync and of
the image update, each of which only awaits answers or errors. Nothing else is assumed of people: callers,
agents and requests may do nothing for ever.

**Mutants.** Each property of a passing run has a mutated form of an action, beside the action, that a
plausible slip of the code would be (a SID not filtered out, the next attempt's index in a URL, a check
dropped, an id chosen too late), and under which the run finds the property violated.

## Findings

| Run | Property | What the code does |
|---|---|---|
| `image_update` | `ImageUpdateEnds` | `scripts/update-copart-images.ts:137` says the batch is moved on "to avoid infinite loop"; `skip` never moves. When no lot of a full batch gets an image, the same batch is read again, for ever. |
| `transcripts` | `PendingEnds` | `phone-call/phone-call.service.ts:399` says the transcription of the last segment is shared with all. It is written to the one row it was started for; the others, marked as pending just before, stay so. |

## Counterexamples

The other statements of the code, or properties a reader would expect, that TLC refutes with the modules as
they are. None is in a run; give TLC the constants and the property to see the trace (`Init /\ [][Next]_vars`,
or the fair specification for a `~>`; no deadlock check). Where a row says "two in flight", the property
holds with one.

| Module | Property and what happens | Constants |
|---|---|---|
| MCConferenceDial | `NotStranded`: a leg fails before its SID is stored. `removeAgentCallSid` finds nothing, the SID is stored afterwards and stays: "agents are being called" for ever, and the caller waits alone | `OneDial`, one leg, `Env = {"early_status"}` |
| | `OneAgentLeft`: the second agent's leg is created after the first one's handler read `agentCallSids`, and rings on | `OneSimulcall`, two legs, `Env = {}` |
| | `NoRedirectWhileTalking`: a lost update drops the talking agent's SID, the other's final status finds nobody pending | as above |
| | `NoOrphanRinging`: the caller leaves before the SID is stored | `OneDial`, one leg, `Env = {}` |
| | `TermOnlyAfterCallerLeft`: the leave event of the first attempt hangs up the second attempt's agent; the same with two dial steps, when the first agent leaves before the answer is written | `TwoRoundRobin` or `TwoDials`, two legs, `Env = {}` |
| | `AnsweredOnlyByAgent`: `completed` counts as answered, for a caller who has hung up | `OneDial`, one leg, `Env = {"late_action"}` |
| | `StageAdvances`: one `conferenceAttemptFailed` for all stages; the slower agent of a simulcall redirects again | `SimulcallDial`, three legs, `CONSTRAINT NobodyAnswers` |
| | `StageAdvances`: the handler that clears the flag for stage 1 has read the row before stage 2's target was stored, and writes stage 1's back: stage 3 dials stage 1's agent, whose final status redirects to stage 2 | `ThreeDials`, three legs, `Env = {}`, `CONSTRAINT NobodyAnswers` |
| CallSegments | `NoForeignHangup`: the leave handler reads that the call is not transferred, the transfer moves the caller to the next conference, the handler ends the caller's call there | `MaxSeg = MaxRequests = 1`, `Env = {"hasty_agent"}` |
| | `NoForeignHangup`: a late join overwrites 'transferred' | 1, 1, `{"late_join"}` |
| | `NotStranded`: `calls.create` is refused after the redirect | 1, 1, `{"rest_error"}` |
| | `RecordsClosed`: the join handler overwrites 'completed' | 1, 1, `{}` |
| | `FailedStays`: the failed segment is the "active" one for the final status | 1, 1, `{}` |
| | `CallerInNewest`: redirects of two transfers are carried out in the other order | 2, 2, `{"overlap"}` |
| MCPartsStock | `NoOverdraft`: two associations of the last units pass the check before the transaction that is meant "to ensure atomicity"; both are installed | as `stock_races`, two in flight |
| PartSkus | `GeneratedUnique`: two creates read the same highest SKU | three parts, no backfill, `MaxSku = 3`, two in flight |
| | `GeneratedUnique`: a typed SKU with letters restarts the numbering | as above, one in flight, `UserSkus = {4}` |
| TenantMembership | `AtMostOneOwner`: two transfers of the ownership verify the owner before their transactions; both promote | three users, three rows, `InFlight = OwnerInFlight = 2` |
| | `OwnerOnlyTransfers`, `OwnerStays`: the role checked is stale when a transfer overlaps, or the owner writes to a member who has become the owner | two users, the same |
| | `ActivatedFromPending`: a removed member's code still works | two users, 1 and 1 |
| | `InvitationHasMember`: revoking leaves the invitation pending, so inviting again is refused | the same |
| | `InvitationSettled`: the server stops between the two writes of accepting | the same, `Crashing = {"accept"}` |
| TenantProfile | `EmailsAlwaysFollow`: a member who is renamed or added during the loop keeps the old name or domain; the server stops in the loop | as `administration` |
| | the same: of two members from before usernames the second would get the address of the first, `null@...`: the database refuses it, the request ends, and the rest keep their addresses | one in flight, no faults |
| | `OwnDomain`: a subdomain is free for another tenant before the loop has taken the members out of it | two in flight |
| | `SettingsStay`: two updates of settings each write the whole object they read | the same |
| | `NothingLostWithTenant`: a member is added after the data of the tenant were counted | the same |
| TenantNumbers | `NumbersMatch`: a number is bought, and the insert fails or is refused because the number's old row is not deleted yet; or it is released and its row stays | two in flight, or `Faults = TRUE` |
| | `OnePrimary`: two requests clear the flag of the others before either sets it | two in flight |
| | `FlowStays`: a flow is assigned after its numbers were released and before it is deleted | two in flight |
| | `OneApp`: two requests look for the app and create one each | two in flight |
| CallFlows | `AudioSpeaksText`: a step keeps the audio of the text it had before | as `administration` |
| | `GeneratedIsUsed`: two requests generate the same audio; the second insert into the cache fails its request | the same |
| RoleAdmin | `GrantsAlwaysAsked`: two updates clear, then both fill: the role grants what neither asked for | two in flight |
| | `GrantedThroughout`: between clearing and filling a role grants nothing, and for good when the server stops there | one in flight |
| | `OwnersByTransferOnly`: a role is assigned, and then given the slug `owner` | one in flight, a slug `owner` |
| | `OwnerHasAccess`: the role `owner` is created without permissions | one in flight |
| UserAccounts | `AccountsAreOnesOwn`: the address is read from an identity token that nobody verifies or compares with the access token; the user found by it is linked to the caller's account | two persons, one in flight |
| | `FirstRequestsServed`: the second of two first requests is refused | one person, two in flight |
| | `OneUserPerPerson`: another spelling is another user | the same |
| | `AccountStays`: whoever is found by address is linked, not only who "has no cognitoSub", as the comment says: a sign-in through another provider replaces the account | the same |
| PartsCatalog | `UsedCategoriesStay`: a part is put into the category after its parts were counted | two in flight |
| | `NoCircle`: only a category that is its own parent is refused | one in flight |
| | `CategorySeen`: the category given in an update of a part is not looked up | one in flight |
| AuditTrail | `TrailInOrder`: entries are written when the answer is on its way; a later request's may be first | one handled at a time |
| | `CreationsLogged`: a title made by an upsert has nothing to compare with, and no entry | the same |
| | `OneTitle`: two upserts find none | two in flight |
| | `TrailAddsUp`: two requests start from the same record; an entry is lost; a null is logged that the handler takes for nothing | two in flight, or `Faults`, or `Nulls` |
| BuyerRecords | `BuyersStayHome`: whom a task or note is about, and a buyer's seller, are not looked up in the tenant | one in flight |
| | `CompletedHasTime`: a task that is created as completed has no time | the same |
| | `GivenToActive`: a member is deactivated after the check | the same |
| | `ClickedStays`: an update of the message says something else | the same |
| | `OpensCount`: two openings start from the same count; likewise of two updates of a task one may have read a status the other has changed, and an open task has a time of completion (`Dated`) | two in flight |
| CallLog | `NothingLost`: the text of one row is taken for the text of the call when transcriptions are cut anew | `Last = 1`, `Recorded = {{2}, {0, 1}}` |
| | `UrlIsOfSid`: of two recordings of a row the second cannot be uploaded: its SID stands with the URL of the first | `Recorded = {{0, 1, 2}}` |
| | `ProcessingEnds`: a call recorded both ways writes an old 'processing' back into every row | the same |
| SmsDelivery | `FailedByTwilio`: the row cannot be completed with the SID, and is marked as failed though the message goes out | one message |
| | `FinalStays`: the answer of the send, or a callback that was read earlier, is written later | the same |
| Presence | `TabKeepsOnline`: closing one tab takes the user out of Redis, whatever tabs remain | two sockets, one tenant, `InFlight = 1` |
| | `FlagGoesBack`: a join that is overtaken by the disconnect of its socket sets the flag for good | the same, fair |
| FlowRouter | `EditStrandsNobody`: the step a hunt was started from is no hunt any more when the call asks for the next attempt | as `telephony`, one edit |
| MarketCache | `FailsOnlyWithApi`: the loser of two requests fails at deleting or inserting although the API has answered | two requests |
| VehicleCatalogue | `OnlyLeavesRemoved`: a child created after the children were counted goes with its parent | two requests, `Seeded = 2`, `MaxRow = 3` |
| VehicleRegistry | `NoOrphanMetas`: a meta is created between the two steps of a removal, or after them | one request, one vehicle |
| | `RemoveKeepsAllOrNothing`: a deal refuses the delete when the metas are gone | the same |
| | `OneTitle`: two upserts at once | two requests |
| MediaStore | `BuyerMediaPrivate` without the exception of `raced`: two updates of a row, one gives it to a buyer, the other makes it public | two requests |
| | `ConfirmedTwiceHasFile`: a key is confirmed twice; removing one of the rows, or the clean-up of the second request when its row is refused, takes the file from the other | two requests, one key, `MaxRow = 2` |
| Nomenclators | `InactiveKeepSubs`: `sync-body-subtypes.ts` deletes the subtypes of types it does not ask for | as `inventory` |
| | `BodyStays`: `sync-body-types.ts` takes the body type from every vehicle before it deletes the types, which may be refused | the same |
| AuctionListings | `FavouritesShown`: ids of rows are taken for external ids | as `listings` |

Deleting a medium whose file S3 refuses to delete leaves the file without a row; `RowsHaveFiles` is about
the other direction only.

## Proofs

| Module | Theorem | Says | Argument |
|---|---|---|---|
| ConferenceDialProofs | `TypeCorrect` | `Spec => []TypeOK`, for every flow, number of legs and `Env` | `IndInv`: `TypeOK`, the caller in a conference is at a real stage, and `TaskOK` of every handler: a handler of the flow names a stage of the flow, the dialling loop still has a target, a handler about a leg names a leg. Without it the next stage, the remaining targets or the SID written could leave their types. |
| ConferenceDialProofs | `AnsweredCorrect` | `Spec => []AnsweredOrGone`, for every `Env` | `AnsweredInv` over `IndInv`: every handler that may set `answeredAt` is `Backed` by a leg that has joined, or by a caller who has hung up; legs that have joined and callers who have left stay so. This is the part TLC cannot reach: any number of agents and stages, early statuses and late actions. |
| ConferenceDialProofs | `OneAgentAtATime`, `StageAdvancesCorrect` | no two agents rung or talked to at once when every stage has one agent (`OneEach`), for flows of any length; `Spec => StageAdvances` when there are two stages at most | `AloneInv` over `IndInv`: what the caller waits for is carried on by exactly one, an agent's leg or a handler that `Carries` it (the request for TwiML, the caller's join before it dials, the final status before it redirects), and each hands it on to one. A redirection therefore finds the caller alone in the conference, and the stage after the leg's is 2 at least, which is the last. The flag and the target in `metaValue`, which late handlers do write back, are not needed for it; they are what breaks it with three stages. |
| CallSegmentsProofs | `TypeCorrect`, `SegmentsChained` | `Spec => []TypeOK` and `Spec => []SegmentChain`, for any number of transfers and requests and every `Env` | `IndInv`: both, the row of segment 0 is there, and `GoodTasks`: a handler names a segment with a row; a transfer names one that has a successor, and has left it for good once the successor's row is written. `LatestExists` (there is a newest segment) is a greatest element of a bounded set. |
| CallSegmentsProofs | `CallerInNewestCorrect` | `Spec => []CallerInNewest` when neither `"overlap"` nor `"rest_error"` is in `Env` | `Orderly` (one transfer at a time, which has a plan for each of its steps) and `CallerAtTop`: the caller is in the newest segment, or a transfer is on its way to redirect him there. |
| CallSegmentsProofs | `NoForeignHangupCorrect` | `Spec => []NoForeignHangup` when `Env` has no more than `"rest_error"` and `"early_status"` | `Together`: a handler that is to end the caller's call belongs to the segment whose conference the caller is in, because an agent who transfers stays until the answer. |
| TenantMembershipProofs | `TypeCorrect`, `ActiveHasAccountCorrect` | `Spec => []TypeOK`, `Spec => []ActiveHasAccount`, for any users, rows, overlap and crashes | `IndInv`: rows are `Good` (an active one has an account), requests are, and `Room`: rows in use and requests about to create one are within `MaxRows`, so that an id is always free. |
| TenantMembershipProofs | `OneActiveOwner` | `Spec => []OwnedUnlessStale`, for any overlap of requests and any crashes | `OwnedInv` over `IndInv`: until `stale` there is one owner, who is active. A write of the owner that its own check would still allow is by the owner and not about the owner, and a transfer hands the role on to an active member; all others leave the owner's row alone. |
| TenantMembershipProofs | `InvitationSettledCorrect` | `Spec => []InvitationSettled` when no request to accept is among `Crashing` | who becomes active is in the same step on its way to settle, or has settled; nobody else becomes active, and an invitation only becomes pending with a row that is not |
| PartsStockProofs | `StockTypeCorrect` | `Spec => []TypeOK`: no quantity is ever negative, whatever overlaps | `IndInv`: every handler's pending write is in range *for what it has read*, so it does not matter that the read is stale |
| PartsStockProofs | `RestoredOnceCorrect` | `Spec => []RestoredOnce` | ids of associations are fresh (`IdsOK`): an id stands for one association that will be, is, or was; putting units back needs the row, and takes it away |
| PartsStockProofs | `StockConservedCorrect` | `Spec => StockConserved`: a step changes a part's balance only by writing on a stale quantity | `BookInv` over `IndInv`: associations are finite and linked to a part that is there. `Units` is shown to be a sum: it is 0 of nothing, and taking one association away takes its quantity away, whichever is taken first. |
| PartsStockProofs | `OverdraftTakesStaleWrite` | `Spec /\ FreshWrites => []NoOverdraft`, for any `InFlight` | `Balanced` over `BookInv`: as long as every write replaces the quantity it has read (`FreshWrites`), the balance of every part is 0. The hypothesis is needed: see "Counterexamples". |
| AuctionListingsProofs | `ListingsTypeCorrect`, `ImportCompleteCorrect`, `FavouritesCorrect` | `Spec => []TypeOK`, `[]ImportComplete`, `[]CopartFavouritesShown`, for any lots, pages, batches, users and limits | `NoLineLost`: a readable line is still to come, in the batch, stored or refused; `FavouriteLotsStored`: rows of lots are never deleted, so a favourite lot has its row. |
| InventoryProofs | `TypeCorrect` | `Spec => []TypeOK` of the six components | an invariant per component (`CacheInv`, `CatalogueInv`, `RegistryInv`, `MediaInv`, `SkusInv`, `ListsInv`); the others do not move in a step of one |
| InventoryProofs | `FreshRowStaysCorrect` | `Spec => FreshRowStays` | `DropsExpired`: ids grow, so a row with the id that was seen is the one that was seen, and a row that has expired does not become fresh again |
| InventoryProofs | `NothingDanglesCorrect`, `PricesAgreeCorrect` | `Spec => []NothingDangles`, `[]PricesAgree` | `RowsInv`, `VehiclesInv`: no row has an id that was not given yet, and the statements themselves: the database deletes no row that a foreign key names (or takes the title with it, or the trim from the vehicle), and every write of a price that is not in `split` writes both names |
| InventoryProofs | `RowsHaveFilesCorrect` | `Spec => []RowsHaveFiles`, whatever keys are confirmed | `FilesInv`: of the keys that are not `again`, no two rows or requests hold the same one, so the file that one of them deletes is nobody else's |
| InventoryProofs | `BuyerMediaPrivateCorrect` | `Spec => []BuyerMediaPrivate`, whatever overlaps | `PrivateInv`: an upload about to be written as public is of no buyer, and an update about to be has not seen one; so it writes to a row of no buyer, or to one that is `raced` from then on |
| InventoryProofs | `EachNameOnceCorrect` | `Spec => []EachNameOnce` when `InFlight = 1` and `UserSkus \subseteq 1 .. MaxSku` | `UniqueInv` (at most one generated SKU is not written yet, and no part has it), `FilledInv` (what a backfill still has to do), `EachInv` (a term that a script was told of is pending, written, or its slug is taken). Both hypotheses are needed. |
| TelephonyProofs | `TelephonyTypeCorrect`, `DeliveredHasTimeCorrect` | `Spec => []TypeOK`, `[]DeliveredHasTime` | an invariant per component; `SmsInv`: a callback that has read a delivered row without a time has read one that a user edited, and an id is never used for another message |
| TelephonyProofs | `CreditedToAnswererCorrect` | `Spec => []CreditedToAnswerer`, for every flow | `CreditOK`: nobody is credited before a talk; as long as the flow is not edited, the hunt a caller waits for is the one at its index (`Current`), and who talks to him is one of those it has rung (`Called`) |
| TelephonyProofs | `JourneySteps` | the initial states and every step of a call are those of CallJourney, under `[](rung <= MaxRung)` | every document that a step of any flow yields is a `ReplyOK`, and following one goes where CallJourney allows. CallJourney's limit is a bound of the flows at hand, hence the hypothesis; `telephony` shows that it holds of its flows, and that every call ends. |
| AdministrationProofs | `TypeCorrect` | `Spec => []TypeOK` of the nine components | an invariant per component (`MembersInv`, `ProfileInv`, ..., `RecordsInv`), of which `OneComponentSteps` says that the others leave it alone. `MembersInv` is that of TenantMembershipProofs; `SameStep` says that the module is the same in both places. |
| AdministrationProofs | `MembershipSettledCorrect` | `Spec => []MembershipSettled` when no request to accept is among `Crashing` | from TenantMembershipProofs. The run assumes the same. |
| AdministrationProofs | `AccountsAsClaimedCorrect` | `Spec => AccountsAsClaimed`, for any persons, spellings and logins | `AccountsClaim`: the steps that write a sub are those of a sign-in, with the address of its token, and of a registration, with the account of the person invited; accounts gain logins and lose none; a row is written only for an account that no other row has |
| AdministrationProofs | `EmailsFollowCorrect` | `Spec => []EmailsFollow`, for any overlap, crashes and members from before usernames | `FollowInv`: an address follows, or is a stray, or an update to the tenant's current subdomain will still rewrite it. Whatever changes a name or the subdomain either writes the address as well or is such an update, and one that ends early makes strays of what it has not reached. |
| AdministrationProofs | `NumbersAccountedCorrect` | `Spec => []NumbersAccounted`, for any numbers, requests and failures | `HeldInv`, `TableInv`, `CallsInv`: a number that Twilio holds was given its SID and its webhooks by one purchase, whose id no other has; a row has the id of its purchase; between the two writes there is the purchase or the release, and afterwards `half` |
| AdministrationProofs | `StoredIsPlayableCorrect` | `Spec => []StoredIsPlayable`, for any drafts of any depth | `SaveOfSent`: a request under way has steps that were accepted; giving a step its audio changes neither ids nor lists, so they still are when they are written |
| AdministrationProofs | `GrantsAsAskedCorrect` | `Spec => []GrantsAsAsked`, for any overlap and crashes | `GrantsInv`: the id of a role that is being created is nobody else's; what fills a role that grants nothing gives it what was asked, and makes it whole again |
| AdministrationProofs | `PartsAreGradedCorrect` | `Spec => []PartsAreGraded` | `ReferTo`, `Graded`, `NamedApart`: foreign keys keep what a part refers to; a condition that a request has seen is still its tenant's or everybody's, or gone, for an id that one request creates no other speaks of |
| AdministrationProofs | `TrailAddsUpCorrect` | `Spec => []TrailAddsUp`, for trails of any length | `AuditInv`: for each record and value, the entries that lead to it less those that lead from it, what was there first and what the one request has done but not logged balance. `EntriesCounted` and the lemmas after it say what appending an entry adds to the counts. |
| AdministrationProofs | `RecordsStayHomeCorrect`, `ReopenedIsOpenCorrect` | `Spec => []RecordsStayHome`, `Spec => ReopenedIsOpen`, whatever overlaps | `JobOf`: what the request has looked up is still of its tenant when it writes, or is gone; the keys of the database take along, or set free, what refers to a row that is deleted. `RecordsReopen`: only an update writes a status or a time of completion, and it is `Current` or not. |

Assumptions are those of the modules (`StagesAssumption`, `BoundsAssumption`, ...): what kind of thing
each constant is, and that bounds are numbers; and those in the theorems. TenantMembership's creator is a
user, and `MaxRows` is positive. Telephony's `FlowsAssumption` says that the lists of a flow are lists of
steps and that each step has a list of destinations. Such a list may be empty: `config` is not validated when
a flow is stored, so `TypeOK` asks for a destination of round robins only, which look one up by its index.
Administration's (`PersonsAssumption` to `RolesAssumption`) say that the values which stand for "no row",
"no name" or "nobody" are none of the users, names or tenants, that drafts are sequences of steps, and that
a catalogue's conditions and categories, a log's expenses and titles, have ids of their own.
What Administration's instances fix is fixed in its theorems, too: one slug in the catalogue, and one
request at a time in AuditTrail, without which `TrailAddsUp` does not hold ("Counterexamples").
Each lemma covers one handler; the theorems combine them.

What proving changed in the modules: `Nomenclators!EachTermOnce` used to say that each term of a type is a
subtype of it. With three types that share a term this is false: the slug with the type's slug appended may
be taken, and `sync-body-subtypes.ts` skips the term, as it says. The property now allows that; the run does
not reach it, the theorem covers it. A comment of ConferenceDial claimed more than is true: `StageAdvances` needs flows of two stages at most;
the attempt at proving it led to the counterexample. FlowRouter's
`Remember` looks at the row that `handleIncomingVoice` has just written, and not at the one before it.
CallFlows used to walk nested lists with a recursive operator, about which nothing can be proved here.
The attempt at proving that addresses follow found that two members without a username would get the same
one; `strays` tells that apart.

**Only model-checked.** Liveness under fairness (`WaitingCallerIsServed`, `TransferSettles`,
`AbsentGoesOffline`, `ProcessingEnds`, `SyncEnds`) and the liveness of the refinement `ImplementsJourney`.
Every other property of a run that passes is a theorem, for the values of the constants that the theorem
allows.

## Not modelled, and what is left

Left out on purpose: prices other than their two names, personal names, pagination, filters and queries; the
verification of tokens (cryptography); the wording of TwiML, of speech and of mails; services that pass on
what another service answers (External data and outgoing mail); connections, module wiring, DTOs, migrations
and the nomenclature's literal data (Infrastructure). In the modules above: durations, agents' identities and
the search for a call by an agent's SID in ConferenceDial and CallSegments, where a hunt nested in a menu is
dialled like one of the main flow and FlowRouter has the rest; codes' expiry and extensions in
TenantMembership; the terms tenants add for themselves in Nomenclators; `isRead` in BuyerRecords.

What could come next: AuditTrail with several requests at a time and a history that tells the overtaken
entry apart, as in the other components; the same for the creates of PartSkus; the safety part of
ImplementsJourney without the bound on `rung`; the theorems of ConferenceDial for more than two stages, with
`metaValue` told apart from what late handlers write back.
