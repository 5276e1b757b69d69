# TalentTrust AI: a TLA+ model

TalentTrust scores job candidates. A recruiter uploads a CV with the candidate's
consent, the backend scores it against a vacancy, writes a dossier for the
humans who decide, records their decision, exports a PDF, and deletes everything
about the person on request or when the retention time is over. These modules
model four parts of it:

1. the backend's services (`src/backend/app/services`) over the database they
   share: how their transactions interleave;
2. accounts: registration, login, tokens and what they give access to;
3. the scoring engine with the dossier's signals, lists and questions, as pure
   functions of a CV, and how an assessment changes when the CV says more;
4. the candidate's page in the browser, whose loads overlap.

TLC checks each part on small instances. The safety properties of each are also
proved, for any number of candidates, requests, users, skills and page loads; the
services and the accounts are each proved to implement an abstract specification, whose
operations are atomic.

## The system

| component | state | operations | talks to |
|---|---|---|---|
| database and sessions (`db/`, `models/`) | rows per candidate: candidate, document, consent, score, dossier, decisions; per vacancy an embedding; audit log | SELECT, flush, commit, rollback; unique indexes, foreign keys with ON DELETE CASCADE | every service |
| ingestion (`candidate_service.py`) | candidate, document, consent | upload | parser, audit |
| scoring (`scoring_service.py`) | score, vacancy embedding | score a candidate, commit | embedding and narrative providers, audit |
| dossier (`dossier_service.py`) | dossier, candidate status | generate: calls scoring, then writes the dossier | scoring, summary provider, audit |
| decision (`decision_service.py`) | decisions | record, list | dossier, audit |
| PDF export (`report_pdf.py`) | none | render dossier, score and latest decision | audit |
| retention (`retention_service.py`) | all rows of a candidate | delete one, delete all expired | audit |
| audit (`audit_service.py`) | audit log | record, in the caller's transaction | |
| accounts (`auth_service.py`, `api/v1/auth.py`, `core/`, `seed.py`) | users, organizations, tokens | register, seed, login, refresh; resolve a token, check a role | audit |
| vacancies (`vacancy_service.py`) | vacancies | create, list | |
| scoring engine, inconsistency detector, interview questions, fairness guard (`scoring/`) | none | pure functions | called by scoring and dossier |
| providers, parser | external | embeddings, narratives, text extraction | |
| candidate page (`candidates/[id]/page.tsx`) | rows shown, loading, error, busy buttons | load, generate, decide, export | API |
| other pages | a form each | one request each | API |

What makes each part correct: rows about a person belong together and go together
(services, retention); who stores, reads or decides is a user of that organization
who proved it (accounts); score, breakdown, signals and questions of one dossier do
not contradict each other (engine); the page shows what its user was told (page).

There is no lock, queue or retry in the Python code. Every request is a
coroutine with a session of its own; each `await` on the database or a provider
lets the others run, and several worker processes may run at once. What keeps
the rows consistent is the order of the statements in each service together with
what PostgreSQL does: unique indexes, foreign keys, row locks, READ COMMITTED.
That is where the hard behaviour is:

- a handler reads the candidate, its consent and its document, then awaits a
  provider for seconds, then writes: the candidate may be gone by then;
- `generate_dossier` is two transactions, the nested scoring and its own;
- the purge is six DELETE statements, and other requests commit between them;
- `expire_on_commit=False` and the identity map hand out what was read long ago;
- the ORM's UPDATE sends the attributes that differ from the row as it was loaded, so
  two analyses at once leave columns of both in one row;
- two first analyses of one candidate insert the same unique key, two flushes
  take locks in opposite orders, a deletion waits for both;
- a process may die anywhere, with statements executed and not committed;
- names of organizations and users are looked up in one statement and inserted in
  another, and login events are committed after the login;
- tokens outlive what they were given for;
- the page starts a load after each answer and gives none up, and offers every role
  what only some may do.

`PROJECT.json` lists each of these hazards at its line with the properties that
are about it.

## Modules

| module | models |
|---|---|
| `TalentStore` | committed rows, audit log, requests; statements, locks, constraints, commit, failure |
| `CandidateService`, `ScoringService`, `DossierService`, `DecisionService`, `ReportExport`, `RetentionService` | the operations of the service of that name |
| `TalentTrust` | all services over one store; the specification and the properties |
| `CandidateLifecycle` | the abstract specification: each operation one atomic step |
| `TalentTrustInv` | the inductive invariants of `TalentTrust` |
| `TypeProofs`, `IntegrityProofs`, `TraceProofs`, `RefinementProofs` | the theorems about `TalentTrust`, each on top of the one before |
| `AuthService` | `/auth/register`, `/auth/login`, `/auth/refresh`, `seed.py`, `get_current_user` |
| `AccessControl` | `AuthService` with the endpoints that ask for a user or a role |
| `AccountRegistry` | the abstract specification of accounts: found, enrol, suspend, demote, admit, grant, post, lapse |
| `AccessControlInv`, `AccessProofs` | its inductive invariant, the theorems about it |
| `ScoringEngine` | skill detection, fairness guard, factors, `compute_score`, recommendation |
| `DossierContents` | the seven signals of the inconsistency detector, the lists of skills and gaps, the interview questions |
| `Assessment` | the engine applied to a CV that grows word by word |
| `AssessmentProofs`, `EvidenceProofs` | the theorems about `Assessment` |
| `CandidatePage` | the page, the requests it has under way, and what the backend does with them |
| `PageProofs` | its inductive invariant and the theorems about it |
| `MCTalentTrust`, `MCAccounts`, `MCAssessment`, `MCCandidatePage` | values of the constants for TLC |

The four parts meet in two places. The `Value` an analysis of `TalentTrust` yields, with
the recommendation `GradeOf` gives it, stands for what `Assessment` computes; and the
backend of `CandidatePage` is `CandidateLifecycle` behind `AccessControl`, by what a page
can see of them.

### The services: how state and actions correspond to the code

A request is a record: which operation (`kind`), on whom (`cand`), for which
organization (`org`), where the handler is (`pc`), and the local variables that
later code uses: the candidate's status as loaded (`status`), the result being
written (`draft`), the list of expired candidates (`queue` what is left of it,
`batch` all of it). One action is the code from one `await` to the next.

A flush is sent statement by statement. `todo` holds the statements still to be
sent, `next` the one being sent, `done` those executed. An executed statement
holds its row locks and shows to nobody until `Commit` applies all of `done` at
once. `Conflict(v, w)` says when PostgreSQL makes `w` wait for a transaction
that executed `v`: same row, same unique key, or a foreign-key check that meets
the deletion of the referenced row. `Refused` says which statement fails: a
duplicate key, a missing parent, an ORM UPDATE that matches no row
(`StaleDataError`). `BreakDeadlock` aborts one transaction of a cycle, `Fail`
ends a handler anywhere and rolls its transaction back. The ORM's flush order is
left open, except that a purge sends its DELETEs as written.

The database is PostgreSQL under READ COMMITTED, as `db/engine.py` and the
compose file set it up; the SQLite of the unit tests serializes writers and
shows fewer behaviours.

Of a score row the columns `value` and `recommendation` are kept (`Result`), of a dossier
row the summary, a JSON column that quotes value and recommendation, and the
recommendation column (`Report`); the other columns have nothing a property is about.
`draft` is what a handler has computed and `sets` the columns its UPDATE names: those in
which the draft differs from the row as the handler found it. `PatchScore` and
`PatchDossier` apply these columns, at the commit, to the row that is there by then. An
INSERT writes all columns. `Rewording` adds the case that a provider words an equal
result differently, or that a column left out here changes alone, so that an UPDATE is
sent that changes less than it seems, or nothing. A decision keeps the dossier's
recommendation column.

`basis` is the request that computed the embedding a score is being computed with, and
`embedding` the one whose embedding the vacancy's row holds. A score request reads the
vacancy with the document; inside a dossier the vacancy is the object that
`generate_dossier` has loaded before.

An upload names the candidate id it will mint; nobody knows it before the upload commits,
which the proof shows (`Acquainted`), and a request for an id that is not there is the
request of a client that made one up. Uploads write candidate, document and consent in
one transaction; a candidate that was inserted by something else, as the tests do
(`backend/tests/test_scores_api.py:94`), may be without a consent, so `Init` leaves open
which of the uploaded have one. Ages are abstracted: a sweep may find any set of existing
candidates expired.

### Accounts

A request's record has where its handler is, what was typed, and the user it found.
A name that is inserted and not committed (`inserted`) holds the unique index: another
insert of it waits, and fails when the first commits. Passwords are compared, not
hashed; a token is its type, its user and, for an access token, the role the user had,
which `get_current_user` does not look at; its expiry is a refusal that may come at any
time. Of several users with one address, `authenticate` compares whichever row
the query returns. `barred` and `viewers` remember who was inactive, and who a
viewer, when a request came in, for `InactiveShutOut` and `VacanciesByWriters`; no step
reads them. Nothing in the program deactivates a user or makes a viewer: an operator does,
in the tables, at any time (`Deactivate`, `Demote`). The seed script may run at any time
and any number of times; `docs/quickstart.md` and the task list say that it runs at
startup, but the application's lifespan does not call it.

### The engine

The code looks for substrings in lower-cased text, by line. Here a line is the set
of words on it, and `Within` says which of the words searched for are substrings of
which ("javascript" contains "java"). All factors are quotients, and the weighted
total is one exact quotient, rounded half to even as Python does; the code's floating
point could differ only within a rounding error of a half, which the weights and
the small denominators here meet exactly. The cosine of two embeddings is the
provider's: any of `Cosines`, kept as long as the detected skills are the same.
A vacancy's skills and country come as somebody typed them (`Spelling`): validation strips
them only (`schemas/vacancy.py:25`), and each place that compares them strips and
lower-cases by a `_norm` of its own, which is `Norm` here, applied where the code applies
it. `detect` and the
question generator append in a fixed order, which `InOrder` keeps; skills and gaps
have no order that matters.

### The page

A call is a load or a request of the user. `pc` says how far the backend or the load
is and `ui` what the browser knows: it waits, was told, or lost the call, which
says nothing about the backend. The rows a load got so far are `got`. What a
row holds is abstracted to the time it was stored (for a decision the start of its
transaction, by which the latest is chosen). `mounted` is the life of a section's
busy flag.

A request that was sent (`Sent`) meets the token first: `Unauthorized` (401, from
`get_current_user`) when the access token has expired, which the page neither notices nor
repairs; `Forbid` (403, from `require_role`) when the user is a viewer; else `Admit`, with
which the request's transaction starts. Only then can it be refused for the rows (`Refuse`,
404 or 409). The GETs of a load are open to all roles, and fail with 401 too. The user is
the same as long as the page is open: a login as somebody else in another tab, which
replaces the token in the shared local storage, and an operator's change of the user's row
are not modelled.

## Runs

| run | question | bounds |
|---|---|---|
| `lifecycle` | do the rows fit together through every interleaving, are they what consent allowed and, column by column, what the audit log reports, does a caller of one organization ever write in the other, is every commit an atomic operation of `CandidateLifecycle`, does every step bring its request nearer to the answer, and are the invariants of the proofs true? | 2 organizations with a candidate and a vacancy each, one not yet uploaded, with a consent or without; 3 requests of any kind; 2 values with different recommendations, reworded or not (1.2 million states) |
| `answers` | is every request answered? | 1 candidate, 3 requests: sweeps, scorings, dossiers and decisions; 1 value (770 thousand states) |
| `accounts` | is every token earned, every name unique, every login in the log, every access by an active user of that organization with that role, is every step an atomic operation of `AccountRegistry`, and is the invariant of the proofs true? | 2 organizations, 2 addresses one of them in two spellings, 2 passwords, a viewer, the seed user, 3 requests, users deactivated and demoted at any time (1.7 million states) |
| `assessment` | do score, breakdown, lists, signals and questions agree, and change as one word more allows? | 12 words, up to 4 on 2 lines, 3 vacancies with skills in capitals or lower case, cosine 0 or 1 (78 thousand states) |
| `page` | does the loading message end, is what is shown what the user was told, is nothing asked for in vain? | 5 loads and requests, 3 of them requests; a writer or a viewer, whose token expires at any time; with and without a dossier, one more row stored by others, a deletion at any time (1.3 million states) |
| `recommendation_fits` | does a stored recommendation belong to the stored value? | 1 candidate, 3 scorings, 3 values: two below a threshold, one above |
| `explicit_deletion`, `ttl_count`, `missing_consent`, `valid_login`, `gaps_observable`, `sensitive_line` | statements of the documentation that the code does not keep | as above |

Why the bounds are enough. All conflicts of the services are between requests on one
candidate or one vacancy; the only operation on several candidates is the sweep, which
handles them one by one. So one candidate shows every race between two operations; the
second shows what the sweep adds, and one caller's requests beside rows of another
organization. `answers` has one candidate and the operations that write its rows, since a
liveness check without symmetry grows fast; an explicit deletion waits as a sweep does,
and an upload or an export for nobody. Three requests are enough for a pair that races
and a third that changes the rows between the steps of the others. Two values with
different recommendations are enough to see a column replaced or left; only where a value
must change and its recommendation not, in `recommendation_fits`, are there three.
Accounts race in pairs for a name, and the third request uses what the first two left. In
the engine a vacancy with two required skills has every threshold on one side or the
other with one skill, two or none; three skills meet the thresholds in between; words
that are substrings of others, on one line or on two, need four words. The page needs
five calls for two loads that overlap: the first load, two requests from two sections,
and the load after each.

Two runs leave out of a state what no step and no property in them looks at: `lifecycle`
the status a request was answered with (`Unanswered`), `accounts` the names of users no
request asks about among those inactive or viewers at an arrival, and what a request
asked that is over and left nothing (`Concerned`).

Nothing in `TalentTrust`, `AccessControl` and `Assessment` grows without a bound: `Req`
is the set of requests ever made, `MaxWords` the words of a CV. `CandidatePage` counts
its calls up to `MaxCalls`, the user's requests among them up to `MaxRequests`, and lets
others store up to the stamp `MaxClock`. The theorems
below have none of these bounds.

Requests are symmetric, since no instance names one, and so are the lines of a CV.
Candidates are not, where an instance gives them different owners or only one of them
is uploaded. There is no symmetry where a liveness property is checked.
`CHECK_DEADLOCK FALSE` everywhere: when every request was answered, the CV is as long
as it may be, or the calls are used up, nothing is left to do. That nobody waits for
ever is `EveryRequestAnswered` and `LoadingEnds`.

### Properties

- `NothingOutlivesCandidate`: after a deletion no row about the person is left or
  comes back, although handlers that loaded the candidate earlier still write.
- `DossierHasScore`: `export_dossier_pdf` relies on it ("a dossier always has a
  score"); no constraint of the schema says so, and two transactions write them.
- `StatusMatchesDossier`: the status column and the dossier row agree, although
  the UPDATE is sent or not on the grounds of a status read earlier.
- `DecisionHasDossier`, `DecisionQuotesDossier`: a decision is about a dossier
  that is there, and quotes one that was really given.
- `AnalysisUnderConsent`: nothing is stored about a candidate who has no consent, and no
  handler that awaits the narrative or the summary works without one: it has seen the
  consent, and since then only a deletion can have taken it.
- `ScoreUsesStoredEmbedding`: every score reported was computed with an embedding that its
  vacancy's row has held, also when several requests compute the first one. The row need
  not hold it still: of two requests that each found none, the second to commit replaces
  the embedding the first one scored with, and the code does not ask.
- `RowsAreAudited`: each column of a score or a dossier is one that an event reports, and so
  is each decision. Not more: two analyses at once leave value and recommendation of two
  results in one row, which no event reports together (`recommendation_fits`).
- `AuditedDecisionKept`, `OnlyAuditedDeletionRemoves`: what was audited is there until a
  deletion that is audited.
- `DeletedStaysGone`, `TenantIsolation`.
- `ImplementsLifecycle`: under the mapping in `TalentTrust`, every step of the
  services is an atomic operation of `CandidateLifecycle` or changes nothing it
  sees. It says which operations there are at all: a score never disappears
  but by deletion, a candidate is analyzed only when scored, decided only
  when analyzed.
- `EveryStepCounts`: each step takes a handler to a later position (`Place`), or, in a
  sweep, to the next candidate of its list, or has one statement less to send
  (`Nearer`), and moves no other handler.
- `EveryRequestAnswered`: fairness is WF of `Advance(r)` for every request and WF of
  `BreakDeadlock` for some request. The first is the event loop, which resumes every
  coroutine whose await is over, and PostgreSQL, which queues lock waiters; the
  second is its deadlock detector. Nothing is assumed of clients (`Arrive`), the
  start of a sweep or failures.

- Accounts: `TokensEarned` (behind a token, however often refreshed, stands a password),
  `VacanciesByWriters` (who created a vacancy is of its organization, gave a password once and
  was no viewer when the call came, with a token from before a demotion or not),
  `OrganizationsFounded` and `OneFounder` (an organization comes
  with its one founder or not at all, although the code has no lock), `SeededOnce`,
  `LoginsAudited` (the event is a transaction of its own), `InactiveShutOut`.
  `ImplementsRegistry`: what races statement by statement amounts to atomic operations:
  nobody becomes admin of an organization that is there already, no lost race leaves
  half an account, nobody is promoted or reinstated, and a vacancy is posted by who was
  granted to: a member, admitted and active, and a writer at the moment the request looked
  (`Grant`); the post follows (`Post`), whatever the operator does meanwhile, or never
  (`Lapse`). A member suspended between the lookup and the token is still admitted, as in
  the code; that nobody is whose request starts later is `InactiveShutOut`.
- Engine: `UnflaggedIsGoodFit` and `HighPriorityHasSkills` relate detector and
  recommendation, which are computed apart; `BreakdownReconciles` relates seven
  roundings, six to four places and one to a whole point (5001 ten-thousandths: half a
  point, and the six halves of a place that whole sums can amount to); `GapsAskedFirst`
  is about the cap on questions; `MoreEvidenceNeverHurts` (score, listed skills, gaps
  and signals) and `SensitiveLinesIgnored` compare two assessments one word apart.
- Page: `LoadingEnds` under WF of each load's requests, since the browser answers or
  fails every fetch; `FreshWhenInOrder`, which without its condition is false, as TLC
  shows in 15 steps: an older load that ends last puts the older rows back;
  `RefusedOnlyWhenDeleted`, by the code of the answer: what the page offers for the rows
  it showed, it is refused for the rows (404, 409) only when the candidate was deleted.
  It offers the same to every role, and for as long as the tab is open, so a viewer gets
  403 and an expired session 401; nobody else does.

### Sensitivity

Next to a definition stand variants of it (`PurgingChildrenOnly`,
`DecisionUnguarded`, `InsertOrgAnyway`, `ScoreConsentUnchecked`, ...), each the
code with one plausible mistake. No specification uses them; put in the place of the
definition they make the property listed with them in `PROJECT.json` fail, which
shows that the property depends on that piece of code.

### Where documentation and code differ

1. `retention_service.py` says deletion is explicit and does not rely on
   foreign-key cascades. Rows that another request commits between two DELETEs
   are removed by the cascade, and missing from the counts in the audit event
   (`explicit_deletion`).
2. `delete_expired_candidates` "returns the number deleted": it returns the length
   of the list it read first, and counts candidates an administrator deleted
   meanwhile (`ttl_count`).
3. `api/v1/dossiers.py` says a missing consent answers 409. When the consent goes
   between the dossier's own check and the one of the nested scoring, the
   exception is one the router does not map, and the answer is 500
   (`missing_consent`).
4. Valid credentials are refused when the address belongs to users of two
   organizations: registration allows that, the login compares one of them
   (`valid_login`).
5. The detector raises signals "only from concrete, observable gaps", but a
   required skill that is not one of the parser's 32 is always a gap, also when the CV
   names it (`gaps_observable`).
6. "Altering a sensitive attribute cannot change the computed score", but the guard
   removes the line that mentions one with the evidence on it (`sensitive_line`).
7. The recommendation is "Deterministic, non-binding recommendation from the 0–100
   score." (`scoring/weights.py:65`), but a row's two columns may be of two analyses: an
   UPDATE sends the columns that differ from the row as loaded. With (79, good) loaded by
   two requests, one commits (81, high); the other computed (78, good), sends the value
   alone, and the row is (78, high) (`recommendation_fits`). It takes two analyses that
   overlap and a provider whose answers differ; the mock's do not.

Without a run of their own:

- the sixth factor is "1.0 = no detected inconsistencies" (`scoring/components.py:96`),
  but it is a constant: the detector runs in `generate_dossier`, after the score, and a
  CV that raises signals has the factor in full;
- a registration that loses the race for a name is answered 500, not the 409 of
  `ConflictError`, since nobody catches the `IntegrityError`. The rows stay right
  (`OneFounder`);
- a desired skill of the vacancy carries the evidence "Aporta al factor de skills"
  (`dossier_service.py:56-58`), and that factor counts required skills only;
- the detector "implements the seven Phase-1 signals (FR-019)"
  (`inconsistency_detector.py:3`), and has seven, of which most are others than those the
  requirement lists (overlapping dates, gaps in time, unfinished education are not looked
  for);
- a decision keeps the recommendation of the dossier at that moment, which may be
  another than the one its author had on the screen; `DecisionQuotesDossier` is what
  holds;
- "unauthenticated users are bounced to /login" (`app/page.tsx:4`) holds when the layout
  is mounted, not for a tab whose tokens another tab removes later.

## Theorems

### The services

Proved for any sets of candidates, requests, organizations, vacancies and results,
under `StoreAssumption` alone: the constants have the types their names say, there is a
value, each value has a grade (its recommendation), and `NoRow` is neither a result, a
report or a grade nor a request. No set needs to be finite.

- `TypeProofs`: `ShapeCorrect` proves `Spec => []TypeInv`, where `TypeInv` adds to
  `TypeOK` what each position of a handler says about the rest of the record
  (`Shape`); types alone are not inductive, since a commit writes `draft` into a
  row and must know that it is a result. `TypeCorrect` follows.
- `IntegrityProofs`: `Inductive` proves `Spec => []IInv`, and `NothingOutlives`,
  `DossiersScored`, `StatusRight`, `DecisionsGrounded` and `DeletionFinal` follow.
- `TraceProofs`: `Traceable` proves `Spec => []TraceInv` with `IInv` given, and
  `TenantsIsolated`, `AnalysisConsented`, `ScoresReproducible`, `RowsAudited`,
  `DecisionsQuoteDossiers` and `DecisionsKept` follow.
- `RefinementProofs`: `LifecycleImplemented` proves that `Spec` implements
  `CandidateLifecycle`, `RemovalsAudited` the action property
  `OnlyAuditedDeletionRemoves`, and `InvariantsHold` the two inductive invariants
  together, as the run checks them (`SystemInv`).
- `RefinementProofs` also has what safety contributes to every request being answered.
  `NoStepIsWasted` proves `EveryStepCounts`. `HandlersGoing` proves an invariant of its
  own: each handler is at a position of its operation and, while statements are left, has
  one of them in hand. `SomebodyGoesOn` proves from it that as long as a request is under
  way, some request under way can go on or waits on a cycle that `BreakDeadlock` breaks.
  ENABLED is out of the prover's reach, so that a request can go on is spelled out
  (`Unblocked`: under way, and no other transaction conflicts with its statement).

`IInv` needs more than the properties. Take a request about to commit a dossier.
That its candidate is still there follows from the locks: its INSERT was executed,
so `HeldRows` says the candidate existed then, and a deletion that got past it
would have to wait (`LockInv`). That the candidate has a score follows from what
the request saw in `score_refresh` and that a score disappears only together with
its candidate (`Remembers`). That a candidate, once gone, does not return needs
that ids come from uploads, one each (`MintedInv`, `Acquainted`). One lemma per
service shows that its steps keep each part, and the last one assembles them.

`TraceInv` is about where rows come from. A handler that got past its first read was
admitted: the candidate was of the caller's organization then (`Admitted`), and
organizations do not change, so whoever is named in an audit row or a decision belongs
there (`Authors`). A handler that computes a score uses an embedding that an event says
was stored (`Embedders`), or one of its own that it will store in the same commit
(`KeepsEmbedding`); what a vacancy's row holds was stored by an event
(`EmbeddingsStored`), so a handler that finds one there can rely on it. The
recommendation a decision is about to quote is in a `dossier_generated` event of that
very candidate (`Quotes`). A handler past its checks has seen the consent, which goes
only with the candidate (`Consented`), so that a score, which is written only while the
candidate is there, has one (`RowsTogether`; the document is there as long as the
candidate). `RowsAreAudited` goes column by column: a commit puts a column of the draft
into the row, which its own event reports, or leaves the column that is there, which an
earlier one does.

The refinement maps a request of the services to a stage of the abstract one. Only
commits change what `CandidateLifecycle` sees. The lemmas go by operation: what the
statements of a commit, applied together, do to the tables (`IInv` says which those
can be, since no row they insert can have appeared and none they update can have
gone), and that this is the abstract operation; every other step leaves the tables
alone and maps to a stutter or to the arrival of a request.

### Accounts

Under `AccountAssumption`: lower-casing twice is lower-casing once, the users given at
the start have addresses in lower case and obey the two unique rules, and `Nil` is none
of the other values. `AccountsInv` has what the tables hold (`Tables`), what a request
has from its caller and has found out (`Filled`, `Granted`), that who was inactive stays
shut out and who was a viewer is one still (`ShutOut`), and that an inserted organization
is nowhere else, committed or not (`InsertedOnce`): this is what the unique index gives,
and the only reason why `OneFounder` and `SeededOnce` hold, although the handlers look
names up in a statement before. Users never disappear, passwords never change, and a user
only becomes inactive or a viewer, never the contrary: so a password proved stays so, and
who was inactive or a viewer when a call came in is still one at its end. A vacancy is
stored by the last step of its request (`Posted`), so that who created it can be read off
the request. The safety properties of `accounts` follow.

`RegistryImplemented` proves that `Spec` implements `AccountRegistry`, one lemma per
handler. The commit of a registration founds: its inserted name is nowhere else
(`InsertedOnce`), so the organization is new. The commit of a seed script enrols, since
its key is free by the unique rule on users. A login admits the user it found and a
refresh the user of its token, who are members because users are never removed. The
lookup of `get_current_user` and `require_role` is the grant, the commit of the vacancy
the post, a failure between them a lapse, and the operator suspends and demotes; every
other step of a request changes nothing the registry sees.

### The engine

For any vocabulary and any vacancies with finitely many required skills, at least one
(`TextAssumption`, `VacancyAssumption`, `DossierAssumption`, `PlainSkillsAssumption`,
`BoundAssumption`). The invariant is only that the CV stays of its type; the rest is
arithmetic and counting on the state or on one step.

- `AssessmentTypeCorrect`: every sub-score is within 0 and 1, and since the weights add
  up to 100, rounding keeps the total within 0 and 100.
- `UnflaggedIsFit`: no signal means that all required skills are detected and half of
  them evidenced, which is worth 35 + 10 points; the neutral factor gives 10, seniority
  at least 3 and modality at least 5.6, so at least 63.6 whatever the embedding.
- `HighPriorityEarned`: with fewer than two fifths of the skills, that is fewer than 14
  points, the other factors at their best leave the total below 79.
- `GapsComeFirst`: what `SetToSeq` returns for a finite set lists each member once, and
  the first eight of a concatenation are those of its first part if there are eight: so
  the questions about gaps and signals come first, and the cut leaves out others only.
- `BreakdownsReconcile`: each rounding is within half a unit of its quotient, and the
  sum of the unrounded factors is the unrounded total.
- `GuardedLinesIgnored`: what the score and the signals read is detected skills and
  the sanitized lines, and neither changes.
- `EvidenceNeverHurts`: detected and evidenced skills only grow, each factor but the
  embedding's is monotone in them, so is the weighted total, and rounding keeps order; a
  signal is raised by what is missing, and no name of a skill contains a token that a
  signal looks for (`PlainSkillsAssumption`, true of `_SKILL_VOCAB`).

### The page

For any `MaxCalls`, `MaxRequests` and `MaxClock`. `PageInv` says that no row has a stamp
not given yet, that a loading message is some load's, that a dossier once seen is there
until the candidate is deleted, that what a request stored is there or something newer,
that a refusal has its reason (`Entitled`) and, the heart of it, `NewestFollows`: the
newest load began after every request whose answer was told, so what it has read is at
least as new. `FreshWhenInOrder` follows when the load shown is the newest.
`RefusedOnlyWhenDeleted` follows from the dossier that stays, for 404 and 409, and, for
403 and 401, from the user's role, which stays, and the token's age, which only grows
(`UserLasts`).

### Only model-checked

`EveryRequestAnswered` and `LoadingEnds`, since liveness is out of the prover's reach. For
the first, what can be proved of safety is: the steps of a handler cannot go on for ever
(`NoStepIsWasted`; a list of expired candidates is finite), and they cannot all wait for
ever (`SomebodyGoesOn`). What stays with TLC is that fairness turns this into an answer
for each. The documentation's statements that the code does not keep are refuted by
TLC.

## Not modelled

Text extraction from PDF and DOCX is done by libraries, and its refusals are a choice.
AI providers are choices too, their failures `Fail`; a backend restarted with another
provider, which meets embeddings of the former one, is not modelled. Migrations, configuration,
logging, the rate limiter (a library) and the layout of PDFs have no state the
properties could be about. In the services: lists and details, which only read, the
PDF's contents, outcome and note of a decision. In the engine: the wording of evidence,
messages and narratives. In the browser: login, the layout's guard (any failure of
`getMe`, however late, removes the tokens and goes to the login), dashboard and vacancy
pages: each is a form over one request, and the list of uploaded candidates
(`vacancies/[id]/page.tsx`) lives as long as its tab.

## Plan

1. Done: the store, the services, their composition; integrity, traceability, tenant
   isolation, progress and the refinement proved.
2. Done: accounts with their refinement, the engine and the candidate page, with their
   theorems.
3. Open: the browser's session (tokens in local storage shared by tabs, the layout's
   guard, the login) composed with `AccessControl`; uploads from the vacancy page, whose
   list is lost with the tab; the reports' three reads with `decided_at`, as in
   `CandidatePage`; the parser's structure beyond skills.

## Running

    tlc -config lifecycle.cfg MCTalentTrust.tla
    tlc -config accounts.cfg MCAccounts.tla
    tlc -config assessment.cfg MCAssessment.tla
    tlc -config page.cfg MCCandidatePage.tla
    tlapm RefinementProofs.tla      (and TypeProofs, IntegrityProofs, TraceProofs,
                                     AccessProofs, AssessmentProofs, EvidenceProofs,
                                     PageProofs: a module's proofs are checked
                                     by a call of their own)
