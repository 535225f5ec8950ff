# A TLA+ model of the `stephrobert.scaleway` collection

This directory holds a formal model of the parts of the collection that decide
something while other things happen: the client of the API, the modules that
write, the modules that trigger and wait, the lists and the names looked up in
them, the roles that roll, schedule and read a fleet, the inventory and its
cache, and the lock of the example platform. The modules are checked by TLC on
small instances and their most important properties are proved by TLAPS for all
values of the constants.

Names follow the source, whose vocabulary is French: `Recevoir`, `Relire`,
`quitte`, `etat`. In this file `RT` is
`ansible_collections/stephrobert/scaleway/plugins/module_utils/scaleway.py`, and
a number after a file is a line. `PROJECT.json` maps every definition to its
lines.

- [Inventory](#inventory)
- [Modules and what they correspond to](#modules-and-what-they-correspond-to)
- [Runs](#runs)
- [Proofs](#proofs)
- [Disagreements between the code and what it says](#disagreements-between-the-code-and-what-it-says)
- [What is not modelled](#what-is-not-modelled)
- [Plan](#plan)
- [Running it](#running-it)

## Inventory

The collection is an Ansible collection of 88 modules generated from OpenAPI
contracts, over one hand-written runtime, with roles, an inventory plugin,
filters and a lookup around it. The repository also holds the generator and the
scripts that prove a release on a real account.

```
  playbooks ──► roles ──► modules (88, generated) ──► runtime (RT) ──► HTTP API
      │           │            info / manage / action                    ▲
      │           └──► filters (pure)                                    │
      └──► inventory plugin ──► cache                ────────────────────┘
              └──► providers, names, groups
  OpenAPI specs ──► generator ──► modules          scripts ──► example platform
```

### Runtime, `RT` (1861 lines)

Every module is one call to one of its entry points, so this is where the
behaviour is. Each process runs one module and keeps no state afterwards: the
state that matters is the API's, read more than once and possibly changed in
between by another run, by the console or by a request that was given up on.

| part | state while it runs | operations | what makes it correct |
|---|---|---|---|
| transport, `ScalewayApi.request`, `_send` (728-983) | replay counter, the wait before the next | send, receive, replay, raise | a write lands at most once; what the caller is told agrees with what the API did; the loop is bounded |
| `paginate`, `fetch_all` (535-601, 894-922) | page, items, `total_count` | fetch a page, stop, refuse | a list that is returned is the whole list |
| `run_manage_module` (1503-1719) | first read, differences, body, second read | read, compare, write, verify | `changed` is true; success was observed; replaying does nothing; two playbooks do not step on each other |
| comparison strategies (1182-1329) | none | eight named comparisons | what the API renders of a value is identical to it |
| `run_action_module`, `poll_until` (408-462, 1774-1861) | state before, state seen, `quitte`, the clock | rehearse, trigger once, wait | a confirmed wait has waited out the action; the wait ends; `changed` is true |
| `resolve_resource_id` (1025-1126) | the list it read | list, keep exact names, refuse none or several | one exact name or a refusal |
| `run_info_module` (1129-1180) | none | read and return | the transport's and the list's |
| paths, queries, bodies, client (465-530, 604-700) | none | formatting, validation | a missing value is refused, never guessed |

Interactions: manage and action modules issue one write through the transport
and depend on what it promises (`OneShot`); every list goes through `paginate`;
`changed` and `failed` are the only messages a playbook gets back.

Hard behaviour: an answer that is lost after the API applied the request; a
replay of what was already done; a write that lands after its caller gave up;
another run between a read and the write built from it; a wait satisfied by the
state before the action; a limit looked at between reads that themselves last; a
fleet renamed between two pages of one list.

### Roles

- **`rolling_reboot`** (main, batch, noeuds): reads every target, refuses when
  one is unreadable, plans batches, fires each batch as async jobs, waits, goes
  on or stops, publishes a result. State: the readings, the plan, the batch, the
  job ids. Concurrency: the jobs run beside the role, machines change state
  meanwhile. Correct when nothing is rebooted without a full reading, one batch
  is down at a time, a stop has touched nothing past its batch, an end announces
  what it asked for, and the roll ends.
- **`power_schedule`** (one file): takes its machines from an inventory that may
  be a cached one, reads each live, sorts them in *already there*, *to act on*,
  *left alone*, *unreadable*, acts on them one by one and waits for each (the
  `wait` of the action module is left at its default, true), publishes the
  result, and refuses at the end when something was unreadable. One action that
  fails stops it before it publishes. Correct when only machines read in a
  starting state are acted on, a replay converges, and the result is a true
  partition of the selection.
- **`fleet_audit`, `fleet_changes`, `fleet_diff`, `fleet_report`**: probe
  products scope by scope, a failed probe never stopping them, normalise,
  compare with an earlier reading or with a policy. They keep nothing: the
  caller hands back the findings and the snapshot of the previous run, or part
  of them, or nothing. Correct when a mute scope never yields a disappearance or
  a resolution, and when no finding leaves the history in silence.

### Inventory plugin

`plugins/inventory/compute.py` and `module_utils/inventory/`: a configuration,
a fingerprint of it as cache key, a discovery product by product and zone by
zone, filters, unique names, groups. State: the cache, which outlives the command
and is shared by every run of the same source file. Correct when two
configurations that read different fleets never share an entry, when what is
cached is a complete discovery or says it is not, and when names are unique and
stable.

### Filters, lookup, generated modules

`plugins/filter/` (eleven pure functions), `plugins/lookup/resource_id.py`,
`plugins/modules/` (25 managing modules, 15 action modules, the others information modules; data
handed to the runtime).

### Scripts, generator, documentation

`scripts/example.py` deploys, exercises and destroys the example platform, under
the lock of `verrou_plateforme.py` and against the reference of `residue.py`.
State that outlives it: the account, the Terraform state, the lock file, the
reference. A run may be killed at any step. Correct when a platform that stands
has a lock, a lock is given back over nothing, and status 0 means that the
account is what it was before.

`generator/` translates contracts to modules and is checked in the repository by
byte-for-byte goldens. The other scripts check the repository itself. The
decision records (`docs/adr`, 001 to 025) say why: 010 on verified writes, 015
and 017 on destruction, 020 on plans.

## Modules and what they correspond to

| module | models | lines of the source |
|---|---|---|
| `OneShot` | what a caller may rely on, of one call | abstract, implemented by `Transport` |
| `Transport` | one API call | RT 100-124, 209-241, 755-1007 |
| `Comparaison` | the strategies that compare a field | RT 1182-1329 |
| `Gestion` | managing modules, over `Comparaison` | RT 1332-1719 |
| `Travail` | what a role may rely on, of one action it waits for | abstract, implemented by `Action` |
| `Action` | action modules and the wait | RT 408-462, 1774-1861 |
| `Pagination` | paginated lists | RT 535-601, 706-726, 900-922 |
| `Resolution` | a name looked up in lists, over `Pagination` | RT 1025-1126 |
| `Roulement` | the role `rolling_reboot` | `roles/rolling_reboot/tasks/{main,batch}.yml` |
| `Inventaire` | one parse, its key, the cache | `inventory/compute.py`, `module_utils/inventory/{config,discovery,errors}.py` |
| `Horaire` | the role `power_schedule`, over `Inventaire` | `roles/power_schedule/tasks/main.yml` |
| `Suivi` | `fleet_changes` over `fleet_audit`, `fleet_report`, `fleet_diff` | `roles/fleet_*/tasks/main.yml`, `plugins/filter/{audit_changes,fleet_diff,fleet_changes,policy_exceptions}.py` |
| `Plateforme` | runs of the exercise on the real cloud and their lock | `scripts/{example,verrou_plateforme,residue}.py` |
| `*Proofs` | the theorems of each | |
| `MC*` | the small instances | |

Composition: `Gestion` extends `Comparaison`, `Resolution` extends `Pagination`,
`Horaire` extends `Inventaire`; `Transport` implements `OneShot`, the contract
`Gestion` and `Action` are written against; `Action` implements `Travail`
(`Promet`), the contract the jobs of `Roulement` are written against: a job and
its machine keep to it (`Tenus`), and the roll is ready for anything it allows
(`ToutAccueilli`). An action of `Horaire` is abstracted to what `Action` promises,
without an `INSTANCE`.

### `OneShot` and `Transport`

`OneShot` has three variables: whether the call may be served again, which
transmissions the API applied, and the verdict. `fait` requires an effect,
`refuse` forbids one for ever, `inconnu` promises nothing. `Gestion` and
`Action` rely on exactly that: their write has a success, a refusal and an
unknown outcome. In the third the effect may come later in `Gestion`; in `Action`
it has come or not when the call fails, because the module stops there and no
property looks at the machine of a task that failed to send.

`Transport` is `_send` turn by turn. `pc = "envoi"` is the top of the loop,
`"attend"` is the time spent inside `requests.request`. `Recevoir` is the path
of a response: `AttenteAvantReessai` decides to sleep and replay or to hand over
to `IssueDeLaReponse`. `Panne` is the `except requests.RequestException`.
`"epuise"` is the exception after the loop that the code calls unreachable. On
the other side `demandes` says what became of each transmission; `Traiter` and
`Ecarter` may happen at any time, also after `Panne`: a timeout says nothing of
the request. `Compatible` is the one assumption on the API: a status below 400
comes after the request was applied, an ambiguous one (500, 502, 503, 504) says
nothing, any other refusal comes without an effect. Of the body only its
readability is kept; a date in a `Retry-After` is the number of seconds left
until it.

### `Comparaison` and `Gestion`

`Comparer` is the table `_COMPARAISONS`, one disjunct per group of strategies;
`Projection` is what is taken out of the observed value first; `ValeurCourante`
is where it is looked for when a field written `backend_id` is rendered as an
object `backend`. `Rend` is the environment: what a read renders of a value the
API holds.

In `Gestion` one run is one task of one playbook. `RefuserLeNull`,
`LectureEchouee`, `Lire`, `Emettre`, the three outcomes of the write, `Relire`,
`RelectureEchouee` are the path through `run_manage_module` in its order. `Lire`
is one step because no call separates the read from the comparison and from the
check-mode exit. `CorpsEcrit` is the difference for a PATCH, and for a PUT every
managed field the read rendered. `Rejouer` is the playbook played again. The API
is `Appliquer`, which may ignore or normalise a value (`Pose`) and may reset what
a PUT does not name, and `Perdre`. Several runs share one resource and
interleave at every call. A PUT is assumed to have no field compared by
`id_list`: none of the seven PUT modules has one, and the body of a PUT would
send back the objects the read renders where identifiers are expected (RT 1677).

### `Action`

`action`, `wait`, `check`, `delai` are the task. `Attente` is the condition under
which the module waits; `LireAvant` is the read that `leave_first` needs;
`Declencher` and `DeclencherEchoue` the single POST; `Sonder` is one turn of
`poll_until`: read, was it left, is it there, is it late; `Dormir` the pause. The
machine is an environment: `reste` is the path it has still to walk and
`Basculer` walks it whenever it likes. A tick of `horloge` is about one minute of
wait, a read lasts up to `LectureMax` = 4 of them (a call and three replays of
60 s). The verdict `expire` is the failure for want of time, told from the failure
of a read: `AttenteBornee` asks that the first comes neither before the limit nor
more than a pause and a read after it. `LecturesMuettes` lets a read render no state. `Ailleurs` is somebody else,
who may move the machine until the action is sent, also between the read before
it and the action; `derangee` remembers it.

### `Travail`

What a task knows of one machine: it is asked for (`lance`), the action is sent
(`envoye`), and it succeeds or fails. A success of a task that was `envoye` finds
the machine where the action leads; a failure promises nothing, and the action
may be under way. When somebody else moved the machine before the action
(`derange`) and the action leads back to a state it is accepted from, as a reboot
does, the task is `presse` and its success says only that the action was taken:
that is the hole of RT 1850, see
[below](#disagreements-between-the-code-and-what-it-says). `EtatDuTravail` and
`MachineDuTravail` in `Action` are the refinement mapping, one instance per
action that has a state to wait for.

### `Pagination` and `Resolution`

`LirePage` is one turn of `paginate` with its three ways to stop in order:
complete, contradicted, out of pages. The API chooses the size of its pages
whatever was asked for, and may announce more than it holds or give no count.
Without a count, a page capped below the size asked for is taken for the last one
(RT 578-580) and the first page is returned in silence: the model does so too, and
`ListeComplete` and what `NomResolu` says of a fleet that keeps still are stated
for the other cases (`Distinguable`).

`Resolution` is the call around it: `RefuserPortee` when the scope is
incomplete, the list the API filters by what names contain when it can,
`Exacts` the comparison to the letter, `Relister` the second list without the
filter on the way to a refusal, `Conclure` the verdict. `Autre` creates, renames and
removes between any two pages; `porteurs` remembers who carried the name.

### `Roulement`

`Lire`, `Decider`, `Lancer`, `Sonder`, `Juger`, `Rendre` are the tasks of the
role, one action per turn of a loop. `EnOrdre` is the selection in the order of
the loop, which the batches are cut from, the last one maybe smaller
(`NombreDeLots`). `Lancer` may fail to start a job, and the roll then stops at the
end of the loop with the other jobs of the batch under way. A job is a `Travail`: it sends one reboot
(`Envoyer`), ends well only once the machine is back (`Reussir`), but for a
machine that somebody moved since the job was fired (`presse`), or ends badly at
any time, its reboot taken or not (`Echouer`). `Ailleurs` is anyone else on the
account. `LotTombe` says when the
batch fails: only when the retries ran out, which fails the task that waits,
because `failed_when: false` rewrites the field the assertion after it reads. That
assertion adds nothing, so its message, which names what was not touched, is not
modelled.

### `Inventaire` and `Horaire`

A parse is `Analyser` (the key, the cache, or a discovery), `Decouvrir` once per
source, each of which answers, is absent from the place, lacks a right or
breaks, and `Rendre`, which raises when strict and in error, and otherwise serves
and writes. `Refuser` is the failure of credentials, fatal whatever `strict`.
`Empreinte` is `cache_fingerprint` down to what the configurations of the model
differ by. `pour` is a history field of an entry: who discovered it.

`Horaire` starts with a parse (`Commencer`), takes its group from what was served
(`Choisir`; a parse that failed is an empty inventory for Ansible, which only
warns), reads each machine live (`LireMachine`), sorts (`Deja`, `AAgir`,
`EnVol`, `Illisibles`), then for each machine to act on `Annoncer` in check mode,
or `Envoyer` and `Attendre`, and `Publier`. `Finir` and a new `Commencer` are the
replay. `Changer` is anybody else; `Aboutir` the action coming true, sooner,
later or never.

### `Suivi`

One run is `Lancer`, `SonderAudit` once per probe, `Juger` (`AuditChanges`),
`SonderReleve` once per probe when a snapshot was kept, `Resumer` (the two
verdicts and the worse of them). `Garder` is the caller, who keeps the findings,
the snapshot, both or nothing; `Photographier` is `fleet_report` on its own. A
scope is named with its type, and `MesureesAudit`, `MuettesAudit`, `Photo`,
`Incomparables` are what the roles derive from the answers. A finding is the
resource it is about; `Severite` and `Echeance` its rule and its exception.

### `Plateforme`

`Pas` is the body of the exercise in its order: `Capturer` the reference,
`LireVerrou` and `EcrireVerrou` (two steps: git is called in between),
`Deployer`, `Jouer`, and the `finally`, `Deriver` to `Rendre`. `Tuer` may stop a
run at any step and leave the account or the lock half done; `DetruireALaMain`
and `RetirerALaMain` are what the refusal of a lock tells a person to do. The
account is two things: what Terraform knows of and what it does not. `Nettoyer`
and `Rendre` may raise (`"leve"`), before or after the lock is given back;
`Verifier` fails on what appeared, on what disappeared and on a list it could not
read.

Two runs may be between the read and the write of the lock together: the code does
not prevent it, nor does the model. The history variable `croise` remembers it until
a run starts on an account put right. `auteur` and `avant` remember who
captured the reference last and what each run found, because a run that is then
refused the lock has already replaced the reference of the one that holds it.

## Runs

| run | question | states |
|---|---|---|
| `transport` | whatever the API applies, refuses, loses or delays, is a write applied at most once, is a refusal without effect, does the call end, and does it look to its caller as `OneShot` says? | 2 445 |
| `gestion_put` | a PUT task replayed twice: is `changed` true, is success observed, is a replay silent, are the other fields kept? | 203 124 |
| `gestion_patch` | two runs, each replayed, in every order over PATCH: does a run alone on its fields keep what it asked for? | 3.8 million |
| `action` | does a confirmed wait cover the whole action, does it end in time, is `changed` true, and does a task look to its role as `Travail` says? | 7 263 |
| `roulement` | does a roll never act without knowing, keep to one batch, ask each machine once, touch nothing past the batch that stops it, announce what it asked for, and end? | 1.4 million |
| `resolution` | is a returned list the collection, is each error founded, and is a name resolved to what carried it? | 517 487 |
| `suivi` | does a mute probe never yield a resolution or a disappearance, is each level founded, and does no finding vanish in silence? | 3.2 million |
| `horaire` | is what is served the account asked for, is an action sent only where it is needed, is a green result true, does the play end? | 1.1 million |
| `plateforme` | whoever is killed and wherever, does a platform that stands have a lock, is a lock given back over nothing, and does status 0 mean the account is what the run found? | 222 764 |
| `roulement_lot` | does a batch whose job failed stop the roll? | violated |
| `suivi_resolu` | the same as `suivi`, two products in one zone of the audit | violated |
| `inventaire_fichier` | the same as `horaire`, two configuration files instead of options | violated |

Deadlock is checked in every run; where everything may be over, an explicit
action stutters (`Repos`, `Fini`), so a state without a successor would be a
defect of the model.

### Bounds, and why they are enough

- `transport`: the constants of `RT` as they are (three replays, waits 1, 3, 8,
  ceiling 30), one status of each kind and each form of `Retry-After`, negative,
  at the ceiling and one above.
- `gestion_*`: two values for every field, one list of two elements in its two
  orders, which only a set does not tell apart: enough to write, to normalise
  and to ignore. `gestion_put` has a set, a reference rendered as an object and
  a secret, and is replayed twice (`MaxTours` 2): once to converge and once to be
  silent. `gestion_patch` has a set and a list of identifiers, and two runs
  replayed once: a late write of the other's first turn, applied over the success of
  this one, needs no more.
  The strategies no run compares with are evaluated against reference
  definitions in `MCGestion`, over lists of up to three elements and objects of
  up to two keys.
- `action`: `wait_timeout` of 0 (taken for the default), below and above the
  longest read; the clock saturates at `Plafond`, which is above every limit.
  The longest path has three states.
- `roulement`: five machines in batches of two, so that there are three batches
  and the last is smaller; one retry of the wait, so that it can run out and can
  not.
- `resolution`: up to four elements, pages of two asked for and of one to three
  served, three pages at most, so that the limit of pages is met by a collection
  of four served one by one. Pages of one without a count
  are the capped ones. One act of another actor (`MaxActes`), three names:
  the one asked for, one that contains it, one that does not.
- `suivi`: two runs of `fleet_changes` (`MaxJours`), the first to keep and the
  second to compare, and snapshots taken apart; a zone with an Instance and a
  load balancer and a region with a cluster, so that a scope has two products
  and another one; the fleet changes without a bound.
- `horaire`: two machines in two zones, three configurations (two accounts,
  strict and tolerant), two plays (`MaxJeux`), the second to meet what the first
  cached and did, one change by anybody else (`MaxChangements`).
- `plateforme`: two runs, started again without a bound: enough for two to meet in
  `poser`, and for one that is refused to replace the reference of the other.

Symmetry is used in `resolution` alone, where the elements are interchangeable
and no property is temporal.

### Fairness

Only the program is asked to go on. `Transport` assumes `WF_vars(Client)`:
`requests.request` is given a timeout and returns or raises, so a wait for an
answer ends. `Action` assumes it of the module, whose steps are calls with a
timeout and pauses; `Roulement` of the role, whose `async_status` is bounded by
`retries`; `Horaire` of the role and the parse, made of calls with timeouts and
of waits that `wait_timeout` ends (`Attendre` may always fail). Nothing is asked
of the API, of the machines or of the jobs: a call, a wait, a roll and a play end
even when none of them ever answers.

## Proofs

TLAPS proves these for all values of the constants that satisfy the `ASSUME` of
the module.

**`TransportProofs`**. The inductive invariant is `IInv`. `AuPlusUneFois` alone
is not inductive: the loop must know that a write which goes on to transmission
*n* had all the earlier ones set aside (`Passees`), that nothing is sent ahead of
the counter (`Futures`), and that the outcome agrees with the last transmission
(`IssueExacte`). Each decision operator has a lemma of its own that says when it
answers a wait. From it follow `UneFois`, `Refus`, `Succes`, `Jamais`, `Bornee`,
and `Raffine`: every step of the loop is a step of `OneShot` or a stutter.

**`GestionProofs`**. `IInv` adds to the types that nothing on the wire is of a
later turn than its run's or of a rehearsal (`InvVol`), that what a run writes is
what its own turn read and asks for (`InvEnvois`), and what each stage has
established (`InvCours`): a run that has not sent has nothing on the wire, one that
reads again was applied. `Changed` follows for any number of runs, fields and
replays. `Observe` is inductive with the types: the history variable `conforme`
is set only by a comparison, and cleared by every application. `Idempotent`
takes `Observe` and what `CorpsEcrit` depends on. `NonDemandes`, that a write
built from the resource as it is leaves the other fields alone, is proved for
PATCH and for PUT; it needs that the API stores a value it held and is sent back
as that value again (`PoseFidele`, which `MCGestion` evaluates). `Facette` is
`DeuxFacettes` for any number of runs over PATCH; it needs that a body on the wire,
of whatever turn, holds nothing but what its run asks for (`InvCorps`). `RienAEcrire` says that reading a
value back and comparing it undoes what the API makes of it, strategy by strategy
(`RendIdentique`): a resource that holds what was asked for is never written
again. Its hypothesis `Collection` says that a list or an object is one. Two
strategies are proved equal to what they are for: `EnsembleReordre` (counting each
value is matching the two lists place by place, by the library's facts on
cardinality and bijections) and `ObjetDemande`.

**`ActionProofs`**. `Changed` and `Bornee` come from `IInv`: the verdict each
stage may still reach, and the clock at each stage, which is past the limit when
the module gives up for want of time. `Fidele` needs hypotheses on
the machine, `MachineFidele`: idle before the call, renders its state, and its
path ends in the state aimed at without going through it before. Under those,
`InvFidele` says that a machine which has not moved is not taken for one that
left, unless somebody else moved it after the read. `Promet` is the refinement of
`Travail`: initial states map to initial states, and every step, one by one, to a
step of the contract of each action or a stutter. The run makes the same
hypotheses; see the next section for what the code does without the first of
them.

**`RoulementProofs`**. `RouleInv` adds to the types what each stage knows: the
plan holds only what was read running, and only when everything was read
(`Plan`); the jobs fired are those of the batches up to the one under way
(`Tirees`); and in the wait, a job still under way is one the wait has yet to
come to, or one whose retries ran out (`Suivies`). `UnLotALaFois` alone is not
inductive, because the judgement of a batch must carry that none of its jobs is
left. From it follow `Type`, `Savoir`, `UnSeulLot` and `Fin`, which says where a
roll that stops has got to and what one that ends has asked for; that the jobs it
announces ended well is not so (`roulement_lot`), and not said. `Tenus` says that
each job and its machine keep to `Travail`; its one hard step is `Lancer`, which
must find that the machine it fires at never had a job (`JamaisTiree`, from
`Tirees` and the injectivity of the plan). `ToutAccueilli` is the converse: every
step `Travail` allows a job and its machine is a step of the model, so nothing a
contract-keeping module may do was left out of what the other theorems cover.

**`PaginationProofs`**. What was gathered is the first pages (`InvPages`), for
any page size, collection and announced count, of a collection that keeps still;
`Complet` is the list returned, under `Distinguable`. `Fondee` adds `InvErreur`, what a list that gives
up has seen. `Resolu` extends the invariant to the names: what was gathered
carried, when it was read, the name noted for it. `ListesLues` and
`ResolutionFondee` carry the two results over to the lists a resolution makes,
where each list starts again from nothing, and `ResolutionType` its types.

**`SuiviProofs`**. `Resolu` holds when each scope of the audit has one product
(`UnProduitParPortee`); `suivi_resolu` is the counterexample without it.
`Disparue` holds for Instances, load balancers and clusters (`ProduitsSuivis`),
the products whose silence `fleet_report` turns into a mute scope. `JamaisPerdu`
has no hypothesis: a finding leaves the history resolved by its own reading or
with a level that asks for somebody. `Niveau` needs `ProduitsSuivis` and that
each scope of the report is one an Instance or a cluster measures
(`PorteesMesurees`). Both rest on `InvAudit`, which says what the audit of a run
has established by the time the run compares snapshots; `Niveau` adds that a
snapshot says which of its scopes did not answer (`InvPhoto`).

**`HoraireProofs`**. `Servi` holds when every configuration gives its access key
as an option (`LesClesSontDonnees`); `inventaire_fichier` is the counterexample
without it. Its invariant relates each entry of the cache to the key it is under.
`Besoin` and `Bilan` need the readings and the results of a run to be true of
some moment of that very run (`passe`, `aQuitter`), which no later change undoes.

**`PlateformeProofs`**. The invariant has two parts. Always: a status still 0 after
the destruction says that it succeeded, and the reference is its author's capture.
Until two runs meet inside `poser` (`Exclusif`): whoever is at work owns the lock,
whoever is about to write it is alone and found none, and what a run destroyed no
longer stands. `Inductif` has no hypothesis on the runs; `Verrouille` and `Fidele`
follow, and say in their statement what they say nothing of: runs that met
(`croise`), and for status 0 a reference another run replaced (`auteur`). Without
either exception TLC refutes the property: two runs between lock and return, and a
status 0 over an account that is not as this run found it.

Assumed: the `ASSUME` of each module (ranges of the constants, strategies of the
table, what the API stores is storable, what it renders is not `None`), and the
hypotheses named above in the theorems that state them. TLC evaluates the first in
the runs.

Model-checked only: the four liveness properties (`AppelTermine`,
`ModuleTermine`, `RoulementTermine`, `JeuTermine`), which are out of the prover's
reach with fairness. `MCGestion` also evaluates each strategy against a reference
definition over bounded inputs. Every other property of the runs that pass is
stated by a theorem.

## Disagreements between the code and what it says

Each of these is a run TLC refutes, with the line it quotes in `PROJECT.json`.

1. **A failed batch** (`roulement_lot`). `failed_when: false` rewrites the field
   the assertion after the wait reads, so a job that failed counts as one that
   came back and the next batch is fired.
2. **A finding nobody read comes out resolved** (`suivi_resolu`). The scopes
   `fleet_audit` calls measured carry no product: a zone whose load balancers did
   not answer is measured because its Instances did
   (`fleet_audit/tasks/main.yml` 191-202), and `audit_changes.py` 228-235 then
   resolves the load balancer's findings, against its own 49-51 and the README
   of the role, 140.
3. **Two accounts on one key of the cache** (`inventaire_fichier`). The
   fingerprint counts the access key only when an option or its environment
   variable gives it, and leaves `config_file` out (`config.py` 62-108): two
   configuration files that hold the keys of two accounts share an entry, which
   `config.py` 70-73 calls the gravest case.

Read in the code, without a run of its own here:

- *Two facets over PUT.* A PUT body is built from the first read (RT 1671): a
  field another playbook writes between that read and this write is put back, and
  both report success, while the class comment (RT 348-351) promises that two
  playbooks can manage two facets. `gestion_patch` shows the promise holds for
  PATCH.
- *The read after a write* shares the `except` of the write (RT 1690): if it
  fails, the module fails without `changed` though the API accepted the write,
  which ADR-010 warns of. `ChangedExact` only says that a failure never claims
  too much.
- *A machine in transition.* The state to leave is only required when the state
  read before the action is the one aimed at (RT 1850): a machine read while it
  starts, and up when the reboot is sent, satisfies the wait at its first read,
  against RT 425. The read before the action is stale as soon as somebody else
  moves the machine; `AttenteFidele` and `Travail` state exactly that exception.
- *Transport and action.* The error of a 429 does not carry the `Retry-After` it
  was given up for (RT 1001); a read that renders no state counts as having left
  (RT 441); a 2xx whose body cannot be read fails without `changed` (RT 1834).
- *Lists and names.* A list misses an element that stayed when another left
  between two pages (RT 583), which is why `ListeComplete` asks for a collection
  that keeps still; an element created or moved between two pages is seen twice
  and makes a name ambiguous that is not; a name that appears between the first
  and the second list is refused, though the message may cite it as a neighbour;
  without a count, a page the API caps below the size asked for is taken in silence
  for the last one (RT 578-580).
- *`rolling_reboot`.* The life of an async job is `wait_timeout` + 60 s while its
  last read may last four minutes (batch.yml 29); the result lists as changed
  the reboots that failed (main.yml 276).
- *`power_schedule`.* A machine stopped in place with `off` wanted ends refused,
  though a comment says both count as off (main.yml 149); a member of the group
  that is an Elastic Metal server is never readable by `instance_server_info`,
  so the role ends red; an inventory that failed is a warning, then an empty
  selection; the group comes from a cached inventory while the states are live.
- *Inventory.* A missing right on IPAM or VPC is a warning and the cached
  inventory passes for complete.
- *Reading a fleet over time.* The probes of nodes and of certificates use `item.zone`, which
  `resource_facts` no longer gives (`fleet_audit/tasks/main.yml` 132, 160);
  failures on nodes and pools never enter the mute scopes of `fleet_report`
  (97-119, 151-159); `current` drops the unmeasured findings
  (`audit_changes.py` 245), which come back as new; an audit without `instance`
  lists every zone as mute (67-69); a first audit with a snapshot that matches is
  quiet, not a baseline; a zone that has only load balancers is never compared.
- *Example platform.* The lock is read and written in two steps (92, 111): of two
  runs started together both may go on, against `verrou_plateforme.py` 19, which says
  that a second run is refused until the first has given back. The residue reference is
  captured before the lock is asked for (`example.py` 1169): a run that is then
  refused replaces the reference of the one at work, whose status 0 is then
  about another account than the one it found. Also,
  `derive` raises on a lock nobody can read though its docstring says it never
  does; `nettoyer_ce_que_kapsule_laisse` and the artefact (1377) may raise
  after a destruction that succeeded, and the removal of the lock is skipped; a
  refused lock leaves the proxy running.
- *Managing modules.* A PUT over a field compared by `id_list` would send back
  objects (RT 1677): no module is in this case today.

## What is not modelled

- **`noeuds.yml`**, the Kubernetes reading of `rolling_reboot`: the list is one
  call per region and cluster, and a mute region stops the role as an unreadable
  machine does here.
- **`run_info_module`**: one read or one list, then an exit; its calls are
  `Transport`'s and `Pagination`'s.
- **What the inventory makes of a host**: names, addresses, groups and filters
  are pure functions over what was discovered. The stability of unique names is
  a hazard the model does not cover yet.
- **Selection and results** (`select_hosts`, `operation_result`, ...): pure
  validation and reshaping; what they decide is part of the actions that call
  them.
- **The rules of the audit** and the normalisation of payloads: predicates over
  data, here a resource is sound or at fault.
- **The example platform against the emulator, `--garder`, and `deblocage.py`'s
  choice of network cards**: no lock or nothing to give back in the first two, a
  selection over data in the third.
- **Formatting and validation** (paths, queries, bodies, messages, diffs): no
  property here is about them. A `total_count` that is not a number raises, and
  the model takes it for one.
- **Generated modules**: data, the constants of the models.
- **The generator, the release, documentation and quality scripts**:
  translations and checks of files, byte for byte in the repository, without
  concurrency or state that outlives the process but the file written.
- **Playbooks and the event rulebook**: entry points without logic of their own.
- Inside `Transport`: TLS, the credentials, what a request carries.

Most lines of the repository are in these last groups: generated data, a batch
generator and command-line checks of the repository.

## Plan

Done: everything in the table of modules, with proofs for each component.

Left, in this order:

1. **`Noms`**: the unique names of the inventory as an algorithm against its
   reference definition, over two discoveries in a row.
2. `noeuds.yml` as a second way to fill the readings of `Roulement`.
3. `Horaire` over `Travail` by refinement, as `Roulement` is.
4. Measures that decrease at each step of a loop (the replays, the wait, the roll),
   proved as action properties: the part of termination that needs no fairness.

## Running it

`tlc -workers 2 -config MCTransport.cfg MCTransport` checks one run, and
`tlapm TransportProofs.tla` one module of proofs. The longest runs are
`gestion_patch`, `roulement` and `horaire` (one to two minutes each).
