# Diapason: specifications of its data path, its accounts and its mesh

Diapason is a personal assistant that runs on its user's machines. What it must
not lose is the user's conversations. They live in the `localStorage` of several
views (desktop windows, a phone on the tailnet), in one SQLite store per machine,
and, when the user has an account, sealed on a blind server shared by all their
machines. Every one of these copies is written to while the others are closed,
offline or half-way through an exchange. There is no central authority: the
server only compares revision numbers, the store only joins, and everything else
is decided by each device on its own. These modules model that path from one end
to the other, because it is where an interleaving nobody tested costs data. Two
neighbours of it are modelled as well: the account that holds the keys, where a
lost answer can cost everything at once, and the commands machines send each
other, where one delivery too many is an action done twice.

Paths below are relative to the repository. French identifiers are the code's.

## 1. Inventory

The first nine components are modelled, in full or in part; the rest of `src/` is listed in
`PROJECT.json` with the reason why each part is left out.

| Component | State | Operations | Talks to | Hard behaviour | What makes it correct |
|---|---|---|---|---|---|
| **Sync server** `diapason_comptes/routes_synchro.py`, `routes_pieces.py` | tables `comptes` (seq, octets, epoch, incarnation), `objets`, `pieces` | `sync_push`, `sync_changes`, `pieces_missing/put/delete`, `purger_retenues` | engines of all devices, over HTTP | a push is one transaction of many elements against carried counters; pages of a pull with writes between them; quota kept by differences; marks against claims | a resumed pull misses nothing; unique seqs; epochs follow seq; exact byte count; a claimed image stays |
| **Join** `fusionner_conversations` (`server/conversations_store.py`, repeated in `convSync.ts`) | none | pure | store, views, engine | must not depend on who calls it, in which order, how often | nothing truncated, repetition free, same messages in any order |
| **Local store** `ConversationsStore` | `conversations`, `tombales_posees`, `compteur` | `upsert`, `appliquer_tombale`, `delete`, `list`, `purger_tombales`, hooks | views by HTTP, the engine in process | purge in three sections around the lock; clocks of other machines; restart before the hook is set | state follows from dates; readers miss nothing; no early purge |
| **Views** `convSync.ts`, `store.ts` | copies, deletion queue, map of known versions, cursor | pull, push, write, delete, stream, reload | store, through its routes | one pull and one push in flight together, writes during both; lost and late requests; refusals | nothing written is forgotten, nothing deleted comes back |
| **Sync engine** `compte/synchro.py`, `compte/collections/conversations.py` | `connus`, `sortants`, `planchers_suppression`, cursors, generation | cycle: export, pull, push, conclude | store, server | two databases that do not commit together; conflicts; lost answers; server restored from a backup | "synchronised" is true; no blind overwrite; deletions defended |
| **Images** `compte/synchro.py`, `collections/conversations.py`, `routes_pieces.py` | `references_pieces`, `pieces_connues`, `pieces_manquantes`, `pieces` of the server | attach, detach, fill holes, deposit, claim, mark orphan, purge | engine, store, sync server | marks race claims of another device; deposits and pushes fail apart; keys rotate in between; a device lacks an image | no image the server's version names is purged; nobody erases an image it lacks; what is useless is marked |
| **Account, vault, sessions** `routes_identite.py`, `routes_coffre.py`, `jetons.py` | the account's row (incarnation, versions, password, recovery key, envelopes), tokens, codes, the awaited reset | login, vault commit, unwrap, reset request / confirm / complete, logout | account service of every device | a rotation kills all tokens and proofs at once; a reset is refused, awaited, due; late requests | the envelopes always open with what the server says; no former password comes back |
| **Account service of a device** `compte/service.py`, `etat.py`, `trousseau.py` | token, envelope, floors, lock, pending recovery key | connect, change, recover, replace, remove, sign out, reset; installation in four writes | accounts server, engine | answers lost after the commit; a process that dies between two writes; the engine's requests outside the lock of the gestures | the person holds the keys the account counts on; a living session never works from an old envelope |
| **Commands of the mesh** `mesh/dispatch.py`, `queue.py`, `commands.py`, `pull.py` | `mesh_commands` of both sides, nonces, presence | send, flush, expire, verify, record, execute, collect, report | other machines | one row delivered by two threads; redelivery after the nonce was pruned; death between row, effect and verdict | one effect per command; nothing called done that was not; nothing waits for ever |
| Security journal and restoration `journal.py`, `admin.py` | journal outside the database | append, replay | accounts server | replay after an older copy | *not modelled* |
| Life data `vie/sync.py`, `continuity.py` | stamped records, tombstones | merge, export | other machines | last writer wins | *not modelled* |
| Scheduler `scheduler/` | tasks, next runs | claim, run, reschedule | agents | restarts between claim and run | *not modelled* |
| Agents `agents/manager.py`, `executor.py` | agent states, locks | run, pause, resume | models | locks left by a crash | *not modelled* |

How a message travels: a view writes it to its own copy and PUTs it to the store
(`conversations_routes.py`); the store joins it under a new local number; the
other views of the machine GET what is numbered above their cursor; the engine
exports the same way, seals it and pushes it to the server with the revision it
believes it replaces; the engines of the other machines page through
`/sync/changes`, and hand what they find to their own store, which joins it; their
views pull it. Deletions travel as tombstones along the same path and are purged
from each store later; the engine keeps a floor per conversation that outlives
the purge.

## 2. Modules

| Module | Models | Composition |
|---|---|---|
| `SyncServer` | the server, with devices reduced to what they know (cursor, revisions) | |
| `RegistresSuivis` | what the server promises: registers and a feed | |
| `SyncServer_proofs` | theorems, and that the server implements its promise | EXTENDS SyncServer, which INSTANCEs `RegistresSuivis` |
| `FusionConversations` | the join, as pure operators | |
| `PorteursConversations` | holders that receive and exchange copies in any order | EXTENDS FusionConversations |
| `PorteursConversations_proofs` | theorems | EXTENDS PorteursConversations |
| `ConversationsStore` | the local store, its readers, its purge | EXTENDS FusionConversations |
| `ConversationsStore_proofs` | theorems | EXTENDS ConversationsStore |
| `VuesConversations` | the views | EXTENDS ConversationsStore: it drives the store's own actions |
| `VuesConversations_proofs` | theorems | EXTENDS VuesConversations, ConversationsStore_proofs |
| `MoteurSynchro` | devices (store, views and engine of each) and the server | |
| `MoteurSynchro_proofs` | types, deletions under restorations, what holds while the server is not restored, what goes out again after it was | EXTENDS MoteurSynchro |
| `ImagesConversations` | the images of conversations, between devices and server | |
| `ImagesConversations_proofs` | the inductive invariant, what the devices keep and follow, what the server still holds | EXTENDS ImagesConversations |
| `ComptesCoffre` | one account: its row and sessions on the server, its devices, their gestures | |
| `ComptesCoffre_proofs` | the inductive invariant, the vault and the sessions, the password and the recovery key | EXTENDS ComptesCoffre |
| `CommandesMaillage` | one device that sends commands and one that receives them | |
| `CommandesMaillage_proofs` | theorems | EXTENDS CommandesMaillage |
| `MC*` | instances for TLC | |

### SyncServer

One action per route; `PROJECT.json` gives each one's lines. A push is the only
transaction whose inside matters, so it is `PousserDebut` (account-level refusals,
purge), then one `PousserElement` per element of the batch, with one disjunct per
outcome (`ElementEcarte`, `ElementEnConflit`, `ElementDiffere`, `ElementHorsQuota`,
`ElementStocke`), and `PousserValider` or `PousserAnnuler`. The `Tx` variables are
what the open transaction would commit; other routes wait for it, as they do for
the connection's lock. `SyncChanges` leaves open where a page stops (it depends
on the bytes of the blobs), within `PageMax`. Time is `base.py`'s `jour()`.
What a device pushes is arbitrary, which is more than the engine does; a device
is a cursor, the revisions it believes in, and a page in flight that may be lost.
`VaultCommit` and `ResetComplete` are the two vault transactions that change what
`/sync` compares with.

`RegistresSuivis` is what all this is for, without transactions, pages, lost answers
or bytes: registers that change a batch at a time, each write under a date of its own,
and devices that move forward in a feed, to a point up to which they know every register.
`Implante` is `RegistresSuivis!Spec` under the mapping written at the end of
`SyncServer`: the committed tables, and of each device its cursor and revisions,
which count as nothing while it is still under a former incarnation (it starts over at
its next answer). `PousserValider` maps to `Ecrire`, `RecevoirPage` to `Suivre`, a write
of images or of the vault, which takes a seq too, to `Sauter`, a reset to `Effacer`, everything else to a stutter.

### FusionConversations, PorteursConversations

A message version is what `_meilleur_message` compares (length of the text,
number of fields, the text itself, and the rest, which it does not compare); a
conversation is its dates, the fields `_prime` orders, and its versions by key.
`Fusion` is the join with each tie-break. `PorteursConversations` lets holders
receive any copies, push and pull between themselves, and remembers what each was
given, directly or through another.

### ConversationsStore

`Upsert`, `AppliquerTombale` and `Delete` are each a transaction under the store's
lock. `purger_tombales` is three steps, as in the code: clock (`PurgerDebut`),
candidates under the lock (`PurgerLire`), `peut_purger` for each outside of it
(`PurgerDemander`), erasure under the lock again (`PurgerFin`), where only a
tombstone of the same date goes. `Redemarrer` is the constructor, which purges before any
hook is set and purges nothing if an account exists. The number of a write comes
from a counter of its own. Readers hold a cursor and one answer in flight.

### VuesConversations

Each `await` of `convSync.ts` is a step boundary: `Tirer` / `RecevoirTirage`,
`PousserDebut`, then for each request `PartirDelete` or `PartirPut`, `Servir` (the
store handles it: the store's own `Delete` and `Upsert` actions), `RecevoirDelete`
or `RecevoirPut`, and `PousserFin`, where the copies the push received are taken
in together. A request may be lost, with or without being handled later
(`errantes`), refused for good (`Refuser`, 4xx) or for now (`Interdire`, 403 of
the gateway); the page may be reloaded at any time (`Recharger`).

### MoteurSynchro

A cycle is the value of `pc[d]`: `repos`, `tire`, `page`, `absents`,
`pousse`, `vol`, `issue`, `conclut`; `examen[d]` is the element `_accueillir` works on. A step ends at a request or between a
commit in `conversations.db` and one in `compte.db`, since a process may die
there; each write to the engine's tables that commits alone is a step. The three
ways `_accueillir` can go (already known, older than known, new) and the two of
`_appliquer` (under the floor or not) are actions. `Interrompre` ends a cycle
anywhere, a push in flight possibly reaching the server later. `Sauvegarder` and
`Restaurer` replace the server's tables by an earlier copy, under a new
generation and without sessions. Conversations are a date and a set of messages: the
order of the join's tie-breaks is checked in `FusionConversations`.

### ImagesConversations

A conversation is reduced to what its messages say of their image: no message, a
message without its image, with it, or with a reference to it under an epoch
(`detacher` names an image by its content and the epoch's key, so a piece of the
server is an image and an epoch). A step of a device is one request with what it writes of
the answer: `Tirer`, the objects of the page or of a conflict (`Reconnaitre`,
`Douter`, `TenirPlancher`, `Ingerer`, with the downloads that fail, `ratees`, chosen
freely), `Reprendre`, the claim of the day (`Reclamer`, its deposits, `FinirReclamation`),
the lot (`PreparerLot`, `Deposer`, `Pousser`), the marks (`PreparerMarques`, `Marquer`),
`Conclure`. `Perdre` takes any of these requests from its device: handled,
never handled, or handled later. `Tourner` is a rotation: it revokes the other
sessions (`Expulser`) and puts the cycle under way of its own device under a past epoch (`Perimer`). The
server's part is that of `SyncServer`, without quota and pages; it is repeated here
because a step of `SyncServer` belongs to no device.

### ComptesCoffre

The server's requests (`VaultCommit`, `Login`, `Account`, `RecoveryUnwrap`,
`ResetComplete`) are one transaction each, on `compte`, the tokens, and the codes; `scelle`
is what the envelopes were sealed for, which the server cannot read. A device is its
floors, its envelope, its token, its lock (`serrure`) and what it awaits. A gesture
that needs the server's answer starts a call (`appel`), which holds `_operation` until
`Connexion`, `Deballage`, `RotationFaite`, `ReinitFaite`, `Echouer` or `Perdre`; a lost request
may be handled later (`tardives`). `Installe` is the four writes of `_installer`, of which
a process may leave the first ones only. `vaultVersion`, `keyringVersion` and `keyEpoch` move
together and are one `version`. The engine's request (`moteur`) is outside that lock, its
refusal inside, as `session_refusee` takes it. `permis` picks the gestures explored
together and bounds how many reach the server. An account request carries the code of its
gesture in `secret`, so that one record does for the two requests the gesture makes.

### CommandesMaillage

The sender's thread (`Demander`, `Inscrire`, `Livrer`, `Conclure`), its heartbeat (`Expirer`,
`Reprendre`, `Relivrer`, `RepriseConclue`) and, on the other machine, one thread per request
(`Verifier`, `Chercher`, `Enregistrer`, `Executer`, `NoterVerdict`) interleave between the
transactions they open one by one. A target that polls has `Relever`, `Accomplir`, `Accuser`, `NoterAccuse`.
A command is an id with its intention; `requetes[c][v]` is the delivery of `c` by the direct
call or by a flush. One clock serves both machines, `Derive` being the skew
`verify_command` tolerates; a polling device does what it collects once, and reports it.

## 3. Runs

All twelve finish within five minutes on two cores. Invariants marked *(I)*,
action properties *(A)*, liveness *(L)*.

| Run | Question | Properties |
|---|---|---|
| `server` | do pages, batches, quota, purge and claims fit together, and are they the registers devices follow? | `TypeOK`, `CurseurComplet`, `EpoquesOrdonnees`, `OctetsExacts`, `QuotaTenu` (I), `PieceReclameeGardee` (A), `Implante` (refinement), `Rattrapage` (L) |
| `join` | does the join depend on order or repetition? | `RienDeTronque`, `RedonnerSansEffet`, `MemesMessages` (I) |
| `store` | does the store's state follow from dates, and is the purge safe? | `TypeOK`, `SelonLesDates`, `LecteurComplet` (I), `PurgeSure` (A) |
| `views_faults` | do two views lose or resurrect anything under faults? | `CondamneeAbsente`, `VivantesVues` (I), `SuppressionTenue` (A) |
| `views_alone` | does everything leave a view in the end? | `SuppressionAboutit`, `ToutPart` (L) |
| `engine_conflicts` | do two engines, with writes, deletions, and up to two requests lost or late or deaths of a process, overwrite each other or forget? | `RienOublie`, `ConnuExact`, `SynchroniseVrai` (I), `SansEcrasement` (A) |
| `engine_restore` | and when the server goes back to an earlier copy, do devices end up alike? | `RienNeManque`, `SuppressionDefendue` (I), `Convergence` (L) |
| `images` | do images outlive what refers to them, under failures and rotations? | `ImageReferencee`, `ImageSuivie`, `TrouReference` (I), `ImageGardee` (A) |
| `accounts` | can gestures, lost answers and dying processes wall an account in, or bring back what was replaced? | `JamaisMuree`, `CleDetenue`, `SessionAJour` (I), `MotDePasseVoulu` (A) |
| `mesh` | does a command sent once act once, and is what its sender reads of it true? | `TypeOK`, `JamaisFaux`, `UneSeuleFois` (I), `VerdictTenu` (A), `ToutSeRegle` (L) |
| `views_lost_message` | *violation*, see 5 | `RienNeSePerd` |
| `accounts_own_rotation` | *violation*, see 5 | `SessionVivanteGardee` |

The comment over each property says which code it is about. Every property of a
passing run has at least one *mutant*, an operator named `Mut...` placed before
the definition it stands for: the same definition with a plausible bug. With
that bug TLC finds the property violated in the same run, so no property holds
only because the interesting case is out of bounds.

### Bounds, and why they are enough

- `server`: two objects, one image, one device, pages of one, batches of two,
  three seqs, three days for a retention of one, two epochs, two incarnations.
  Paging goes wrong as soon as an object is rewritten between two pages that
  each hold one; a batch as soon as it holds two elements; the quota (3) is
  reached by one large object and one small, with sizes 1, 2 and one above
  `ObjetMax`. What devices push is arbitrary, so one device sees every write of
  any number of others. `MCSyncServer_deux.cfg`, not a listed run, has two devices
  with symmetry and so no liveness; the theorems take any number.
- `join`: three copies out of 24, chosen to differ by each thing the join
  compares and by one thing it does not, two holders. Associativity needs three
  copies, commutativity two.
- `store`: two conversations and two messages, so that one row's purge can
  free a number another's reader would need; copies dated at 1 and at the largest
  date (here 2), where the date of a tombstone meets its ceiling. A retention
  of 0 lets a purge start one day after.
- `views_faults`: two views, one conversation, two messages, one of the views
  ahead by one, two numbers, one fault. `views_alone`: one view, two
  conversations of which the store refuses one, a clock that moves, one fault.
- `engine_*`: two devices, one conversation, up to three messages, one replay per cycle
  where the code has three (`_REJEUX_MAX`; exhaustion is what matters, and it is
  reached). Most of their depth goes to what happens to a conversation both devices
  hold. `engine_conflicts` starts there, or with the conversation still to be created
  and one message less to write; it has one clock for all and two acts among messages
  and failures (`ActesMax` counts the message of the start too; deletions are free), so a write
  from each device, a write and a failure, or two failures. `engine_restore` starts
  there, with one restoration, one clock ahead, a retention of 0 and no failure, over two
  dates; the server's copy may be taken at any moment, so a restoration goes back to any
  earlier point. `MCMoteur_retablie.cfg` starts from nothing.
- `images`: two devices, one conversation, one image, already sent or not, two
  epochs, two events among writes, deletions, rotations and failures, three days.
  The retention of one day stands for the thirty: a device completes a claim every day
  (`Cadence`), and a push the server handles late comes within `Cadence` days or never, so
  no cycle outlasts the retention. The theorem asks for a retention of four times that; TLC finds one
  day enough within these bounds. With a retention of 0
  `ImageReferencee` fails, and that is the residue `routes_pieces.py:22-25` names.
- `accounts`: two devices, two passwords, three versions and incarnations, two recovery
  keys, eight tokens or codes alive at once. Six families of gestures that meet on the
  server (rotations, removals, recoveries, resets, cancelled resets, the engine), each
  explored with up to three or four gestures that reach it, and one failure: a lost request
  or answer, a late request, or a process that dies in `_installer`.
- `mesh`: two commands of one intention, one of them `REQUIRE_ONLINE`, one flush of the
  queue beside the direct call, three dates for a life of one, a retention of nonces of 0, one
  failure. A second effect needs two deliveries of one command; a verdict
  goes wrong between two transactions of the target, where the failure may fall.

Symmetry: `Noms` permutes conversations and messages, only ever compared;
`Permutees` also devices, where clocks agree; `Symetrie` devices and passwords. No
liveness run uses symmetry.
`CHECK_DEADLOCK FALSE` is said where a system at rest may really stop: bounded
messages all written, clock at its last date. `SyncServer` never stops, since a
device can always pull.

### Fairness

- `SyncServer!Fairness`: an open transaction ends (`WF`: the route returns, or
  the `with` block rolls back); a device that keeps asking is served and handles
  the answer some time (`SF`, since pushes keep taking the lock and answers may be lost: a
  device retries every cycle, and a network that loses *every* answer is not
  claimed to converge). No fairness on what devices push, claim or mark.
- `FairSpecVues`: the ten-second timer of a view keeps the push going, answers to
  pulls are handled, a stream ends. None on the user, none on `Tirer`, and
  failures are at most `PannesMax`.
- `MoteurSynchro!FairSpec` and `FairSpecPartagee`: weak fairness of each device's cycle, which
  `servir` restarts for as long as the process lives, connecting again after a session is
  revoked included. That one is the user's doing; without it a device shows what
  it has, and the code promises no more. None on writes or on failures.
- `CommandesMaillage!FairSpec`: time passes, the heartbeat of each machine comes round
  (`heartbeat` runs for as long as the process), and a request that arrived is handled to its end
  unless its process dies. None on the user, on deliveries that succeed or on a device that polls.

## 4. Proofs

Each holds for any sets of devices, objects, commands, conversations and so on, finite or
not where the module does not ask for it, and any limits, satisfying the assumptions the module names.

| Module | Theorem | Says |
|---|---|---|
| `SyncServer_proofs` | `TypeCorrect` | `Spec => []TypeOK` |
| | `Inductive` | `Spec => []IInv` |
| | `SeqsAreUnique` | no two objects share a seq, none is above the account's |
| | `CursorIsComplete` | a device knows the current revision of all up to its cursor |
| | `EpochsFollowSeq` | epochs never decrease along seq |
| | `ClaimedImagesStay` | an image claimed within the retention is never erased |
| | `BytesAreExact` | the counter of bytes is the sum of what is stored |
| | `QuotaHolds` | current versions and images fit in the quota, and all there is in twice that |
| | `RegistersInductive` | `Spec => []IRegistres` |
| | `ServerImplementsRegisters` | the server implements `RegistresSuivis` |
| `ConversationsStore_proofs` | `StoreInductive`, `TypeCorrect` | `Spec => []IStore`, of which types are a part |
| | `ReadersMissNothing` | a reader's cursor leaves no write behind |
| | `DatesDecide` | copies and deletions give one row, in whichever order they come |
| | `PurgeIsSafe` | only an agreed tombstone past its retention goes |
| `PorteursConversations_proofs` | `CopiesAreJoins` | `Spec => []CopiesAbsorbees`, the inductive invariant |
| | `NoMessageTruncated` | a join keeps whole one of the versions of each message |
| | `RepeatedCopyIsIdle` | a copy received again changes nothing |
| | `SameCopiesSameMessages` | the same copies give the same messages, in any order |
| `VuesConversations_proofs` | `ViewsInvariant` | `SpecVues => []IVues`, the inductive invariant |
| | `CondemnedStaysOut` | a conversation being deleted does not come back into its view |
| | `NoRowSkipped` | a view shows every live row its cursor has passed |
| | `DeletionHeld` | a deletion leaves the queue only once the store has taken it |
| `MoteurSynchro_proofs` | `DeletionsDefended` | a deletion a device took in stays, restorations included |
| | `KnownIsExact` | what a device notes of the server is true |
| | `NothingForgotten` | every row is queued, to be exported, or known to be on the server |
| | `SynchronisedIsTrue` | "synchronised" is said of what the server covers or a deletion took |
| | `NoBlindOverwrite` | a push replaces nothing it does not follow |
| | `NothingMissing` | what a restored server lacks goes out again before a device says "synchronised" |
| `ImagesConversations_proofs` | `TypeCorrect` | `Spec => []TypeOK` |
| | `HolesClaimed` | a reference a device could not read is among those it claims |
| | `ImagesKept` | a live version keeps the images of the live version it replaces |
| | `ImagesFollowed` | some device is left to mark each image of the present epoch |
| | `ImagesReferenced` | what a conversation of the server refers to is on the server |
| `ComptesCoffre_proofs` | `AccountInductive`, `AccountTypes` | `Spec => []IComptes`, of which types are a part |
| | `NeverWalledIn` | what the envelopes are sealed for is what the server holds beside them |
| | `SessionsGoWithTheVault` | a device whose token is known holds the vault of now |
| | `NoFormerPassword` | a request that chooses no password changes none, even late |
| | `RecoveryKeyWasShown` | the recovery key of the account has been shown |
| `CommandesMaillage_proofs` | `TypeCorrect` | `Spec => []TypeOK` |
| | `CarriedOutOnce` | a dialled target carries each command out at most once |
| | `VerdictsStand` | a noted verdict never changes |
| | `NeverFalselyDone` | `SUCCESS` is said only of an intention some target carried out |

**The server.** `CursorIsComplete` is the one the design rests on. `CurseurComplet` alone is not
inductive: it says nothing of a page in flight, whose answer was true when it was
written, nor of an open push, which knows of writes the committed tables do not
hold. `IInv` adds three parts. `Tables`: rows are numbered uniquely up to the
account's seq, their epochs in order. `PousseeOuverte`: the same holds of the
working copy; what it rewrote is numbered above every committed seq; what its
author will be told is right below its cursor. `Connaissances`: no cursor and no page is
ahead of the account, and for every page in flight, what is at or below
its `until` is in the page at its current revision, or already known. The
key step is a commit under a page in flight: a rewritten object leaves the page's
range because its new seq is above the account's old one. `NextIInv` has one
lemma per action. Epochs are ordered because an element is stored only under the account's epoch,
at a new highest seq, and a rotation only raises the epoch.

`ClaimedImagesStay` rests on `IPieces`: whatever is marked orphan was marked on or after its
last claim. A mark that expires is then at least as recent as the claim, in the
committed table and in the one an open push is about to commit.

An account may exceed its quota, since former versions count and a version that does
not grow its object is always taken. `IOctets` says by how much: each object counted for the larger of its
two versions stays within the quota (`Contenu`), in the committed tables and in the working copy. Its sums are the folds the
model uses; what one more term does to them is proved by taking a smallest set that
disobeys, which needs no induction principle but needs finitely many identifiers (`IdentifiersAreFinite`: a form
of bounded length, `validation.py:416`).

**The registers.** `IRegistres` adds to `IInv` what the mapping needs and the server never
states: an open push that renumbers an object raises its revision, and its author will be
told that one (`Avancee`); no device believes a revision its incarnation has not reached, and no page in flight moves a
device backwards (`Croyances`). The initial states map to initial states, and each action to the step
named in section 2 or to a stutter; the longest case is an answer received, where
what the device knew, what the page said and the current revisions must agree up to
the page's end.

**The store.** `LecteurComplet` says nothing of an answer in flight, nor `PurgeSure` of an
agreement given for a row that may have changed since. `IStore` is `TypeOK`, then `Rangees`
(rows are numbered up to the counter, which outlives those a purge takes),
`SelonLesDates`, `Lectures` (what an answer in flight holds is current, or its row was written again
since, above that answer's end), and `PurgeJuste` (an agreement under way is for a tombstone old enough; if the
row moved on its date did too, and the erasure compares it). A write after a purge is the case that
matters: it takes a number no reader has passed.

**The accounts.** `JamaisMuree` alone is not inductive: a commit stores envelopes the server
cannot judge, so everything depends on who may still send one. `IComptes` adds `Formes`
(what a request of each kind carries) and `Justes`, in three parts. A device whose token
has a row knows the incarnation and the vault of now (`AppareilJuste`). A rotation whose
session or recovery token is still alive keeps the incarnation, and the key it says it keeps;
a reset whose code is still the code is sealed for the next incarnation (`DemandeJuste`). An answer on its
way describes the account of now if its token, or the one of the device it goes to, is
still alive, and an `account` answer confirms the incarnation while the code of the gesture lives
(`ReponseJuste`). Two lemmas carry the weight: `MondeGarde`, that all three survive when tokens
and codes only die, and `MondeTourne`, that they survive a new vault, because its
one token was drawn and is held by nobody. `PasServeur` and `PasIci` then reduce each handler
and each step of a device to the account it leaves or the device and the call it becomes.
Envelope before token in `_installer` matters in `InstalleJuste`: the other order leaves a live token beside
an old envelope. `RecoveryKeyWasShown` has an invariant of its own, `Detenues`, of the
key that waits to be confirmed and of the requests that would put one in place of another.

**The mesh.** `Inv` is `TypeOK` with `Faites` (a request that was carried out holds its verdict), `Releves`
(a device that collects is never dialled) and `Cible`: at most one delivery of a command is between its
verification and its row, covered by a nonce still known, at most one between its row and its verdict, and an
effect not yet noted keeps the row running. `Tic`'s guard counts there: a request is handled
within the retention of its nonce. `Vraies` follows the word `SUCCESS` back through the answer in flight
and the row it was read from.

**The join.** `CopiesAbsorbees` says that the copy of a holder is an upper bound of what reached
it, and that each of its parts was in one of those copies (`Absorbe`). All rests on
`FusionAbsorbe`, that the join of two upper bounds is one, which needs the lexicographic comparison
to be a total preorder and the number of messages of a join not to be below that of its inputs.
It is not an equality of copies: `MemeResultat` is false (section 5), so the theorems stop at messages.

**The views.** `IVues` has the store's part (`MagasinVues`: a live row is later than every tombstone it
had) and, for each view, what may be in flight. `VivantesVues` is threatened by an answer that comes late: a tombstone
read before the conversation was brought back could erase a copy the cursor has passed since. No tombstone a view was told
is later than the latest of the store (`DejaLue`), and the copy of a view is not earlier than the row
(`Montree`), so the join keeps the copy. `SuppressionTenue` excludes refused conversations
(`Refusables`), as its run does.

**The engine.** `SuppressionDefendue` follows from dates alone (`IDates`): the row passes every deletion the device took in or is about
to note, as a live copy of a later date or a tombstone at least as late; where the row is gone, the floor is that high and the
retention is over. What the server holds does not enter, so it may be restored at will.

The four theorems about a server that is not restored (`KnownIsExact` to `NoBlindOverwrite`) come from one chain. `Suit`, the order of contents, puts a content after another
if it is later, is its deletion, or holds its messages, and loses none but to a deletion somebody took in. The row of a
device moves forward in it (a purged row counts as its floor), hence so does the object of the server, since what a device pushes follows
what it took in of it and the server compares revisions. `Chaine` is `Types`, `IDates` and `Liens`; `Liens` speaks of one cell,
a device and a conversation, with a part for each place where content waits between two commits: the queue, the base
of the next push, the lot in flight or lost, its answers, the page, the element under examination. A step
of one cell only meets the progress of the server and the deletions of the others (`Progres`), which keeps the number
of cases to one per action and part.

`NothingMissing` is about restorations, so it can use nothing of what the server held before. A row that
nothing will send is one the device believes confirmed (`Suivies`), and of those one that the
server of now lacks is still to be looked for (`Cherchee`): by the complete pull under way, which has
not met it, or by the next one, while the device at rest does not call itself synchronised. A restoration
raises the generation and ends the sessions, so a device that has not seen it starts over before it trusts anything
(`VueJuste`), and what a server of this generation has said to hold it still holds (`Presente`). An
interruption with a cursor above 0 breaks `Cherchee`: the next pull is not complete. The theorem
excludes that step and no other (`Coupure`), with no assumption on delays or on the number of restorations;
that it must be excluded is what `MCMoteur_coupure.cfg` shows.

**The images.** The invariant has three parts. `Lignes` relates, for each device and conversation, the row with its
holes, what the device noted, the floor and the object of the server: whatever the server's version has, the
row that will replace it has whole or as a hole to fill (`Couverte`); page, lot and push on its way are covered likewise.
`TrouReference` and `ImageGardee` follow. `Suivi` says who has an image in view: each step of
a device loses none of the present epoch that it does not mark or leave unanswered (`VueGardee`). `Temps` gives each reference of
the server a deadline (`Echeance`): the next claim of a device that knows the
object, the one after it for a device that does not yet. A mark that a claim will lift in time
was set late enough that the purge comes after the claim (`Protege`). When a push is handled, the images it
refers to were claimed at most two `Cadence` ago, one before it left and one on its way, and a mark set since then
waits; it takes up to two more until the claim of a device that has still to learn of the object,
hence `4 * Cadence <= Retenue`. The code purges after 30 days and claims every day
(`routes_pieces.py:22-26`), so a device may miss a week. The factor is sufficient; it is not claimed to be the least.

The attempt to prove two properties of the engine showed that their former wording was too strong beyond the bounds of
the run, which TLC confirmed on larger instances. `SynchroniseVrai` made no exception for deletions: with three devices, a row
one device holds may have been deleted by another and the conversation written anew, later, by a third, before the first one pulls.
`SansEcrasement` excused the loss of a deleted message only by a floor: with more dates, a store deletes a
conversation and receives it anew before its engine has exported, hence before any floor. Both now name the same exception, a
store that took in a deletion dated at least like what is lost (`Supprimee`); losing it is what deleting means, and
everything else is kept.

The proofs assume what the modules declare: sizes and limits are naturals, `Rien`
is not a value (`RienIsNoConversation`, `RienIsNoRow`, `RienIsNoValue`, `EngineValues`), copies, conversations and
identifiers are finitely many where joins, pages and sums range over them (`CopiesAreFinite`, `EngineValues`,
`ImagesNumbers`, `IdentifiersAreFinite`), images have at least one device and one conversation, and the tokens of an account are at least
as many as its devices, each signed in at the start. The proofs about accounts hold for any bounds and any `Familles`, hence for all gestures together.
Those about deletions and the chain of the engine also assume `Absence <= Retention`: a view does not wait longer than tombstones are kept before it
pushes what it wrote. `MCMoteur_retour.cfg` shows what happens otherwise. The chain assumes `RestaurationsMax = 0` as well: once a restored server gives a
revision anew, a comparison of revisions no longer says what a push has seen (`synchro.py:2340`,
`MCMoteur_ecrasement.cfg`), so the theorems are about a server between two restorations.

Only model-checked, not proved: liveness under fairness (`Rattrapage`, `SuppressionAboutit`, `ToutPart`,
`Convergence`, `ToutSeRegle`), which the prover does not reach. Every other property of a passing
run is the conclusion of a theorem.

## 5. What the runs found

Two runs show the code doing what its documentation says it does not.

1. **`views_lost_message`.** After a pull, the map of known versions takes the
   pulled date (`convSync.ts:594`), while the joined copy keeps the higher of two.
   A message written locally but not pushed, dated no higher than the pulled
   copy, is never pushed: the view shows it, nobody else ever will.
2. **`accounts_own_rotation`.** The engine's requests are not under the lock of the
   gestures. A request that the server refuses because this same device has just
   changed its password waits for the gesture to end; `session_refusee`
   (`service.py:2112-2115`) then checks that the account is still the one refused, not that the token
   is, and drops the fresh session with its envelope. `tests/compte/test_deux_appareils.py:855`
   covers the other order, where the device asks after it has installed its new
   token. The window goes from the server's commit to the installation here.

More divergences have a configuration but no listed run; each violates the
property it checks in seconds or minutes with `tlc -config <cfg> <module>`:

- `MCMoteur_coupure.cfg` (`RienNeManque`): `_tirer` writes the cursor (`synchro.py:1594`) before
  it looks for what the server no longer has (`:1601`), and only a pull that
  started at 0 looks. After a restoration, one lost request in between and the missing
  objects are never sent again, though the state says `upToDate`. `NothingMissing` proves that there is no other way to it.
- `MCMoteur_ecrasement.cfg` (`SansEcrasement`): what `_absents` sends again goes out with the revision
  known before the restoration as its base (`:2340`). If another device has
  already pushed a newer copy up to that revision, the comparison succeeds and the older copy
  replaces one it never saw, which `routes_synchro.py:9-10` excludes. `_reaffirmer`, in the same
  file, does note a base.
- `MCCommandes_absence.cfg` (`AbsenceVraie`): a command said `OFFLINE`, "not
  carried out", may have been: the answer of its target was lost, or the delivery
  was still on its way when the row expired (`dispatch.py:366-373`, against `:10-12`).
- `MCCommandes_double.cfg` (`UnSeulEffet`): two commands of one intention asked before
  the first has an answer both leave: the look for the same intent (`dispatch.py:146`) and the
  insertion are two transactions.
- `MCCommandes_nonce.cfg` (`NonceGarde`): a nonce is forgotten after an hour
  (`commands.py:290`), where a command may live for six (`:251`, "past the maximum command
  lifetime"); the row of the command then stands alone between a second delivery and a
  second effect, and `UneSeuleFois` shows it is enough.
- `MCPorteurs_ordre.cfg` (`MemeResultat`): `_prime` counts messages before it
  compares titles, and a join has more messages than its inputs, so of three
  copies of one date the title kept depends on the order.
- `MCVues_fantome.cfg` (`SansFantome`): the copies a push received are taken in at its
  end (`convSync.ts:715-722`) without a look at the cursor; a conversation whose tombstone was pulled meanwhile comes back
  for good in that view.
- `MCVues_absente.cfg` (`ToutesVisibles`): rows of a conversation being deleted
  are dropped by a pull while the cursor passes them (`:520`); if another view's later write
  wins over the deletion, this view never shows it.
- `MCMoteur_retour.cfg` (`SuppressionDefendue`): a view that pushes long after it wrote
  (`Absence`) brings back a copy dated under a purged deletion; the
  export drops it from the queue as already deleted on the server
  (`synchro.py:1447`) and leaves the store showing it, on this device alone.

The passing runs state the strongest version that holds beside them: for
instance `VivantesVues` excludes conversations the view itself condemned, and the engine's
passing runs have `Absence = 0` and, where they check `SansEcrasement`, no restoration.

## 6. What is not modelled

- Server: reads that change nothing (previous version, image download); rate
  limits; the mapping of HTTP bodies.
- Join: order of the message list, replacement of isolated surrogates.
- Store: a write that raises (rolled back, so no step); a local clock set back;
  two purges at once; `sur_ecriture`, which only wakes the engine.
- Views: import of a backup, the `storage` event between two pages of one origin,
  a phone whose session ends (its requests stop), growth of one message.
- Engine: blobs that do not open, repair, quarantine and epochs; unknown
  collections; refusals and deferral per object, quotas; a change of
  account, incarnation or scope; consent; a server rolled back without a new
  generation; size limits of a batch; a local DELETE that dates an existing tombstone anew. An export is
  one step: its writes are repeated if it is cut, since its cursor is written
  last. `peut_purger` and the erasure are one step here; `ConversationsStore`
  separates them.
- Accounts: sign-up and deletion, a second account on a device, the remembered key (AMK), limits,
  mail, the rotation of the server's secrets. Requests whose answer changes nothing on the device
  (logout, the mail of a code) are one step, done or lost.
- Mesh: refusals before the queue, seals and signatures, `DROP_IF_OFFLINE`
  (no tool of the catalogue has it), the numbers of a flush and of a poll. Both machines share one clock, a device
  that polls does what it collects once, and a request is handled within the retention of its
  nonce (an hour).
- Images: sealing and opening, an image that does not open, quotas and refusals, limits
  on the number of a claim or of the marks of a cycle, several images in a message, two
  messages that hold the same image. `ImageSuivie` leaves out an image whose deposit or claim was
  never answered, or whose mark a claim lifted for a device that died before it deposited: nobody may mark it any more, the leak
  `compte-chiffre.md:1755` accepts; and images of past epochs, whose marks only the devices that knew them set.
- Hazards without a property, each with its reason in `PROJECT.json`; besides those, a blob that does not open and is repaired
  while another device writes (`synchro.py:2113`), a rollback without a new generation (`:1683`), and a deposit
  whose answer is lost (`:2782`, accepted in `compte-chiffre.md:1755`) are not modelled.
- Cryptography, transport, rendering, and the components `PROJECT.json` lists as
  not modelled.

## 7. What remains

In order of what it would cost if wrong:

1. The security journal and the restoration that replays it, beside `MoteurSynchro`, whose
   `Restaurer` stands for its effect.
2. `MoteurSynchro`: epochs, unreadable blobs, quarantine and repair, a rolled back
   server without a new generation. `ImagesConversations`: the least retention that suffices; that marks are set in the
   end, and that degraded devices do not push to each other without end.
3. Accounts: sign-up, deletion and the remembered key.
4. Life data sync (last writer wins with stamps and tombstones), the scheduler's claims, agents,
   approvals and streams of the local server, the workflow engine as a pure algorithm.

The repository holds 270,000 lines, most of them around external models and services, rendering,
or sequential code that tests reach. The modules cover the part of it where several
machines, processes or tabs share state.
