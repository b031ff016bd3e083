# TLA+ models of server_nest

`server_nest` is a NestJS server: file system nodes with folders, trash and
quotas, stored files shared by content, accounts with e-mail tokens, groups with
roles, media and profiles. Its rows live in PostgreSQL (Sequelize, a pool of
five connections, READ COMMITTED), its permissions in SpiceDB with an audit copy
in PostgreSQL, its sessions in Redis and its files on the local disk.

Most requests are: check (read rows, ask SpiceDB), then write in a transaction.
The checks hold no lock. What is hard to test is everything that happens between
a check and its write, between two stores that are written one after the other,
and in the background loops that go on after a request has answered. That is
what these modules are about.

## Inventory

| Component | State it keeps | Operations | Hard behaviour | What makes it correct |
|---|---|---|---|---|
| File system nodes (`file-system/services/node`) | `fs_node`: parent, owner, sizeCache | create file/folder, move, rename, list | moves and creations race with the deletion of the parent; FK sets parentID to NULL | no row is lost track of; quota equals rows |
| Trash (`services/trash`) | `deletedAt`, `metadata.trash`, grant `is_trashed`, task `soft_deleted` | soft delete, restore, purge | three stores per request; checks before the transaction | a node is in the trash in all stores or in none; a restore undoes a soft delete |
| Deletion tasks (`services/deletion-tasks`) | `fs_deletion_task`: status, lastProcessedChildID | create, restore, three worker loops | unbounded subtree, bounded batches, crashes, two commits in `deleteExternal` | a queued node and its subtree go, once; quota is refunded once; grants only go after rows |
| Quota (`access/fs-quota.service.ts`) | `fs_quota_usage` | checkAndAdjust, setLimit | concurrent uploads, refunds by the worker | used bytes equal the rows; the limit is never passed by an upload |
| Access policy (`services/access`) | none (reads nodes and SpiceDB) | assertPermissionsBatch, changeParent, createNode | stale when used; parent relation written outside the transaction | SpiceDB has the tree the rows have, and no folder is below itself |
| System folders (`services/system-node`) | rows with deterministic ids | ensure | concurrent first use | one row per folder, parents before children |
| ACE outbox (`access-control/outbox-tasks`) | `ace_outbox_task`: status, flags | deleteResource, worker loops | concurrent jobs, copies of rows in memory, failures between stages, recovery by time | flags are true; every task is completed; completed is final |
| Access control (`access-control.service.ts`) | `access_control_entries`, SpiceDB | grant, revoke, batches, reads | two stores, one transaction | whoever has access is listed |
| Stored files (`files`) | `file_storage`, `file_attachment`, temp and final paths | ingest, attach, finalise, detach | deduplication by hash, one temp path per content, finalisation after commit | a READY row has its file; refCount equals attachments |
| Accounts and tokens (`auth`, `users`) | `users`, `tokens`, sessions | register, log in, issue, verify, replace, change address or password | find-then-destroy without a transaction, shared types, commits not awaited, connections taken while one is held | one user per address; a token is used once, for its user; a session means a verified account; every request ends |
| Groups (`groups`) | groups, members, roles with masks | invite, request, accept, approve, leave, roles | status checked outside the transaction; mask read-modify-write | only allowed status changes; no lost permission |
| Media, profile, tags, infrastructure | rows | CRUD | little | — |

The components interact by calls inside one process and through the tables:
requests write `fs_node` and `fs_deletion_task`; the deletion worker reads both,
deletes rows, and calls `ACEOutBoxActionService.deleteResource`; the outbox worker
erases what SpiceDB and the audit hold for the node. `applyAclChanges` keeps
writing both stores meanwhile.

## Modules

| Module | Models | 
|---|---|
| `NodeErasure` | what deletion promises, without tables and loops |
| `FsDeletion` | `fs_node`, `fs_quota_usage`, `fs_deletion_task`, the requests that write them, the three loops of `DeletionWorkerService`; implements `NodeErasure` |
| `FsDeletion_proofs` | theorems about `FsDeletion` |
| `GrantErasure` | what the erasure of grants promises, without rows, flags and jobs |
| `AceOutbox` | `ace_outbox_task`, the loops of `OutboxWorkerService`, SpiceDB, the audit table, `applyAclChanges`; implements `GrantErasure` |
| `AceOutbox_proofs` | theorems about `AceOutbox` |
| `FileStore` | `file_storage`, `file_attachment`, the temporary and final files, `FilesManagerService`, uploads and removals of `MediaService`, uploads of `CreateFileService` |
| `FileStore_proofs` | theorems about `FileStore` |
| `Groups` | `group_member`, `group_roles`, the requests of `GroupMemberService`, `GroupRoleService`, `GroupPermissionService`, the checks of `GroupAccessService` |
| `Groups_proofs` | theorems about `Groups` |
| `FsTree` | the tree as rows of `fs_node` and as relations of SpiceDB; the requests of `NodeService`, `LinkService`, `TrashService` with the checks of `FSNodePolicyService` and `FsPermissionService`, the writes of `FsAclManagerService`, `SystemFolderService` |
| `FsTree_proofs`, `FsTreeAcyclic_proofs` | theorems about `FsTree` |
| `Accounts` | `users`, `tokens`, sessions, connections; the requests of `AuthService`, the services of confirmation, e-mail change, password recovery and second factor, OAuth login |
| `Accounts_proofs` | theorems about `Accounts` |
| `MCFsDeletion`, `MCAceOutbox`, `MCFileStore`, `MCGroups`, `MCFsTree`, `MCAccounts` | the instances TLC checks |

An operator whose name ends in `Slip` is a plausible mistake in the definition
that follows it. No behaviour of a specification uses one; each shows that a
property would notice the mistake.

### FsDeletion

State: the rows (`node`, `parentID`), the tasks by node (`status`,
`lastProcessedChildID`, `createdAt`), `usedBytes`, and the transaction of
`deleteExternal` (`tx`). A worker statement is one SQL statement and therefore one
action (`PendingStep`, `DeletingStep`). `deleteExternal` is three actions, because
the outbox commits in the middle of its transaction; `ExternalRollback` is a
failure or the death of the process at any point of it. The other statements are
atomic in PostgreSQL, so a crash between them is simply a state between two
actions: nothing of the model lives in memory except `tx`.

Requests are let through whenever the database would let them through. Their
permission checks are made before the transaction and hold no lock, so the write
may meet any state that is reachable in between. `Purge` models the transaction
of `PurgeService` and the contract of `DeletionTaskService.create`
(`SOFT_DELETED | PENDING`); at this commit its checks ask for a node in the trash,
whose task row then makes the insert fail, so that it succeeds only when a
restore comes in between. `FsTree` models those checks; what `FsDeletion` lets
through is more than they do. Links are left out: `SoftDeleteService` destroys them
at once. Node ids are numbers because uuidv7 ids are compared and grow with time;
they are drawn before the commit, so rows may appear out of order, and the model
lets them.

`late` is a history variable: nodes that were put below a parent when the parent,
or they themselves, had a task already. The scan of a folder cannot know of
them. `ScannedChildrenQueued` and `OrphansAreLate` say that nothing else is missed.

### AceOutbox

State: the rows (`task`), the running calls of `processSingleDeleteTask` (`job`, with
the copy of the flags each keeps in memory), what `Promise.all` waits for
(`awaited`), the two stores (`spice`, `ace`) and the transaction of `applyAclChanges`
(`acl`). Every SQL statement and every SpiceDB call is an action. `Fail` is a
rejected call: the job is gone, the loop goes on, its siblings still run. `GrowOld`
is five minutes without an update.

`RecoveryLoop` says whether the loop `PickTaskType.DELETING` is started. It is
commented out in `onModuleInit`; the safety runs start it because it is the harder
case (two jobs on one row), and `ace_outbox_stuck` does not.

`late` and `mixed` are history variables: grants that changed after a task was
sent, and grants that a failed call left in one of the two stores.

`GrantErasure` says the same as a specification of orders: an order to erase a resource
is a row of `ace_outbox_task`, open until it is completed (`Give`, `GiveAgain` for the upsert of
a pending row, `Close`); `access` is SpiceDB and `listed` the audit; `applyAclChanges` announces a grant,
sets it and settles (`Change`, `SetAccess`, `Settle`). An order is closed only when neither
store holds what it was owed, grants go only by an order about them or by a change, and
leave the list only when they give no access. Stages, flags, copies, recovery and most
failures are stutters. What a job takes away after its order is closed by another job
(both work on a row that was recovered too early) is allowed: it can only be what was
changed since.

### FileStore

State: the rows by content (`life`, `refCount`), the attachments (`attached`, by the
upload that made them), the disk (`temp`, `final`) and the phase of each request (`up`,
`rem`). One upload is `createTempFile` (`WriteTemp`, `Stat`), `ingestTempFile` (`Lookup`, then
`Insert` if there is no row), `attachFile` (`RemoveTemp` if there was one), the commit
(`Commit`), and in a transaction of its own `finalizeFileStorage` (`FinalizeLock`, `Rename`,
`FinalizeCommit`). A removal is `Find` (outside the transaction), `DestroyMedia`,
`LockFile`, `Detach`. What nobody else can see before the commit is part of the action
that commits. The row lock is not a variable: `Locked` says which phases hold it,
the insert of a hash that is not yet committed included.

Any request may fail at any step (`UploadFails`, `RemovalFails`), and all at once
(`Crash`). `refCount` starts at the default of the column, 0, and is only raised by
`attachFileToOwner`. Virus scan results, which nothing writes, and storage types other
than `LOCAL`, which nothing passes, are left out. A media and its attachment live and
die together in one transaction, so `attached` stands for both; the attachments of
nodes are never removed by the code.

Two history variables name the cases the code loses. `lost`: contents whose
temporary file was removed by an upload that found the row (`attachFile` unlinks the
path all uploads share) while another had committed and not moved it yet, and
contents whose finalisation was broken off. Such a row stays `PENDING` and without a
file, and later uploads of the content find the row and unlink the file they bring.
`late`: rows that were attached or finalised when they were `DELETING` already; the
mark is not taken back by the one and is overwritten by the other.

### Groups

State: the rows of one group (`member`, `roleID`, `role`, `mask`) and the running requests
(`req`, with what each has read). A request is three actions: the check of
`GroupAccessService` (`AskMembers`, `AskRoles`, `AskSelf`), the read of the row it is about
(`ReadMember`, `ReadRole`), and the transaction with its one statement (`Invite`,
`Activate`, `Destroy`, `SetRole`, `CreateRole`, `DeleteRole`, `WriteMask`). Anything may happen
in between: the permission may be withdrawn, the row deleted and made anew. Writes
go by primary key. Sequelize sends only what differs from what was read, hence the
guard on `seen` in `SetRole`; a mask always differs, since it is read as a string and
set as a bigint. `Fail` is every refusal and error: nothing else happens then.

`mask` is a set of bits. Expectations are kept in history variables: `agreed` (who
has agreed to the membership that is there), `added` and `removed` (what answered
requests on a mask have promised and nobody has asked to be otherwise since), and
`overtaken`: rows written by a request after another had deleted or written them under
its hands. There the promises fail: an accepted invitation may activate the request
to join that came after the invitation was withdrawn, and of two concurrent changes
of a mask one is lost. The properties say that nothing else goes wrong.

### FsTree

State: the rows (`node`, `nodeType`, `ownerID`, `parentID`, `deletedAt`, `oldPath`, `task`),
the relations (`owner`, `parent`, `blocked`, `isTrashed`, `role`) and the requests (`req`).
A request reads the rows of a check and applies the rules (`Look`), asks SpiceDB
(`Ask`), does both again for a second check if there is one, opens its transaction
and writes (`WriteRow`, `WriteNew`), writes SpiceDB while the transaction is open
(`Mirror`) and commits (`Commit`). What nobody else can see before the commit is part of
it; the locks of an open transaction are in `Unlocked`. `Refuse` is any refusal or
failure before the first write, `MirrorLost` a write to SpiceDB whose answer is lost,
`Rollback` any failure after. `EnsureRoot` and `EnsureTrash` make the system folders on
first use. `Inherited` is what SpiceDB computes for a permission of the schema, from
`Reach`, all that the relation leads to.

The relation `parent` is written with the folder as its resource and the child as
its subject, while the schema reads it the other way. So permissions are inherited
upward, from a child to its folders: a manager of a file may edit the folder it is in, and
a file in the trash puts its folder `in_trash`, where it can be neither edited nor
deleted (`fs_tree_trash`). The subtree check of a move asks the relation the way it is
written and is right.

Other things the model shows of the code as it is, all visible in its actions: a
restore is refused, because its second check, `MOVE`, refuses a deleted node, unless
the node has no old path (an orphan of a destroyed link), and one that got past the
check, while another restore had the node out of the trash, ends in a rollback with the mark in SpiceDB
gone, because its `changeParent` is given the node as the old parent and no new one; a purge meets the task of the soft
delete; a read of a node in one's own ROOT, or an update of it, is refused, because the
default target of a check is ROOT and `assertMoveRules` forbids a move to where the node
is; a move without a target, or of an orphan, fails in SpiceDB on an empty id; an
update with `isInherit` true grants `block_inherit`; destroying a link leaves its relations.

Three notes are history. `torn`: nodes whose relations were written and whose row was
not, because `changeParent` and `createNode` are not undone by a rollback. `crossed`: nodes
whose parent changed between the read of a move or soft delete and its write; the
second request revokes the relation the first has revoked already and leaves two folders. `raced`: a
move was committed although SpiceDB had changed since it asked. Names, sort keys, bytes
and quota are left out.

### Accounts

State: the users (`emailOf`, `verified`, `withPassword`, `twoFactor`), the tokens (`rows`, and
`issued`: what each was ever issued for), the users with a session, the requests (`req`) and
the connections left to them (`pool`). Every statement, mail and call of Redis is an
action. Issuing is `FindOld`, `DropOld`, `Create`, `SendMail` for all five kinds of token; using
one is `Present` (`DropExpired`), `FindOwner`, for a change of address `FindCode`, then the effect
(`Apply`, `ApplyPassword`, `ApplyChange`, `Spend`) and `Clear`, `ClearCode`. Registration, OAuth
login and confirmation hold a transaction (`tx`); statements they do not pass it
to take a second connection, and after a minute without one the request fails
(`AcquireTimeout`). `Fail` is any failure, `Crash` the death of the process.

Whether a token has expired is left open at each look. A mail that failed may have been
delivered. Links and codes are used by those who got them. The commit of `newVerification` is not awaited,
so the session may be saved and the answer given before it (`applied`, `answered`). An
account of OAuth is never found again, since the profiles of the providers are kept
without their id, and the person is refused as a duplicate.

Properties are stated up to history `notes`, each of which names a case the code loses:
`crossed` (two requests issue a token of one type for one address at a time: two
remain), `loose` (two requests have read one token, or one broke off between the
effect and the destruction: it acts twice), `left` (an address given up, or of a
registration rolled back after its mail, whose tokens serve whoever takes it next), `unbacked` (a session answered
and its confirmation lost). Two things no property is about: the confirmation of a new
address is mailed to the old one (`email-change.service.ts:218`), and the mail promises an
hour for a code that lasts fifteen minutes.

## Runs

| Run | Question | Bounds |
|---|---|---|
| `fs_deletion` | does any interleaving break the quota, the scan, the hand-over or `NodeErasure`? | ROOT, TRASH and three more rows of two owners; batches of one child, two tasks per pass; requests that insert tasks until time 2 |
| `fs_deletion_live` | does every queued node reach the end? | one row less |
| `ace_outbox` | do the flags, the audit, `completed` and `GrantErasure` survive concurrent jobs, failures, recoveries? | two resources, one a child of the other, three grants, batches of one, the file sent twice and the folder once, two jobs, one concurrent change of a grant |
| `ace_outbox_live` | is every task completed if the recovery loop runs? | each resource sent once, batches of two, no concurrent change |
| `ace_outbox_stuck` | and as deployed? (violated) | nothing fails, no recovery loop |
| `ace_outbox_blocked` | and if a resource is sent twice? (violated) | each resource sent up to twice |
| `file_store` | do references, marks and files stay in step, whatever overlaps and fails? | three uploads of one content (two media, one node), one of another, two removals |
| `file_store_live` | does every request end? | three uploads of one content, two removals |
| `groups` | do memberships rest on the agreement of both sides, and masks on what was answered? | one user, an owner who is no member, one role, two permissions, two requests at a time |
| `fs_tree` | do rows and SpiceDB agree on the tree, its owners and its trash, whatever interleaves and fails? | three trees of up to four nodes, one more to be created, two users, two requests at a time, eight mixes of up to four calls, one relation to share |
| `fs_tree_trash` | is `in_trash` what the schema says? (violated) | one soft delete |
| `accounts` | one user per address, one use per token, sessions only of verified accounts, and does every request end? | two users, one of them there, two addresses, two requests at a time on two or three connections, four tokens, ten mixes of up to four requests |

Why the bounds are enough. A batch of one makes every folder with a child need
several passes and a last empty one, which is where the counting could go wrong;
three free rows allow a folder with two children, and a chain of three; two tasks
per pass with three tasks make the order by age matter. In the outbox a batch of one
makes every stage with a relation take a last, empty pass, and a batch of two is
filled exactly by the two relations of the file in the live runs; two rows of
one resource are what the unique index is about; two jobs meet on one row after a
recovery. In `FileStore` three uploads of one content are one that creates the row,
one that finds it, and one whose insert is refused, and two of them are media that
two removals may take for the same; contents do not share anything, which the
fourth upload confirms. In `Groups` the properties are about one row and the requests
on it; two at a time let one overtake the other, any number one after the other, and
the user may hold the role that the requests change. The owner as a member of the own
group, whom nobody may remove, is left to the proofs. In `FsTree`
two moves of three folders are what a cycle takes, and two requests on one node what a crossing
takes; the mixes of `Plans` are the pairs and triples that write the same
row, relation or task. In `Accounts` two requests on two connections are what the pool
starves of, and each mix has the requests that can meet on one user, address or
token. `LastRequest`, `MaxTask`, `MaxSend`, `MaxAcl`, `MaxNode`,
`MaxToken`, `Plans` only bound how often the outside
world acts.

Fairness. The loops never end and retry after an error (`startTasksWorkerLoop`), so
each worker statement is weakly fair. A step that a failure can interrupt again
and again is strongly fair: SpiceDB and the database are not down for ever. No
request of the worker modules is fair. In `FileStore` a request that has begun goes on
(weak fairness of its steps: it is an `async` function that awaits a query or the
disk), and nothing says that one begins. In `Accounts` the steps of a request are
strongly fair, since the pool and row locks serve those who wait in the order they
came, and the acquire timeout is weakly fair. `FsTree` has no liveness. `AceOutbox!CalmSpec` leaves out the failures altogether.

Deadlock is not checked: the system may stop for lack of requests.

## Proofs

`FsDeletion_proofs` proves, for every number of rows, owners, sizes, limits and batch
sizes, with `FsDeletionAssumption` and `SizeAssumption` (`SizeOf` is an additive
measure) only:

- `TypeCorrect`, `QuotaCorrect`, `ScanComplete`, `OnlyLateOrphans`, `HandOverOrder`: the
  invariants of the run `fs_deletion`;
- `ImplementsErasure`: `Spec => ErasureSpec`, the refinement of `NodeErasure`.

None of them is inductive alone. `IInv` adds what ties a task to its row: ROOT and
TRASH never get a task; a row is absent exactly while its task is past `deleting`
or it was never created; a `soft_deleted` node lies in TRASH or was attached late;
`deleteExternal` only holds tasks in `deleting_external`, and after the outbox commit
they are in `outbox`. Quota needs that a row in `deleting` is charged exactly while it
exists; the scan needs that children of a scanned parent have tasks or are late;
orphans need the scan. There is one lemma per action and one step per conjunct
the action can disturb.

`FileStore_proofs` proves, for every set of contents, uploads and removals (finitely many
uploads: `FileStoreAssumption`), `TypeCorrect`, `CountCorrect`, `ReadyIsThere`,
`MarkedIsUnused` and `FileStays`, the invariants of the run `file_store`. Its `IInv` adds that
one request at a time has the row of a content (`OneHolder`); that the phases agree
with the row (`RowExists`), so that a first `Commit` finds no attachment; that one
removal at a time has deleted a media and its attachment is still there
(`OneDestroyer`), so that the count is never taken down twice; and that the temporary
file is not touched until there is a row (`FileOnDisk`), because only an upload that
found the row, or the finalisation, unlinks it.

`Groups_proofs` proves, for every set of users, roles, permissions and requests,
`TypeCorrect`, `MembersAgreed` and `MasksAnswered`. `IInv` adds what a request may rely on
when it writes: a membership that it has read and nobody has deleted is still agreed
to by the other side (`AnswersStand`), a mask that it has read and nobody has written is
the mask (`ReadIsFresh`), and what it is about to write contradicts no promise
(`NotPromised`).

`AceOutbox_proofs` proves, for every set of resources, grants and jobs and every limit
of the loops, `TypeCorrect`, `FlagsTrue`, `AccessListed` and `CompletedStays`, the
properties of the run `ace_outbox`. A flag in a row is only as true as the copy it was
saved from, so `IInv` says it of both (`ClaimsHold`: a claim of a row, of a running job or
of a completed task). It adds that a job has a row and comes to the audit after both
stages of SpiceDB (`JobsStand`); that a resource has one pending row (`OnePending`, the
unique index), or a repeated call would clear the history of the wrong one; that a
grant changed after a task was sent may differ from then on (`LateIsMixed`); and what the
open transaction has done so far (`AclStands`: an audited row it holds is locked, so the
outbox cannot take it away meanwhile).

`ImplementsGrantErasure` is `Spec => GrantErasureSpec` from the same invariant: `Save` closes
an order because all its claims hold (`SaveCloses`), the audit stage takes off the list only
what the claims of the two earlier stages cover (`StageErases`), and a call of
`deleteResource` on a pending row gives the order again unless a job still works on it
(`DeleteGives`).

`FsTree_proofs` proves, for every set of users, requests and relations, every number of
nodes and every tree to start with, all properties of the run `fs_tree`. Its
`IInv` says what fits a request in each phase (`RequestsFit`); that open
transactions exclude each other on a row and on a task (`Locks`); that a created
node is known to nobody else before its commit (`IdsAreFresh`, `NewIsAlone`); that what is
deleted lies in a trash with a task and a mark, but for open transactions (`TaskOfRow`,
`Marked`, `TrashHome`); that a move finds the parent it has read (`HeldParent`), so that the
relation it revokes is the one there is (`Mirrors`, `MirroredMove`); that only orphans are ever
restored (`OrphansAreRestored`); and that a mirrored request still has its goal (`GoalIsKept`).

`FsTreeAcyclic_proofs` proves `Acyclic`, with finitely many users (`UserAssumption`; each has
two system folders, and `Reach` goes as many rounds as there are nodes). It has three
parts. First, `Reach` is the least set that holds its base and is closed under the edges
(`ReachIsLeast`): every round before a closed one adds a node. The induction over the rounds
goes by the least number a claim fails for (`Least`, from the well-foundedness of `Nat`), since
the theorems of the library that take a predicate as a parameter cannot be instantiated
here. So what SpiceDB answers a move from is reachability and no approximation of it
(`LeadsToIsReachability`), and the permissions nest as the schema means them to
(`PermissionsNest`; note that `delete`, unlike `edit`, holds on a blocked node).

Second, the inductive invariant `AInv`, next to `IInv`. It is not about rows alone: a cycle of
rows is closed by a commit, whose answer was given when other rows and relations were
there. So `ParentNoLoop` says that the relation `parent` has no loop, in the form that
every set of nodes has one that has none of the set above it; `MovesClear` that above the folder of a
move that was granted and not overtaken SpiceDB still does not have the node, shown by a closed set
without it (`Clear`); `RowsTold` that the folder of a row is one SpiceDB knows, but for the row of
an open move, or a trash or none; `RowTops` that the system folders are on top; `MovesTold`
that a move that is mirrored is in SpiceDB; `PlacesKnown` that nothing is below a node
that is still to be created. Third, when the moves have ended the edges of the rows are those of SpiceDB, or
lead to a trash, which is below a root only: no loop there is none here (`RowsHaveNoLoop`).
The invariant holds while nothing is torn or raced. The attempt to prove it for a restore
into a folder, which told SpiceDB nothing in an earlier form of the model, failed, and
showed that the code does not commit one either: `CommitRestore` now says so.

`Accounts_proofs` proves, for every set of users, addresses and requests and every number
of tokens and connections, all invariants of the run `accounts`; `RequestsEnd` stays with
TLC. `IInv` says what a request of each operation has in each phase (`RequestsFit`: its
shape, that its tokens were issued, that the user it acts on has an account, and is the
one of its token unless the address was given up); that requests about to commit a user
exclude each other (`AccountsStand`); that the user of a token has its address, will have it or
has lost it (`TokensHaveUser`), or a token could act on the wrong one; that between the look for an
old token and the insert of the new one there is none but the old one (`OldIsFound`), or the
insert would leave two; that two who hold a token are noted (`HeldOnce`), and so nobody will act
on a token that was acted on (`ActedIsOver`). Every step changes one request: each part has
a lemma that says what keeps it while one request moves on, and the lemma of an action proves
the others.

Only model-checked: `QueuedIsErased`, `TasksComplete` and both `RequestsEnd` (liveness under
fairness is beyond the prover).

## What the checks show

The deletion pipeline does what it promises for every row that was below a node
when the node was queued. Rows attached later are left without a parent and stay
charged to their owner: that is what `late` marks.

Stored files keep their count and never claim to be ready without a file. They do
not always keep the file: an upload that finds the row between the commit and the
finalisation of the first one removes the only copy, and no later upload brings it
back (`lost`). Groups keep to what was agreed and answered, except where a request was
overtaken between its read and its write.

The outbox never loses the truth about what it has erased. Its progress is another
matter: as deployed a task whose first batch is full stays in `processing` for ever
(`ace_outbox_stuck`), and with the recovery loop two hung tasks of one resource block
the recovery of all (`ace_outbox_blocked`). Both are listed as findings in
`PROJECT.json`.

The two copies of the tree agree wherever no request was interrupted or crossed: rows
have owners, a row is where SpiceDB says, moves build no cycle, and the trash is
the same in all three stores. What goes into the trash from a folder does not come back
(`TrashIsFinal`), and what `in_trash` means in SpiceDB is not what the schema intends
(`fs_tree_trash`, the third finding).

Accounts keep to one user per address and tokens to their user and their single use,
where requests do not overlap on one token or address; where they do, the notes say
what is lost. The pool never blocks for good, thanks to its timeout alone.

## Not modelled

See `components` in `PROJECT.json` for each part and the reason. In short: reads,
listings and query builders; names, sort keys and metadata; metadata extraction and the
antivirus; captcha, the wording of mails, OAuth redirects, Redis; CRUD of tags, media,
groups, roles of users and profiles; lists of permissions and `MANAGE`; the limits of
batches in SpiceDB, which depend on the environment.

## Plan

What is left, in order:

1. `ResourceErasure`: `FsDeletion` and `AceOutbox` composed; from a queued node to the
   last erased grant. Today the hand-over is an invariant of the one and an input of the other.
2. `FsTree` with the deletion worker: rows that go while requests on them are open.
3. Names: the unique index of names in a folder and the renaming of a restored node.
4. Expiry of grants: a caveat in SpiceDB, a column in PostgreSQL.
