-------------------------- MODULE StorageAccounts --------------------------
(***************************************************************************)
(* The storage analyzer: the accounts a workspace refers to, found by three *)
(* listings that overlap and break off without an error in the report; the  *)
(* capacity of each and the space of each dedicated pool, read by workers.  *)
(* Ids are compared in lower case, so an account is one in all listings.    *)
(***************************************************************************)
EXTENDS Integers, Sequences, FiniteSets, FiniteSetsExt, SequencesExt, Functions

CONSTANTS StSites,         \* workspaces and servers, see MCMeasures
          StWorkers,       \* SMA_STORAGE_CAPACITY_CONCURRENCY
          StPoolWorkers,   \* SMA_STORAGE_POOL_DMV_CONCURRENCY
          StMaxFailures    \* bound: calls that are refused or break off

Unread == -1
NoName == ""
NoAccount == [name |-> NoName, group |-> NoName]
Blob == {"BlobCapacity", "BlobCount", "ContainerCount"}
Services == [blobServices |-> Blob, fileServices |-> {"FileCapacity", "FileCount"}, tableServices |-> {"TableCapacity"},
             queueServices |-> {"QueueCapacity"}]
Capacities == {"UsedCapacity"} \cup UNION Range(Services)

\* An account has a name, which no other has in all of Azure, and measures that are
\* not negative; a pool has its name to itself and a finite number of partitions.
AccountsSound(all) ==
  \A a \in all :
    /\ a.name # NoName /\ \A b \in all : b.name = a.name => b.id = a.id
    /\ \A m \in DOMAIN a.metrics : a.metrics[m] \in Nat
PoolsSound(pools) ==
  /\ \A i, j \in DOMAIN pools : pools[i].name = pools[j].name => i = j
  /\ \A p \in Range(pools) :
       IsFiniteSet(p.partitions) /\ \A x \in p.partitions : x.reserved \in Int /\ x.used \in Int
ASSUME StorageAssumption ==
  /\ {StWorkers, StPoolWorkers} \subseteq Int /\ StMaxFailures \in Nat
  /\ \A s \in StSites :
       /\ {s.standalone, s.includeAll} \subseteq BOOLEAN
       /\ AccountsSound(Range(s.held) \cup Range(s.elsewhere)) /\ PoolsSound(s.pools)
       /\ s.held \in Seq(Range(s.held)) /\ s.elsewhere \in Seq(Range(s.elsewhere))
       /\ s.references \in Seq(Range(s.references)) /\ s.pools \in Seq(Range(s.pools))

VARIABLES stSite,      \* the workspace and what the subscription holds
          default,     \* the workspace's own account, as far as it could be read
          attached,    \* the names accounts must have
          accounts,    \* the accounts of the report, in order
          items,       \* index |-> where the worker of an account, or then of a pool, is
          stReport,    \* the capacities and the space of pools
          steps,       \* the progress bar
          broken,      \* the calls that failed: the log has them
          stErrors, stStage

stVars == <<stSite, default, attached, accounts, items, stReport, steps, broken, stErrors, stStage>>

Breaks(call) == Cardinality(broken) < StMaxFailures /\ broken' = broken \cup {call}

-----------------------------------------------------------------------------
\* Which accounts: that of the workspace and those its linked services name, or
\* all. A workspace that cannot be read has no account of its own; a listing of
\* linked services that breaks off names those before.

ReadWorkspace ==
  /\ stStage = "workspace"
  /\ \/ default' = stSite.default /\ UNCHANGED broken
     \/ default' = NoAccount /\ Breaks(<<"workspace">>)
  /\ stStage' = "references"
  /\ UNCHANGED <<stSite, attached, accounts, items, stReport, steps, stErrors>>

DefaultName == {default.name} \ {NoName}
NamesUpTo(n) == DefaultName \cup Range(SubSeq(stSite.references, 1, n))
ReadReferences ==
  /\ stStage = "references"
  /\ \/ stSite.includeAll /\ attached' = {} /\ UNCHANGED broken
     \/ ~stSite.includeAll /\ attached' = NamesUpTo(Len(stSite.references)) /\ UNCHANGED broken
     \/ /\ ~stSite.includeAll /\ Breaks(<<"references">>)
        /\ \E n \in 0..Len(stSite.references) : attached' = NamesUpTo(n)
  /\ stStage' = "subscription"
  /\ UNCHANGED <<stSite, default, accounts, items, stReport, steps, stErrors>>

\* An account without an id, met before, or without a name that is asked for,
\* is passed over.
Admitted(account) ==
  /\ account.id # NoName /\ account.id \notin {a.id : a \in Range(accounts)}
  /\ stSite.includeAll \/ account.name \in attached
\* Mutant: every account of a listing is taken.
TakenAgain(listing) == DOMAIN listing
\* Where a listing has an account for the first time.
Taken(listing) ==
  LET admitted == {i \in DOMAIN listing : Admitted(listing[i])}
  IN {i \in admitted : \A j \in admitted : listing[j].id = listing[i].id => i <= j}
Ascending(positions) ==
  CHOOSE q \in [1..Cardinality(positions) -> positions] : \A i, j \in DOMAIN q : i < j => q[i] < q[j]
Part(listing, positions) == LET turns == Ascending(positions) IN [k \in DOMAIN turns |-> listing[turns[k]]]
EmitAll(listing) == accounts \o Part(listing, Taken(listing))
InGroup(group) == Part(stSite.held, {i \in DOMAIN stSite.held : stSite.held[i].group = group})

\* A listing is read to its end, or up to the page that fails.
ReadListing(stage, asked, listing, next) ==
  /\ stStage = stage
  /\ \/ accounts' = EmitAll(IF asked THEN listing ELSE <<>>) /\ UNCHANGED broken
     \/ asked /\ Breaks(<<stage>>) /\ \E n \in 0..Len(listing) : accounts' = EmitAll(SubSeq(listing, 1, n))
  /\ stStage' = next
  /\ UNCHANGED <<stSite, default, attached, items, stReport, steps, stErrors>>
ListSubscription == ReadListing("subscription", TRUE, stSite.held, "group")
ListGroup == ReadListing("group", stSite.group # NoName, InGroup(stSite.group), "default")
\* The workspace's account by its name; it may lie elsewhere.
OwnAccount ==
  LET all == stSite.held \o stSite.elsewhere
  IN Part(all, {i \in DOMAIN all : all[i].name = default.name /\ all[i].group = default.group})
LookUpDefault == ReadListing("default", default.name # NoName /\ default.group # NoName, OwnAccount, "count")

QueuedItems(list) == [i \in DOMAIN list |-> [phase |-> "queued", values |-> <<>>]]
CountAccounts ==
  /\ stStage = "count"
  /\ steps' = [total |-> 1 + Len(accounts), done |-> 1]
  /\ stErrors' = IF accounts = <<>> THEN {<<"storage_accounts">>} ELSE {}
  /\ items' = QueuedItems(accounts)
  /\ stStage' = IF accounts = <<>> THEN "pool_list" ELSE "capacities"
  /\ UNCHANGED <<stSite, default, attached, accounts, stReport, broken>>

-----------------------------------------------------------------------------
\* Workers take accounts, then pools, in order.

TakeItem(i, count) ==
  /\ items[i].phase = "queued"
  /\ Cardinality({j \in DOMAIN items : items[j].phase = "running"}) < Min({Len(items), Max({1, count})})
  /\ \A j \in 1..(i - 1) : items[j].phase # "queued"
  /\ items' = [items EXCEPT ![i] = [phase |-> "running", values |-> <<>>]]
  /\ UNCHANGED <<stSite, default, attached, accounts, stReport, steps, broken, stErrors, stStage>>
FinishItem(i, how, values) ==
  /\ items[i].phase = "running" /\ items' = [items EXCEPT ![i] = [phase |-> how, values |-> values]]
  /\ UNCHANGED <<stSite, default, attached, accounts, stReport, steps, stErrors, stStage>>

TakeAccount(i) == stStage = "capacities" /\ TakeItem(i, StWorkers)

\* _fetch: the metrics Azure Monitor knows of the resource, after the request
\* was made again without each it does not know.
Fetch(account, metrics) == {m \in metrics : m \in DOMAIN account.metrics}
\* Mutant: a service that is not there fails the account.
AllOrNothing(account, missing) ==
  IF missing = {} THEN [m \in Capacities |-> IF m \in Fetch(account, Capacities) THEN account.metrics[m] ELSE Unread]
  ELSE [m \in Capacities |-> Unread]
\* latest_capacity: what a service that fails measures stays unread.
LatestCapacity(account, missing) ==
  LET asked == {"UsedCapacity"} \cup UNION {Services[s] : s \in DOMAIN Services \ missing}
  IN [m \in Capacities |-> IF m \in Fetch(account, asked) THEN account.metrics[m] ELSE Unread]
AccountMeasured(i) ==
  /\ stStage = "capacities"
  /\ \E down \in SUBSET (DOMAIN Services \ accounts[i].without) :
       /\ broken' = broken \cup {<<"capacity", accounts[i].id, s>> : s \in down} /\ Cardinality(broken') <= StMaxFailures
       /\ FinishItem(i, "done", LatestCapacity(accounts[i], accounts[i].without \cup down))
AccountFails(i) ==
  stStage = "capacities" /\ Breaks(<<"capacity", accounts[i].id>>) /\ FinishItem(i, "failed", <<>>)

ItemsOver == \A i \in DOMAIN items : items[i].phase \in {"done", "failed"}
Failed == {i \in DOMAIN items : items[i].phase = "failed"}
Succeeded == {i \in DOMAIN items : items[i].phase = "done"}
ReportCapacities ==
  /\ stStage = "capacities" /\ ItemsOver
  /\ stReport' = [stReport EXCEPT !.capacities = {[account |-> accounts[i].id, values |-> items[i].values] : i \in Succeeded}]
  /\ stErrors' = stErrors \cup {<<"capacity", accounts[i].name>> : i \in Failed}
  /\ steps' = [steps EXCEPT !.done = @ + Len(accounts)]
  /\ items' = <<>> /\ stStage' = "pool_list"
  /\ UNCHANGED <<stSite, default, attached, accounts, broken>>

-----------------------------------------------------------------------------
\* The dedicated pools. A server has nothing else.

ListStoragePools ==
  /\ stStage = "pool_list"
  /\ \/ /\ items' = QueuedItems(stSite.pools) /\ steps' = [steps EXCEPT !.total = @ + Len(stSite.pools)]
        /\ stStage' = (IF stSite.pools = <<>> THEN "done" ELSE "pools") /\ UNCHANGED <<broken, stErrors>>
     \/ /\ Breaks(<<"pools">>) /\ stErrors' = stErrors \cup {<<"dedicated_pool_discovery">>} /\ stStage' = "done"
        /\ UNCHANGED <<items, steps>>
  /\ UNCHANGED <<stSite, default, attached, accounts, stReport>>
TakeStoragePool(i) == stStage = "pools" /\ TakeItem(i, StPoolWorkers)

\* pool_size.sql and _populate_pool_storage, in MB, of the pages reserved and
\* used; what is reserved and not used is called index space, and the rest of
\* the reserved space unused. The share of the largest size is in hundredths of
\* a percent, when both are known and not 0.
SpaceOf(f) == MapThenSumSet(LAMBDA x : f[x], DOMAIN f)
SizeOf(pool) ==
  LET reserved == SpaceOf([p \in pool.partitions |-> p.reserved])
      data == SpaceOf([p \in pool.partitions |-> p.used])
      index == SpaceOf([p \in pool.partitions |-> p.reserved - p.used])
  IN [note |-> "none", tables |-> Cardinality({p.table : p \in pool.partitions}), reserved |-> reserved, data |-> data, index |-> index,
      unused |-> Max({reserved - data - index, 0}),
      usedPct |-> IF pool.max > 0 /\ reserved > 0 THEN (10000 * reserved) \div pool.max ELSE Unread]
\* A pool that is paused or fails looks empty but for a note.
NotSized(note) == [note |-> note, tables |-> 0, reserved |-> 0, data |-> 0, index |-> 0, unused |-> 0, usedPct |-> Unread]
PoolSized(i) ==
  /\ stStage = "pools"
  /\ FinishItem(i, "done", IF stSite.pools[i].paused THEN NotSized("paused") ELSE SizeOf(stSite.pools[i]))
  /\ UNCHANGED broken
SizingFails(i) ==
  /\ stStage = "pools" /\ ~stSite.pools[i].paused
  /\ Breaks(<<"pool_size", stSite.pools[i].name>>) /\ FinishItem(i, "failed", NotSized("failed"))

\* Mutant: a pool that failed is left out.
KeepSized(which) == {[pool |-> stSite.pools[i].name, size |-> items[i].values] : i \in which \cap Succeeded}
PoolRows(which) == {[pool |-> stSite.pools[i].name, size |-> items[i].values] : i \in which}
ReportPools ==
  /\ stStage = "pools" /\ ItemsOver
  /\ stReport' = [stReport EXCEPT !.pools = PoolRows(DOMAIN items)]
  /\ stErrors' = stErrors \cup {<<"pool_size", stSite.pools[i].name>> : i \in Failed}
  /\ steps' = [steps EXCEPT !.done = @ + Len(items)]
  /\ stStage' = "done"
  /\ UNCHANGED <<stSite, default, attached, accounts, items, broken>>

EmptyStorage == [capacities |-> {}, pools |-> {}]
StorageInit ==
  /\ stSite \in StSites /\ default = NoAccount /\ attached = {} /\ accounts = <<>> /\ items = <<>> /\ stReport = EmptyStorage
  /\ broken = {} /\ stErrors = {}
  /\ steps = [total |-> IF stSite.standalone THEN 1 ELSE 0, done |-> 0]
  /\ stStage = IF stSite.standalone THEN "pool_list" ELSE "workspace"
StorageNext ==
  \/ ReadWorkspace \/ ReadReferences \/ ListSubscription \/ ListGroup \/ LookUpDefault \/ CountAccounts
  \/ ReportCapacities \/ ListStoragePools \/ ReportPools
  \/ \E i \in DOMAIN items : \/ TakeAccount(i) \/ AccountMeasured(i) \/ AccountFails(i)
                             \/ TakeStoragePool(i) \/ PoolSized(i) \/ SizingFails(i)

-----------------------------------------------------------------------------
Wanted(account) == account.id # NoName /\ (stSite.includeAll \/ account.name \in {stSite.default.name} \cup Range(stSite.references))
Found(account) == account.id \in {a.id : a \in Range(accounts)}

\* An account is listed once, and only if the workspace has to do with it. One
\* the credential can see is missing only if the listing that broke off was the
\* last to hold it, or if what the workspace refers to could not be read.
AccountsFound ==
  /\ IsInjective([i \in DOMAIN accounts |-> accounts[i].id]) /\ \A a \in Range(accounts) : Wanted(a)
  /\ (~stSite.standalone /\ {<<"workspace">>, <<"references">>} \cap broken = {}) =>
       /\ <<"subscription">> \notin broken => \A a \in Range(stSite.held) : Wanted(a) => Found(a)
       /\ (<<"group">> \notin broken /\ stSite.group # NoName) => \A a \in Range(InGroup(stSite.group)) : Wanted(a) => Found(a)
       /\ <<"default">> \notin broken =>
            \A a \in Range(stSite.elsewhere) :
              (Wanted(a) /\ a.name = stSite.default.name /\ a.group = stSite.default.group /\ a.group # NoName) => Found(a)

\* Each account and each pool of the report is measured or has an error, and one
\* service that fails takes nothing else with it; the parts of a pool's space
\* are its space, and a pool nobody measured can be told from one that is empty.
AccountsMeasured ==
  /\ \A a \in Range(accounts) :
       (\E c \in stReport.capacities : c.account = a.id) <=> <<"capacity", a.id>> \notin broken
  /\ \A a \in Range(accounts) : <<"capacity", a.name>> \in stErrors <=> <<"capacity", a.id>> \in broken
  /\ \A c \in stReport.capacities, a \in Range(accounts) : c.account = a.id =>
       \A s \in DOMAIN Services : \A m \in Services[s] \cap DOMAIN a.metrics :
         c.values[m] = Unread => s \in a.without \/ <<"capacity", a.id, s>> \in broken
  /\ <<"pools">> \in broken \/ {p.pool : p \in stReport.pools} = {p.name : p \in Range(stSite.pools)}
  /\ \A p \in stReport.pools, held \in Range(stSite.pools) : p.pool = held.name =>
       /\ (p.size.note = "none" <=> ~held.paused /\ <<"pool_size", p.pool>> \notin stErrors)
       /\ p.size.note = "none" => p.size.data + p.size.index + p.size.unused = p.size.reserved
       /\ p.size.note # "none" => p.size.usedPct = Unread

\* The bar counts no step twice, and of a workspace it comes to its end; that of
\* a server begins with a step nobody takes.
StepsCounted ==
  /\ steps.done <= steps.total
  /\ stStage = "done" => steps.total - steps.done = IF stSite.standalone THEN 1 ELSE 0

\* What the storage report says of accounts and pools, once it is made.
StorageTrue == /\ StepsCounted
               /\ stStage = "done" => AccountsFound /\ AccountsMeasured
=============================================================================
