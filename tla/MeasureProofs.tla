--------------------------- MODULE MeasureProofs ---------------------------
(***************************************************************************)
(* Proofs about what is measured of a workspace, for any number of accounts, *)
(* pools, metrics, databases and requests: the storage report, the report  *)
(* on serverless pools and the metrics of the dedicated pools.             *)
(***************************************************************************)
EXTENDS MCMeasures, SumTheorems

-----------------------------------------------------------------------------
(* Storage: the accounts.                                                  *)

\* Positions, one after the other.
LEMMA AscendingLists ==
    ASSUME NEW K, IsFiniteSet(K), K \subseteq Nat
    PROVE  /\ Ascending(K) \in [1..Cardinality(K) -> K] /\ Cardinality(K) \in Nat
           /\ \A i, j \in 1..Cardinality(K) : i < j => Ascending(K)[i] < Ascending(K)[j]
           /\ \A k \in K : \E i \in 1..Cardinality(K) : Ascending(K)[i] = k
<1>1. Ascending(K) \in [1..Cardinality(K) -> K] /\ \A i, j \in DOMAIN Ascending(K) : i < j => Ascending(K)[i] < Ascending(K)[j]
  <2>1. \E q \in [1..Cardinality(K) -> K] : \A i, j \in DOMAIN q : i < j => q[i] < q[j]
    BY ListedUpwards
  <2> QED
    BY <2>1, Zenon DEF Ascending
<1> QED
  BY <1>1, UpwardsListsAll

\* Some position is the first.
LEMMA FirstOf == ASSUME NEW K, K \subseteq Nat, K # {} PROVE \E i \in K : \A j \in K : i <= j
<1>1. PICK i \in K : \A j \in K : <<j, i>> \notin OpToRel(<, Nat)
  BY WFMin, NatLessThanWellFounded
<1>2. ASSUME NEW j \in K PROVE i <= j
  <2>1. i \in Nat /\ j \in Nat
    OBVIOUS
  <2>2. ~ (j < i)
    BY <1>1, <2>1, <<j, i>> \in Nat \X Nat DEF OpToRel
  <2> QED
    BY <2>1, <2>2
<1> QED
  BY <1>2

\* One list behind another has the members of both.
LEMMA RangeConcat ==
    ASSUME NEW A, NEW a \in Seq(A), NEW b \in Seq(A)
    PROVE  Range(a \o b) = Range(a) \cup Range(b)
<1> DEFINE n == Len(a)
           m == Len(b)
           r == a \o b
<1>1. /\ r \in Seq(A) /\ n \in Nat /\ m \in Nat /\ DOMAIN r = 1..(n + m) /\ DOMAIN a = 1..n /\ DOMAIN b = 1..m
      /\ \A i \in 1..(n + m) : r[i] = IF i <= n THEN a[i] ELSE b[i - n]
  OBVIOUS
<1> HIDE DEF n, m, r
<1>2. ASSUME NEW x \in Range(r)
      PROVE  x \in Range(a) \/ x \in Range(b)
  <2>1. PICK i \in 1..(n + m) : x = r[i]
    BY <1>1 DEF Range
  <2>2. i <= n => i \in 1..n /\ x = a[i]
    BY <1>1, <2>1
  <2>3. ~ (i <= n) => i - n \in 1..m /\ x = b[i - n]
    BY <1>1, <2>1
  <2> QED
    BY <1>1, <2>2, <2>3 DEF Range
<1>3. ASSUME NEW x \in Range(a)
      PROVE  x \in Range(r)
  <2>1. PICK i \in 1..n : x = a[i]
    BY <1>1 DEF Range
  <2>2. i \in 1..(n + m) /\ r[i] = x
    BY <1>1, <2>1
  <2> QED
    BY <1>1, <2>2 DEF Range
<1>4. ASSUME NEW x \in Range(b)
      PROVE  x \in Range(r)
  <2>1. PICK i \in 1..m : x = b[i]
    BY <1>1 DEF Range
  <2>2. n + i \in 1..(n + m) /\ ~ (n + i <= n) /\ (n + i) - n = i
    BY <1>1
  <2>3. r[n + i] = b[(n + i) - n]
    BY <1>1, <2>2
  <2>4. r[n + i] = x
    BY <2>1, <2>2, <2>3
  <2> QED
    BY <1>1, <2>2, <2>4 DEF Range
<1> QED
  BY <1>2, <1>3, <1>4 DEF r

\* A part of a listing holds what is at its positions, each once.
LEMMA PartOf ==
    ASSUME NEW A, NEW listing \in Seq(A), NEW K, K \subseteq DOMAIN listing
    PROVE  /\ IsFiniteSet(K) /\ Cardinality(K) \in Nat /\ K \subseteq Nat
           /\ Part(listing, K) \in Seq(A) /\ Len(Part(listing, K)) = Cardinality(K)
           /\ \A i \in 1..Cardinality(K) : Ascending(K)[i] \in K /\ Part(listing, K)[i] = listing[Ascending(K)[i]]
           /\ \A i, j \in 1..Cardinality(K) : Ascending(K)[i] = Ascending(K)[j] => i = j
           /\ Range(Part(listing, K)) = {listing[i] : i \in K}
<1> DEFINE m == Cardinality(K)
           turns == Ascending(K)
           new == Part(listing, K)
<1>1. IsFiniteSet(K) /\ K \subseteq Nat /\ DOMAIN listing = 1..Len(listing) /\ Len(listing) \in Nat
  <2>1. DOMAIN listing = 1..Len(listing) /\ Len(listing) \in Nat
    OBVIOUS
  <2>2. IsFiniteSet(1..Len(listing))
    BY <2>1, FS_Interval
  <2> QED
    BY <2>1, <2>2, FS_Subset
<1>2. /\ turns \in [1..m -> K] /\ m \in Nat
      /\ \A i, j \in 1..m : i < j => turns[i] < turns[j]
      /\ \A k \in K : \E i \in 1..m : turns[i] = k
  BY <1>1, AscendingLists
<1>3. new = [k \in 1..m |-> listing[turns[k]]]
  BY <1>2 DEF Part
<1> HIDE DEF turns, m, new
<1>4. ASSUME NEW i \in 1..m, NEW j \in 1..m, turns[i] = turns[j]
      PROVE  i = j
  <2>1. turns[i] \in Nat /\ turns[j] \in Nat
    BY <1>1, <1>2
  <2>2. ~ (i < j) /\ ~ (j < i)
    BY <1>2, <1>4, <2>1
  <2> QED
    BY <1>2, <2>2
<1>5. \A i \in 1..m : turns[i] \in K /\ listing[turns[i]] \in A
  BY <1>1, <1>2
<1>6. new \in Seq(A) /\ Len(new) = m /\ DOMAIN new = 1..m
  BY <1>2, <1>3, <1>5
<1>7. Range(new) = {listing[i] : i \in K}
  BY <1>2, <1>3, <1>6 DEF Range
<1> QED
  BY <1>1, <1>2, <1>3, <1>4, <1>5, <1>6, <1>7 DEF turns, m, new

IdsDiffer(list) == \A i, j \in DOMAIN list : list[i].id = list[j].id => i = j
IdsOf(list) == {a.id : a \in Range(list)}
Asked(account) == account.id # NoName /\ (stSite.includeAll \/ account.name \in attached)

\* What a listing adds: each account asked for, once.
LEMMA EmitAllAdds ==
    ASSUME NEW A, accounts \in Seq(A), IdsDiffer(accounts), NEW listing \in Seq(A)
    PROVE  /\ EmitAll(listing) \in Seq(A) /\ IdsDiffer(EmitAll(listing))
           /\ Range(accounts) \subseteq Range(EmitAll(listing))
           /\ \A a \in Range(EmitAll(listing)) : a \in Range(accounts) \/ (a \in Range(listing) /\ Asked(a))
           /\ \A a \in Range(listing) : Asked(a) => a.id \in IdsOf(EmitAll(listing))
<1> DEFINE n == Len(accounts)
           T == Taken(listing)
           m == Cardinality(T)
           turns == Ascending(T)
           r == EmitAll(listing)
<1>1. /\ T \subseteq DOMAIN listing /\ DOMAIN listing = 1..Len(listing) /\ IsFiniteSet(T) /\ T \subseteq Nat
      /\ \A i \in T : Asked(listing[i]) /\ listing[i].id \notin IdsOf(accounts) /\ \A j \in T : listing[j].id = listing[i].id => i = j
  <2>1. T \subseteq DOMAIN listing /\ DOMAIN listing = 1..Len(listing) /\ Len(listing) \in Nat
    BY DEF Taken
  <2>2. IsFiniteSet(T)
    <3>1. IsFiniteSet(1..Len(listing))
      BY <2>1, FS_Interval
    <3> QED
      BY <2>1, <3>1, FS_Subset
  <2>3. ASSUME NEW i \in T
        PROVE  Asked(listing[i]) /\ listing[i].id \notin IdsOf(accounts)
    BY DEF Taken, Admitted, Asked, IdsOf
  <2>4. ASSUME NEW i \in T, NEW j \in T, listing[j].id = listing[i].id
        PROVE  i = j
    <3>1. i <= j /\ j <= i
      BY <2>4 DEF Taken
    <3> QED
      BY <2>1, <3>1
  <2> QED
    BY <2>1, <2>2, <2>3, <2>4
<1> DEFINE new == Part(listing, T)
<1>2. /\ m \in Nat /\ new \in Seq(A) /\ Len(new) = m
      /\ \A i \in 1..m : turns[i] \in T /\ new[i] = listing[turns[i]]
      /\ \A i, j \in 1..m : turns[i] = turns[j] => i = j
      /\ Range(new) = {listing[i] : i \in T}
  <2> HIDE DEF T
  <2> QED
    BY <1>1, PartOf
<1>3. /\ r \in Seq(A) /\ Len(r) = n + m /\ n \in Nat /\ DOMAIN r = 1..(n + m) /\ DOMAIN accounts = 1..n
      /\ \A i \in 1..n : r[i] = accounts[i]
      /\ \A i \in 1..m : r[n + i] = listing[turns[i]]
      /\ Range(r) = Range(accounts) \cup Range(new)
  <2>1. r = accounts \o new
    BY DEF EmitAll
  <2> HIDE DEF r, T, m, turns, new
  <2>3. r \in Seq(A) /\ Len(r) = n + m /\ n \in Nat /\ DOMAIN r = 1..(n + m) /\ DOMAIN accounts = 1..n
    <3>1. accounts \in Seq(A) /\ new \in Seq(A) /\ Len(new) = m
      BY <1>2
    <3>2. /\ r \in Seq(A) /\ Len(r) = Len(accounts) + Len(new) /\ Len(accounts) \in Nat
          /\ DOMAIN r = 1..(Len(accounts) + Len(new)) /\ DOMAIN accounts = 1..Len(accounts)
      <4>1. accounts \in Seq(A) /\ new \in Seq(A)
        BY <3>1
      <4>2. r \in Seq(A)
        BY <2>1, <4>1
      <4>3. Len(r) = Len(accounts) + Len(new)
        BY <2>1, <4>1
      <4>4. Len(accounts) \in Nat /\ DOMAIN accounts = 1..Len(accounts)
        BY <4>1
      <4>5. DOMAIN r = 1..Len(r)
        BY <4>2
      <4> QED
        BY <4>2, <4>3, <4>4, <4>5
    <3> QED
      BY <3>1, <3>2
  <2>4. ASSUME NEW i \in 1..n
        PROVE  r[i] = accounts[i]
    BY <1>2, <2>1, <2>3
  <2>5. ASSUME NEW i \in 1..m
        PROVE  r[n + i] = new[i]
    <3>1. n + i \in 1..(n + m) /\ n + i > n
      BY <1>2, <2>3
    <3>2. r[n + i] = new[n + i - n]
      BY <1>2, <2>1, <2>3, <3>1
    <3>3. n + i - n = i
      BY <1>2, <2>3
    <3> QED
      BY <3>2, <3>3
  <2>7. Range(r) = Range(accounts) \cup Range(new)
    BY <1>2, <2>1, RangeConcat
  <2> QED
    BY <1>2, <2>3, <2>4, <2>5, <2>7
<1> HIDE DEF new
<1> HIDE DEF r, T, m, turns
<1>4. ASSUME NEW i \in DOMAIN r
      PROVE  \/ i \in 1..n /\ r[i] = accounts[i]
             \/ \E k \in 1..m : i = n + k /\ r[i] = listing[turns[k]] /\ turns[k] \in T
  <2>1. CASE i <= n
    BY <1>3, <1>2, <2>1
  <2>2. CASE i > n
    <3>1. i - n \in 1..m /\ n + (i - n) = i
      BY <1>3, <1>2, <2>2
    <3> QED
      BY <1>3, <1>2, <3>1
  <2> QED
    BY <1>3, <1>2, <2>1, <2>2
<1>5. IdsDiffer(r)
  <2> SUFFICES ASSUME NEW i \in DOMAIN r, NEW j \in DOMAIN r, r[i].id = r[j].id
               PROVE  i = j
    BY DEF IdsDiffer
  <2>1. \A x \in 1..n : accounts[x].id \in IdsOf(accounts)
    BY <1>3 DEF IdsOf, Range
  <2>2. CASE i \in 1..n /\ r[i] = accounts[i]
    BY <1>1, <1>3, <1>4, <2>1, <2>2 DEF IdsDiffer
  <2>3. ASSUME NEW k \in 1..m, i = n + k, r[i] = listing[turns[k]], turns[k] \in T
        PROVE  i = j
    <3>1. CASE j \in 1..n /\ r[j] = accounts[j]
      BY <1>1, <2>1, <2>3, <3>1
    <3>2. ASSUME NEW l \in 1..m, j = n + l, r[j] = listing[turns[l]], turns[l] \in T
          PROVE  i = j
      <4>1. turns[k] = turns[l]
        BY <1>1, <2>3, <3>2
      <4> QED
        BY <1>2, <4>1, <2>3, <3>2
    <3> QED
      BY <1>4, <3>1, <3>2
  <2> QED
    BY <1>4, <2>2, <2>3
<1>6. Range(accounts) \subseteq Range(r)
  BY <1>2, <1>3 DEF Range
<1>7. ASSUME NEW a \in Range(r)
      PROVE  a \in Range(accounts) \/ (a \in Range(listing) /\ Asked(a))
  <2>1. CASE a \in Range(new)
    <3>1. PICK i \in T : a = listing[i]
      BY <1>2, <2>1
    <3> QED
      BY <1>1, <3>1 DEF Range
  <2> QED
    BY <1>3, <2>1
<1>8. ASSUME NEW a \in Range(listing), Asked(a)
      PROVE  a.id \in IdsOf(r)
  <2>1. CASE a.id \in IdsOf(accounts)
    BY <1>6, <2>1 DEF IdsOf
  <2>2. CASE a.id \notin IdsOf(accounts)
    <3> DEFINE K == {j \in DOMAIN listing : Admitted(listing[j]) /\ listing[j].id = a.id}
    <3>1. PICK i \in DOMAIN listing : a = listing[i]
      BY DEF Range
    <3>2. K # {} /\ K \subseteq Nat
      <4>1. Admitted(listing[i])
        BY <1>8, <2>2, <3>1 DEF Asked, Admitted, IdsOf
      <4> QED
        BY <1>1, <3>1, <4>1
    <3>3. PICK j \in K : \A l \in K : j <= l
      <4> HIDE DEF K
      <4> QED
        BY <3>2, FirstOf
    <3>4. j \in T
      BY <3>3 DEF T, Taken
    <3>5. listing[j] \in Range(r) /\ listing[j].id = a.id
      BY <1>2, <1>3, <3>3, <3>4
    <3> QED
      BY <3>5 DEF IdsOf
  <2> QED
    BY <2>1, <2>2
<1> QED
  BY <1>3, <1>5, <1>6, <1>7, <1>8 DEF r

-----------------------------------------------------------------------------
(* The invariant of the storage analyzer.                                  *)

StEarly == {"workspace", "references", "subscription", "group", "default", "count"}
StStages == StEarly \cup {"capacities", "pool_list", "pools", "done"}
Held == Range(stSite.held) \cup Range(stSite.elsewhere)
References == Range(stSite.references)
NamesRead == {<<"workspace">>, <<"references">>} \cap broken = {} /\ ~stSite.standalone

StWhere ==
  /\ stSite \in StSites /\ stStage \in StStages /\ DOMAIN stReport = {"capacities", "pools"}
  /\ stSite.standalone => stStage \in {"pool_list", "pools", "done"} /\ accounts = <<>>

\* What accounts are asked for is what the workspace names, as far as it was read.
StNames ==
  /\ default \in {stSite.default, NoAccount} /\ attached \subseteq {stSite.default.name} \cup References
  /\ stStage # "workspace" /\ NamesRead => default = stSite.default
  /\ stStage \notin {"workspace", "references"} /\ NamesRead =>
       stSite.includeAll \/ attached = ({stSite.default.name} \ {NoName}) \cup References

StAccounts == accounts \in Seq(Held) /\ IdsDiffer(accounts) /\ \A a \in Range(accounts) : Wanted(a)

\* A listing that was read to its end gave all it had.
ListedWhole(stages, call, listing) ==
  NamesRead /\ stStage \notin {"workspace", "references", "subscription"} \cup stages /\ <<call>> \notin broken =>
    \A a \in Range(listing) : Wanted(a) => Found(a)
StComplete ==
  /\ ListedWhole({}, "subscription", stSite.held)
  /\ stSite.group # NoName => ListedWhole({"group"}, "group", InGroup(stSite.group))
  /\ NamesRead /\ stStage \notin {"workspace", "references", "subscription", "group", "default"} /\ <<"default">> \notin broken =>
       \A a \in Range(stSite.elsewhere) :
         (Wanted(a) /\ a.name = stSite.default.name /\ a.group = stSite.default.group /\ a.group # NoName) => Found(a)

StSteps ==
  LET before == IF stSite.standalone THEN [total |-> 1, done |-> 0] ELSE [total |-> 1 + Len(accounts), done |-> 1 + Len(accounts)]
  IN /\ stStage \in StEarly => steps = [total |-> 0, done |-> 0]
     /\ stStage = "capacities" => steps = [total |-> 1 + Len(accounts), done |-> 1]
     /\ stStage = "pool_list" => steps = before
     /\ stStage = "pools" => steps = [total |-> before.total + Len(stSite.pools), done |-> before.done]
     /\ stStage = "done" => /\ steps.total \in Nat /\ steps.done \in Nat /\ steps.done <= steps.total
                            /\ steps.total - steps.done = IF stSite.standalone THEN 1 ELSE 0

\* What is not measured of an account has no service or an error.
Told(a, values, calls) ==
  \A s \in DOMAIN Services : \A m \in Services[s] \cap DOMAIN a.metrics :
    values[m] = Unread => s \in a.without \/ <<"capacity", a.id, s>> \in calls
StMeasuring ==
  /\ stStage \in StEarly => \A a \in Held : <<"capacity", a.id>> \notin broken
  /\ stStage \in StEarly \cup {"capacities"} =>
       stReport.capacities = {} /\ \A a \in Held : <<"capacity", a.name>> \notin stErrors
  /\ stStage = "capacities" =>
       /\ DOMAIN items = DOMAIN accounts
       /\ \A i \in DOMAIN items :
            /\ items[i].phase \in {"queued", "running", "done", "failed"}
            /\ items[i].phase = "failed" <=> <<"capacity", accounts[i].id>> \in broken
            /\ items[i].phase = "done" => Told(accounts[i], items[i].values, broken)
StMeasured ==
  stStage \in {"pool_list", "pools", "done"} =>
    /\ \A a \in Range(accounts) :
         /\ (\E c \in stReport.capacities : c.account = a.id) <=> <<"capacity", a.id>> \notin broken
         /\ <<"capacity", a.name>> \in stErrors <=> <<"capacity", a.id>> \in broken
    /\ \A c \in stReport.capacities, a \in Range(accounts) : c.account = a.id => Told(a, c.values, broken)

StSizing ==
  /\ stStage # "done" => stReport.pools = {} /\ \A p \in Range(stSite.pools) : <<"pool_size", p.name>> \notin stErrors
  /\ stStage = "pools" =>
       /\ DOMAIN items = DOMAIN stSite.pools
       /\ \A i \in DOMAIN items : LET p == stSite.pools[i] IN
            /\ items[i].phase \in {"queued", "running", "done", "failed"}
            /\ items[i].phase = "done" => items[i].values = IF p.paused THEN NotSized("paused") ELSE SizeOf(p)
            /\ items[i].phase = "failed" => items[i].values = NotSized("failed") /\ ~p.paused
StSized ==
  stStage = "done" =>
    /\ <<"pools">> \in broken \/ {p.pool : p \in stReport.pools} = {p.name : p \in Range(stSite.pools)}
    /\ \A p \in stReport.pools, held \in Range(stSite.pools) : p.pool = held.name =>
         /\ (p.size.note = "none" <=> ~held.paused /\ <<"pool_size", p.pool>> \notin stErrors)
         /\ p.size.note = "none" => p.size.data + p.size.index + p.size.unused = p.size.reserved
         /\ p.size.note # "none" => p.size.usedPct = Unread

StInv == StWhere /\ StNames /\ StAccounts /\ StComplete /\ StSteps /\ StMeasuring /\ StMeasured /\ StSizing /\ StSized

-----------------------------------------------------------------------------
(* The listings.                                                           *)

LEMMA SiteFacts ==
    ASSUME StWhere
    PROVE  /\ stSite.standalone \in BOOLEAN /\ stSite.includeAll \in BOOLEAN
           /\ stSite.held \in Seq(Held) /\ stSite.elsewhere \in Seq(Held) /\ stSite.references \in Seq(References)
           /\ stSite.pools \in Seq(Range(stSite.pools)) /\ AccountsSound(Held) /\ PoolsSound(stSite.pools)
<1>1. stSite \in StSites
  BY DEF StWhere
<1>2. stSite.held \in Seq(Range(stSite.held)) /\ stSite.elsewhere \in Seq(Range(stSite.elsewhere))
  BY <1>1, StorageAssumption
<1>3. stSite.held \in Seq(Held) /\ stSite.elsewhere \in Seq(Held)
  <2>1. Range(stSite.held) \subseteq Held /\ Range(stSite.elsewhere) \subseteq Held
    BY DEF Held
  <2> QED
    BY <1>2, <2>1
<1> QED
  BY <1>1, <1>3, StorageAssumption DEF Held, References

\* Once the names were read, to be wanted is to be asked for.
LEMMA WantedAsked ==
    ASSUME StWhere, StNames, NamesRead, stStage \notin {"workspace", "references"}, NEW a \in Held, Wanted(a)
    PROVE  Asked(a)
<1>1. a.name # NoName
  BY SiteFacts DEF AccountsSound
<1> QED
  BY <1>1 DEF StNames, Wanted, Asked, References
LEMMA AskedWanted == ASSUME StNames, NEW a, Asked(a) PROVE Wanted(a)
BY DEF StNames, Wanted, Asked, References

\* A list cut off somewhere is a list of the same.
LEMMA CutOff ==
    ASSUME NEW A, NEW listing \in Seq(A), NEW n \in 0..Len(listing)
    PROVE  SubSeq(listing, 1, n) \in Seq(A) /\ Range(SubSeq(listing, 1, n)) \subseteq Range(listing)
<1> DEFINE part == SubSeq(listing, 1, n)
<1>1. part \in Seq(A) /\ Len(part) = n /\ \A i \in 1..n : part[i] = listing[i]
  OBVIOUS
<1> HIDE DEF part
<1>2. DOMAIN part = 1..n /\ \A i \in 1..n : i \in DOMAIN listing
  BY <1>1
<1> QED
  BY <1>1, <1>2 DEF Range, part

\* What one listing changes.
LEMMA ListingRead ==
    ASSUME StWhere, StNames, StAccounts, NEW stage, NEW asked \in BOOLEAN, NEW listing \in Seq(Held), NEW next,
           ReadListing(stage, asked, listing, next)
    PROVE  /\ accounts' \in Seq(Held) /\ IdsDiffer(accounts') /\ \A a \in Range(accounts') : Wanted(a)
           /\ Range(accounts) \subseteq Range(accounts')
           /\ broken \subseteq broken' /\ broken' \subseteq broken \cup {<<stage>>}
           /\ asked /\ <<stage>> \notin broken' => \A a \in Range(listing) : Asked(a) => a.id \in IdsOf(accounts')
<1>1. accounts \in Seq(Held) /\ IdsDiffer(accounts) /\ \A a \in Range(accounts) : Wanted(a)
  BY DEF StAccounts
<1>2. ASSUME NEW read \in Seq(Held), accounts' = EmitAll(read)
      PROVE  /\ accounts' \in Seq(Held) /\ IdsDiffer(accounts') /\ \A a \in Range(accounts') : Wanted(a)
             /\ Range(accounts) \subseteq Range(accounts')
             /\ \A a \in Range(read) : Asked(a) => a.id \in IdsOf(accounts')
  <2>1. /\ accounts' \in Seq(Held) /\ IdsDiffer(accounts') /\ Range(accounts) \subseteq Range(accounts')
        /\ \A a \in Range(accounts') : a \in Range(accounts) \/ (a \in Range(read) /\ Asked(a))
        /\ \A a \in Range(read) : Asked(a) => a.id \in IdsOf(accounts')
    BY <1>1, <1>2, EmitAllAdds
  <2> QED
    BY <1>1, <2>1, AskedWanted
<1>3. CASE accounts' = EmitAll(IF asked THEN listing ELSE <<>>) /\ UNCHANGED broken
  <2>1. CASE asked
    BY <1>2, <1>3, <2>1
  <2>2. CASE ~asked
    <3>1. <<>> \in Seq(Held) /\ accounts' = EmitAll(<<>>)
      BY <1>3, <2>2
    <3> QED
      BY <1>2, <1>3, <2>2, <3>1
  <2> QED
    BY <2>1, <2>2
<1>4. CASE asked /\ Breaks(<<stage>>) /\ \E n \in 0..Len(listing) : accounts' = EmitAll(SubSeq(listing, 1, n))
  <2>1. PICK n \in 0..Len(listing) : accounts' = EmitAll(SubSeq(listing, 1, n))
    BY <1>4
  <2>2. SubSeq(listing, 1, n) \in Seq(Held)
    BY CutOff
  <2>3. broken' = broken \cup {<<stage>>}
    BY <1>4 DEF Breaks
  <2> HIDE <1>4
  <2> QED
    BY <1>2, <2>1, <2>2, <2>3
<1> QED
  BY <1>3, <1>4 DEF ReadListing

LEMMA GroupListing ==
    ASSUME StWhere
    PROVE  InGroup(stSite.group) \in Seq(Held) /\ Range(InGroup(stSite.group)) \subseteq Range(stSite.held)
<1> DEFINE K == {i \in DOMAIN stSite.held : stSite.held[i].group = stSite.group}
<1>1. K \subseteq DOMAIN stSite.held /\ stSite.held \in Seq(Held) /\ InGroup(stSite.group) = Part(stSite.held, K)
  BY SiteFacts DEF InGroup
<1> HIDE DEF K
<1>2. Part(stSite.held, K) \in Seq(Held) /\ Range(Part(stSite.held, K)) = {stSite.held[i] : i \in K}
  BY <1>1, PartOf
<1> QED
  BY <1>1, <1>2 DEF Range

LEMMA OwnListing ==
    ASSUME StWhere
    PROVE  /\ OwnAccount \in Seq(Held)
           /\ \A a \in Range(stSite.elsewhere) : a.name = default.name /\ a.group = default.group => a \in Range(OwnAccount)
<1> DEFINE all == stSite.held \o stSite.elsewhere
           K == {i \in DOMAIN all : all[i].name = default.name /\ all[i].group = default.group}
<1>1. stSite.held \in Seq(Held) /\ stSite.elsewhere \in Seq(Held)
  BY SiteFacts
<1>2. all \in Seq(Held) /\ Range(all) = Range(stSite.held) \cup Range(stSite.elsewhere)
  BY <1>1, RangeConcat
<1>3. OwnAccount = Part(all, K) /\ K \subseteq DOMAIN all
  BY DEF OwnAccount
<1>4. ASSUME NEW a \in Range(all), a.name = default.name, a.group = default.group
      PROVE  \E i \in K : a = all[i]
  BY <1>4 DEF Range
<1> HIDE DEF all, K
<1>5. Part(all, K) \in Seq(Held) /\ Range(Part(all, K)) = {all[i] : i \in K}
  BY <1>2, <1>3, PartOf
<1> QED
  BY <1>2, <1>3, <1>4, <1>5

FoundSo(listing) == \A a \in Range(listing) : Wanted(a) => Found(a)
\* What was found is found again in a longer list.
LEMMA StillFound == ASSUME Range(accounts) \subseteq Range(accounts'), NEW a, Found(a) PROVE a.id \in IdsOf(accounts')
BY DEF Found, IdsOf

\* The names of calls of different length are different.
LEMMA CallsDiffer ==
    /\ \A x, y : <<x>> # <<"capacity", y>> /\ <<x>> # <<"pool_size", y>>
    /\ \A x, y, z : <<"capacity", x, y>> # <<z>> /\ <<"capacity", x, y>> # <<"capacity", z>> /\ <<"capacity", x, y>> # <<"pool_size", z>>
    /\ \A x, y : <<"capacity", x>> # <<"pool_size", y>> /\ (<<"capacity", x>> = <<"capacity", y>> <=> x = y)
    /\ \A x, y : (<<"pool_size", x>> = <<"pool_size", y>> <=> x = y)
OBVIOUS

LEMMA ListingStep ==
    ASSUME StInv, ListSubscription \/ ListGroup \/ LookUpDefault
    PROVE  StInv'
<1> USE DEF StInv
<1>0. /\ StWhere /\ StNames /\ StAccounts /\ stStage \in {"subscription", "group", "default"} /\ ~stSite.standalone
      /\ UNCHANGED <<stSite, default, attached, items, stReport, steps, stErrors>>
      /\ stStage' = IF stStage = "subscription" THEN "group" ELSE IF stStage = "group" THEN "default" ELSE "count"
  BY DEF ListSubscription, ListGroup, LookUpDefault, ReadListing, StWhere
<1>1. /\ accounts' \in Seq(Held) /\ IdsDiffer(accounts') /\ \A a \in Range(accounts') : Wanted(a)
      /\ Range(accounts) \subseteq Range(accounts')
      /\ broken \subseteq broken' /\ broken' \subseteq broken \cup {<<stStage>>}
      /\ stStage = "subscription" /\ <<"subscription">> \notin broken' =>
           \A a \in Range(stSite.held) : Asked(a) => a.id \in IdsOf(accounts')
      /\ stStage = "group" /\ stSite.group # NoName /\ <<"group">> \notin broken' =>
           \A a \in Range(InGroup(stSite.group)) : Asked(a) => a.id \in IdsOf(accounts')
      /\ stStage = "default" /\ default.name # NoName /\ default.group # NoName /\ <<"default">> \notin broken' =>
           \A a \in Range(OwnAccount) : Asked(a) => a.id \in IdsOf(accounts')
  <2>1. CASE ListSubscription
    <3>1. stStage = "subscription" /\ ReadListing("subscription", TRUE, stSite.held, "group")
      BY <2>1 DEF ListSubscription, ReadListing
    <3>2. stSite.held \in Seq(Held)
      BY <1>0, SiteFacts
    <3> QED
      BY <1>0, <3>1, <3>2, ListingRead
  <2>2. CASE ListGroup
    <3>1. stStage = "group" /\ ReadListing("group", stSite.group # NoName, InGroup(stSite.group), "default")
      BY <2>2 DEF ListGroup, ReadListing
    <3>2. InGroup(stSite.group) \in Seq(Held)
      BY <1>0, GroupListing
    <3> QED
      BY <1>0, <3>1, <3>2, ListingRead
  <2>3. CASE LookUpDefault
    <3>1. stStage = "default" /\ ReadListing("default", default.name # NoName /\ default.group # NoName, OwnAccount, "count")
      BY <2>3 DEF LookUpDefault, ReadListing
    <3>2. OwnAccount \in Seq(Held)
      BY <1>0, OwnListing
    <3>3. (default.name # NoName /\ default.group # NoName) \in BOOLEAN
      OBVIOUS
    <3> QED
      BY <1>0, <3>1, <3>2, <3>3, ListingRead
  <2> QED
    BY <2>1, <2>2, <2>3
<1>2. NamesRead' = NamesRead
  BY <1>0, <1>1 DEF NamesRead
<1>3. Held' = Held /\ References' = References /\ (\A a : Wanted(a)' = Wanted(a))
      /\ (\A a : Found(a)' <=> a.id \in IdsOf(accounts')) /\ InGroup(stSite.group)' = InGroup(stSite.group)
  BY <1>0 DEF Held, References, Wanted, Found, IdsOf, InGroup, Part
<1>4. StWhere'
  BY <1>0 DEF StWhere, StStages, StEarly
<1>5. StNames'
  BY <1>0, <1>2, <1>3 DEF StNames
<1>6. StAccounts'
  BY <1>1, <1>3 DEF StAccounts
<1>7. ASSUME NamesRead, stStage \notin {"workspace", "references"}, NEW a \in Held, Wanted(a)
      PROVE  Asked(a)
  BY <1>0, <1>7, WantedAsked
<1>8. StComplete'
  <2>1. ASSUME NEW a, Found(a) PROVE Found(a)'
    BY <1>1, <1>3, <2>1, StillFound
  <2>2. ListedWhole({}, "subscription", stSite.held)'
    <3> SUFFICES ASSUME NamesRead, <<"subscription">> \notin broken', NEW a \in Range(stSite.held), Wanted(a)
                 PROVE  a.id \in IdsOf(accounts')
      BY <1>0, <1>2, <1>3 DEF ListedWhole
    <3>1. a \in Held
      BY DEF Held
    <3>2. CASE stStage = "subscription"
      BY <1>0, <1>1, <1>7, <3>1, <3>2
    <3>3. CASE stStage # "subscription"
      <4>1. Found(a)
        BY <1>0, <1>1, <3>3 DEF StComplete, ListedWhole
      <4> QED
        BY <1>1, <4>1, StillFound
    <3> QED
      BY <3>2, <3>3
  <2>3. ASSUME stSite.group # NoName
        PROVE  ListedWhole({"group"}, "group", InGroup(stSite.group))'
    <3> SUFFICES ASSUME NamesRead, <<"group">> \notin broken', stStage' \notin {"group"}, NEW a \in Range(InGroup(stSite.group)), Wanted(a)
                 PROVE  a.id \in IdsOf(accounts')
      BY <1>0, <1>2, <1>3 DEF ListedWhole
    <3>1. a \in Held
      BY <1>0, GroupListing DEF Held
    <3>2. CASE stStage = "group"
      BY <1>0, <1>1, <1>7, <2>3, <3>1, <3>2
    <3>3. CASE stStage = "default"
      <4>1. Found(a)
        BY <1>0, <1>1, <2>3, <3>3 DEF StComplete, ListedWhole
      <4> QED
        BY <1>1, <4>1, StillFound
    <3> QED
      BY <1>0, <3>2, <3>3
  <2>4. ASSUME NamesRead, stStage = "default", <<"default">> \notin broken', NEW a \in Range(stSite.elsewhere), Wanted(a),
               a.name = stSite.default.name, a.group = stSite.default.group, a.group # NoName
        PROVE  a.id \in IdsOf(accounts')
    <3>1. a \in Held /\ a.name # NoName
      BY <1>0, SiteFacts DEF Held, AccountsSound
    <3>2. default = stSite.default
      BY <1>0, <2>4 DEF StNames
    <3>3. a \in Range(OwnAccount)
      BY <1>0, <2>4, <3>2, OwnListing
    <3> QED
      BY <1>1, <1>7, <2>4, <3>1, <3>2, <3>3
  <2> QED
    BY <1>0, <1>2, <1>3, <2>2, <2>3, <2>4 DEF StComplete
<1>9. StSteps'
  BY <1>0 DEF StSteps, StEarly
<1>10. StMeasuring'
  <2>1. \A a \in Held : <<"capacity", a.id>> \notin broken'
    BY <1>0, <1>1, CallsDiffer DEF StMeasuring, StEarly
  <2> QED
    BY <1>0, <1>3, <2>1 DEF StMeasuring, StEarly
<1>11. StMeasured' /\ StSized'
  BY <1>0 DEF StMeasured, StSized
<1>12. StSizing'
  BY <1>0 DEF StSizing
<1> QED
  BY <1>4, <1>5, <1>6, <1>8, <1>9, <1>10, <1>11, <1>12

-----------------------------------------------------------------------------
(* The names, the count and the capacities.                                *)

LEMMA ReadWorkspaceStep == ASSUME StInv, ReadWorkspace PROVE StInv'
<1> USE DEF ReadWorkspace
<1>0. StWhere /\ StNames /\ StAccounts /\ StComplete /\ StSteps /\ StMeasuring /\ StMeasured /\ StSizing /\ StSized
  BY DEF StInv
<1>1. StWhere' /\ ~stSite.standalone /\ stStage = "workspace" /\ stStage' = "references"
  BY <1>0 DEF StWhere, StStages, StEarly
<1>2. /\ Held' = Held /\ References' = References /\ (\A a : Wanted(a)' = Wanted(a))
      /\ broken' \in {broken, broken \cup {<<"workspace">>}}
  BY DEF Held, References, Wanted, Breaks
<1>3. StNames'
  <2>1. CASE default' = stSite.default
    BY <1>0, <1>1, <1>2, <2>1 DEF StNames
  <2>2. CASE default' = NoAccount /\ Breaks(<<"workspace">>)
    <3>1. ~NamesRead'
      BY <2>2 DEF NamesRead, Breaks
    <3> QED
      BY <1>0, <1>1, <1>2, <2>2, <3>1 DEF StNames
  <2> QED
    BY <2>1, <2>2
<1>4. StAccounts' /\ StComplete'
  BY <1>0, <1>1, <1>2 DEF StAccounts, StComplete, ListedWhole
<1>5. StSteps' /\ StMeasured' /\ StSized' /\ StSizing'
  BY <1>0, <1>1 DEF StSteps, StMeasured, StSized, StSizing, StEarly
<1>6. StMeasuring'
  <2>1. \A a \in Held : <<"capacity", a.id>> \notin broken
    BY <1>0, <1>1 DEF StMeasuring, StEarly
  <2>2. ASSUME NEW a \in Held
        PROVE  <<"capacity", a.id>> \notin broken'
    <3>1. <<"capacity", a.id>> # <<"workspace">>
      BY CallsDiffer
    <3> QED
      BY <1>2, <2>1, <3>1
  <2> QED
    BY <1>0, <1>1, <1>2, <2>2 DEF StMeasuring, StEarly
<1> QED
  BY <1>1, <1>3, <1>4, <1>5, <1>6 DEF StInv

LEMMA ReadReferencesStep == ASSUME StInv, ReadReferences PROVE StInv'
<1> USE DEF ReadReferences
<1>0. StWhere /\ StNames /\ StAccounts /\ StComplete /\ StSteps /\ StMeasuring /\ StMeasured /\ StSizing /\ StSized
  BY DEF StInv
<1>1. StWhere /\ StNames /\ StWhere' /\ ~stSite.standalone /\ stStage = "references" /\ stStage' = "subscription"
  BY <1>0 DEF StWhere, StStages, StEarly
<1>2. /\ Held' = Held /\ References' = References /\ (\A a : Wanted(a)' = Wanted(a))
      /\ broken' \in {broken, broken \cup {<<"references">>}}
  BY DEF Held, References, Wanted, Breaks
<1>3. stSite.references \in Seq(References)
  BY <1>1, SiteFacts
<1>4. DefaultName \subseteq {stSite.default.name} /\ (NamesRead => DefaultName = {stSite.default.name} \ {NoName})
  BY <1>1 DEF StNames, DefaultName, NoAccount
<1>5. ASSUME NEW n \in 0..Len(stSite.references)
      PROVE  NamesUpTo(n) \subseteq {stSite.default.name} \cup References
  BY <1>3, <1>4, CutOff DEF NamesUpTo, References
<1>6. Len(stSite.references) \in Nat /\ SubSeq(stSite.references, 1, Len(stSite.references)) = stSite.references
  BY <1>3
<1>7. NamesUpTo(Len(stSite.references)) = DefaultName \cup References
  BY <1>6, Zenon DEF NamesUpTo, References
<1>11. StNames'
  <2>0. default' = default /\ stSite' = stSite /\ default \in {stSite.default, NoAccount} /\ (NamesRead => default = stSite.default)
    BY <1>0, <1>1 DEF StNames
  <2>1. CASE stSite.includeAll /\ attached' = {} /\ UNCHANGED broken
    <3>1. NamesRead' = NamesRead
      BY <2>0, <2>1 DEF NamesRead
    <3> QED
      BY <1>1, <1>2, <2>0, <2>1, <3>1 DEF StNames
  <2>2. CASE ~stSite.includeAll /\ attached' = NamesUpTo(Len(stSite.references)) /\ UNCHANGED broken
    <3>1. attached' = DefaultName \cup References /\ attached' \subseteq {stSite.default.name} \cup References
      BY <1>4, <1>7, <2>2
    <3>2. NamesRead' = NamesRead
      BY <2>0, <2>2 DEF NamesRead
    <3> QED
      BY <1>1, <1>2, <1>4, <2>0, <3>1, <3>2 DEF StNames
  <2>3. CASE ~stSite.includeAll /\ Breaks(<<"references">>) /\ \E n \in 0..Len(stSite.references) : attached' = NamesUpTo(n)
    <3>1. attached' \subseteq {stSite.default.name} \cup References
      BY <1>5, <2>3
    <3>2. ~NamesRead'
      BY <2>3 DEF NamesRead, Breaks
    <3> QED
      BY <1>1, <1>2, <2>0, <3>1, <3>2 DEF StNames
  <2> QED
    BY <2>1, <2>2, <2>3
<1>12. StAccounts' /\ StComplete'
  BY <1>0, <1>1, <1>2 DEF StAccounts, StComplete, ListedWhole
<1>13. StSteps' /\ StMeasured' /\ StSized' /\ StSizing'
  BY <1>0, <1>1 DEF StSteps, StMeasured, StSized, StSizing, StEarly
<1>14. StMeasuring'
  <2>1. \A a \in Held : <<"capacity", a.id>> \notin broken
    BY <1>0, <1>1 DEF StMeasuring, StEarly
  <2>2. ASSUME NEW a \in Held
        PROVE  <<"capacity", a.id>> \notin broken'
    <3>1. <<"capacity", a.id>> # <<"references">>
      BY CallsDiffer
    <3> QED
      BY <1>2, <2>1, <3>1
  <2> QED
    BY <1>0, <1>1, <1>2, <2>2 DEF StMeasuring, StEarly
<1> QED
  BY <1>1, <1>11, <1>12, <1>13, <1>14 DEF StInv

\* What a step beyond the listings keeps of them, if no call of a listing breaks.
LEMMA ListingsKept ==
    ASSUME StInv, UNCHANGED <<stSite, default, attached, accounts>>, StWhere',
           stStage \notin {"workspace", "references", "subscription", "group", "default"},
           broken \subseteq broken', \A x \in {"workspace", "references"} : <<x>> \in broken' => <<x>> \in broken
    PROVE  StNames' /\ StAccounts' /\ StComplete' /\ Held' = Held
<1>1. StNames /\ StAccounts /\ StComplete
  BY DEF StInv
<1>2. /\ Held' = Held /\ References' = References /\ (\A a : Wanted(a)' = Wanted(a)) /\ (\A a : Found(a)' = Found(a))
      /\ NamesRead' = NamesRead /\ InGroup(stSite.group)' = InGroup(stSite.group)
  BY DEF Held, References, Wanted, Found, NamesRead, InGroup, Part
<1>3. StNames'
  BY <1>1, <1>2 DEF StNames
<1>4. StAccounts'
  BY <1>1, <1>2 DEF StAccounts
<1>5. StComplete'
  BY <1>1, <1>2 DEF StComplete, ListedWhole
<1> QED
  BY <1>2, <1>3, <1>4, <1>5

\* Accounts found are accounts held.
LEMMA AccountsHeld ==
    ASSUME StAccounts
    PROVE  /\ DOMAIN accounts = 1..Len(accounts) /\ Len(accounts) \in Nat /\ Range(accounts) \subseteq Held
           /\ \A i \in DOMAIN accounts : accounts[i] \in Held /\ accounts[i] \in Range(accounts)
           /\ (accounts = <<>> => Range(accounts) = {})
BY DEF StAccounts, Range

LEMMA CountAccountsStep == ASSUME StInv, CountAccounts PROVE StInv'
<1> USE DEF StInv, CountAccounts
<1>1. /\ StWhere' /\ ~stSite.standalone /\ stStage = "count"
      /\ stStage' = IF accounts = <<>> THEN "pool_list" ELSE "capacities"
  BY DEF StWhere, StStages, StEarly
<1>2. StNames' /\ StAccounts' /\ StComplete' /\ Held' = Held
  BY <1>1, ListingsKept
<1>3. /\ DOMAIN accounts = 1..Len(accounts) /\ Len(accounts) \in Nat /\ (accounts = <<>> => Range(accounts) = {})
      /\ \A i \in DOMAIN accounts : accounts[i] \in Held
  BY AccountsHeld
<1>4. StSteps'
  <2>1. accounts = <<>> => Len(accounts) = 0
    OBVIOUS
  <2> QED
    BY <1>1, <1>3, <2>1 DEF StSteps, StEarly
<1>5. /\ \A a \in Held : <<"capacity", a.id>> \notin broken' /\ <<"capacity", a.name>> \notin stErrors'
      /\ \A p \in Range(stSite.pools) : <<"pool_size", p.name>> \notin stErrors'
  BY <1>1, CallsDiffer DEF StMeasuring, StEarly
<1>6. DOMAIN items' = DOMAIN accounts /\ \A i \in DOMAIN items' : items'[i].phase = "queued"
  BY DEF QueuedItems
<1>7. StMeasuring'
  BY <1>1, <1>2, <1>3, <1>5, <1>6 DEF StMeasuring, StEarly
<1>8. StMeasured'
  BY <1>1, <1>3, <1>5 DEF StMeasured
<1>9. StSizing' /\ StSized'
  BY <1>1, <1>5 DEF StSizing, StSized
<1> QED
  BY <1>1, <1>2, <1>4, <1>7, <1>8, <1>9

LEMMA TakeAccountStep == ASSUME StInv, NEW i \in DOMAIN items, TakeAccount(i) PROVE StInv'
<1> USE DEF StInv, TakeAccount
<1>1. /\ StWhere' /\ stStage = "capacities" /\ stStage' = "capacities"
      /\ UNCHANGED <<stSite, default, attached, accounts, stReport, steps, broken, stErrors>>
  BY DEF StWhere, TakeItem
<1>2. StNames' /\ StAccounts' /\ StComplete' /\ Held' = Held
  BY <1>1, ListingsKept
<1>3. DOMAIN items' = DOMAIN items /\ \A j \in DOMAIN items : IF j = i THEN items'[j].phase = "running" /\ items[j].phase = "queued"
                                                             ELSE items'[j] = items[j]
  BY DEF TakeItem
<1>4. StSteps' /\ StMeasured' /\ StSizing' /\ StSized'
  BY <1>1 DEF StSteps, StMeasured, StSizing, StSized, StEarly
<1>6. StMeasuring'
  BY <1>1, <1>2, <1>3 DEF StMeasuring, StEarly
<1> QED
  BY <1>1, <1>2, <1>4, <1>6

\* What latest_capacity leaves unread has no service or broke.
LEMMA LatestTold ==
    ASSUME StWhere, NEW a \in Held, NEW down \in SUBSET (DOMAIN Services), NEW calls,
           \A s \in down : <<"capacity", a.id, s>> \in calls
    PROVE  \A s \in DOMAIN Services : \A m \in Services[s] \cap DOMAIN a.metrics :
             LatestCapacity(a, a.without \cup down)[m] = Unread => s \in a.without \/ <<"capacity", a.id, s>> \in calls
<1> SUFFICES ASSUME NEW s \in DOMAIN Services, NEW m \in Services[s] \cap DOMAIN a.metrics,
                    s \notin a.without \cup down
             PROVE  LatestCapacity(a, a.without \cup down)[m] # Unread
  OBVIOUS
<1>1. m \in Capacities
  BY DEF Capacities, Range
<1>2. a.metrics[m] \in Nat
  BY SiteFacts DEF AccountsSound
<1>3. m \in {"UsedCapacity"} \cup UNION {Services[x] : x \in DOMAIN Services \ (a.without \cup down)}
  OBVIOUS
<1>4. LatestCapacity(a, a.without \cup down)[m] = a.metrics[m]
  BY <1>1, <1>3 DEF LatestCapacity, Fetch
<1> QED
  BY <1>2, <1>4 DEF Unread

LEMMA AccountMeasuredStep == ASSUME StInv, NEW i \in DOMAIN items, AccountMeasured(i) PROVE StInv'
<1> USE DEF StInv
<1>1. PICK down \in SUBSET (DOMAIN Services \ accounts[i].without) :
        /\ broken' = broken \cup {<<"capacity", accounts[i].id, s>> : s \in down}
        /\ FinishItem(i, "done", LatestCapacity(accounts[i], accounts[i].without \cup down))
  BY DEF AccountMeasured
<1>2. /\ StWhere' /\ stStage = "capacities" /\ stStage' = "capacities" /\ items[i].phase = "running"
      /\ UNCHANGED <<stSite, default, attached, accounts, stReport, steps, stErrors>>
      /\ items' = [items EXCEPT ![i] = [phase |-> "done", values |-> LatestCapacity(accounts[i], accounts[i].without \cup down)]]
  BY <1>1 DEF StWhere, FinishItem, AccountMeasured
<1>3. /\ \A x : <<x>> \in broken' => <<x>> \in broken
      /\ \A x : <<"capacity", x>> \in broken' <=> <<"capacity", x>> \in broken
  BY <1>1, CallsDiffer
<1>4. StNames' /\ StAccounts' /\ StComplete' /\ Held' = Held
  <2>1. broken \subseteq broken' /\ \A x \in {"workspace", "references"} : <<x>> \in broken' => <<x>> \in broken
    BY <1>1, <1>3
  <2> QED
    BY <1>2, <2>1, ListingsKept
<1>5. StSteps' /\ StMeasured' /\ StSizing' /\ StSized'
  BY <1>2 DEF StSteps, StMeasured, StSizing, StSized, StEarly
<1>6. DOMAIN items = DOMAIN accounts /\ accounts[i] \in Held
  BY <1>2, AccountsHeld DEF StMeasuring
<1>7. Told(accounts[i], LatestCapacity(accounts[i], accounts[i].without \cup down), broken')
  <2>1. down \in SUBSET DOMAIN Services /\ \A s \in down : <<"capacity", accounts[i].id, s>> \in broken'
    BY <1>1
  <2>2. \A s \in DOMAIN Services : \A m \in Services[s] \cap DOMAIN accounts[i].metrics :
          LatestCapacity(accounts[i], accounts[i].without \cup down)[m] = Unread
            => s \in accounts[i].without \/ <<"capacity", accounts[i].id, s>> \in broken'
    BY <1>6, <2>1, LatestTold
  <2> QED
    BY <2>2 DEF Told
<1>8. \A a, values : Told(a, values, broken) => Told(a, values, broken')
  BY <1>1 DEF Told
<1>9. ASSUME NEW j \in DOMAIN items'
      PROVE  /\ items'[j].phase \in {"queued", "running", "done", "failed"}
             /\ items'[j].phase = "failed" <=> <<"capacity", accounts[j].id>> \in broken'
             /\ items'[j].phase = "done" => Told(accounts[j], items'[j].values, broken')
  <2>1. CASE j = i
    <3>1. items'[j].phase = "done" /\ items'[j].values = LatestCapacity(accounts[i], accounts[i].without \cup down)
      BY <1>2, <2>1
    <3>2. <<"capacity", accounts[i].id>> \notin broken
      BY <1>2 DEF StMeasuring
    <3> QED
      BY <1>3, <1>7, <2>1, <3>1, <3>2
  <2>2. CASE j # i
    <3>1. j \in DOMAIN items /\ items'[j] = items[j]
      BY <1>2, <2>2
    <3> QED
      BY <1>2, <1>3, <1>8, <3>1 DEF StMeasuring
  <2> QED
    BY <2>1, <2>2
<1>10. StMeasuring'
  <2>1. stReport'.capacities = {} /\ (\A a \in Held : <<"capacity", a.name>> \notin stErrors') /\ DOMAIN items' = DOMAIN accounts'
    BY <1>2, <1>6 DEF StMeasuring, StEarly
  <2> QED
    BY <1>2, <1>4, <1>9, <2>1 DEF StMeasuring, StEarly
<1> QED
  BY <1>2, <1>4, <1>5, <1>10

LEMMA AccountFailsStep == ASSUME StInv, NEW i \in DOMAIN items, AccountFails(i) PROVE StInv'
<1> USE DEF StInv
<1>2. /\ StWhere' /\ stStage = "capacities" /\ stStage' = "capacities" /\ items[i].phase = "running"
      /\ UNCHANGED <<stSite, default, attached, accounts, stReport, steps, stErrors>>
      /\ items' = [items EXCEPT ![i] = [phase |-> "failed", values |-> <<>>]]
      /\ broken' = broken \cup {<<"capacity", accounts[i].id>>}
  BY DEF StWhere, FinishItem, AccountFails, Breaks
<1>3. /\ \A x : <<x>> \in broken' => <<x>> \in broken
      /\ \A x : <<"capacity", x>> \in broken' <=> <<"capacity", x>> \in broken \/ x = accounts[i].id
  BY <1>2, CallsDiffer
<1>4. StNames' /\ StAccounts' /\ StComplete' /\ Held' = Held
  <2>1. broken \subseteq broken' /\ \A x \in {"workspace", "references"} : <<x>> \in broken' => <<x>> \in broken
    BY <1>2, <1>3
  <2> QED
    BY <1>2, <2>1, ListingsKept
<1>5. StSteps' /\ StMeasured' /\ StSizing' /\ StSized'
  BY <1>2 DEF StSteps, StMeasured, StSizing, StSized, StEarly
<1>6. DOMAIN items = DOMAIN accounts /\ \A j \in DOMAIN accounts : accounts[j].id = accounts[i].id => j = i
  BY <1>2 DEF StMeasuring, StAccounts, IdsDiffer
<1>8. \A a, values : Told(a, values, broken) => Told(a, values, broken')
  BY <1>2 DEF Told
<1>9. ASSUME NEW j \in DOMAIN items'
      PROVE  /\ items'[j].phase \in {"queued", "running", "done", "failed"}
             /\ items'[j].phase = "failed" <=> <<"capacity", accounts[j].id>> \in broken'
             /\ items'[j].phase = "done" => Told(accounts[j], items'[j].values, broken')
  <2>1. CASE j = i
    BY <1>2, <1>3, <2>1
  <2>2. CASE j # i
    <3>1. j \in DOMAIN items /\ items'[j] = items[j]
      BY <1>2, <2>2
    <3> QED
      BY <1>2, <1>3, <1>6, <1>8, <2>2, <3>1 DEF StMeasuring
  <2> QED
    BY <2>1, <2>2
<1>10. StMeasuring'
  <2>1. stReport'.capacities = {} /\ (\A a \in Held : <<"capacity", a.name>> \notin stErrors') /\ DOMAIN items' = DOMAIN accounts'
    BY <1>2, <1>6 DEF StMeasuring, StEarly
  <2> QED
    BY <1>2, <1>4, <1>9, <2>1 DEF StMeasuring, StEarly
<1> QED
  BY <1>2, <1>4, <1>5, <1>10

-----------------------------------------------------------------------------
(* The report of the capacities.                                           *)

\* No two accounts of a report have a name or an id in common.
LEMMA AccountsApart ==
    ASSUME StWhere, StAccounts, NEW i \in DOMAIN accounts, NEW j \in DOMAIN accounts,
           accounts[i].id = accounts[j].id \/ accounts[i].name = accounts[j].name
    PROVE  i = j
<1>1. accounts[i] \in Held /\ accounts[j] \in Held /\ AccountsSound(Held)
  BY AccountsHeld, SiteFacts
<1>2. accounts[i].id = accounts[j].id
  BY <1>1 DEF AccountsSound
<1> QED
  BY <1>2 DEF StAccounts, IdsDiffer

LEMMA ReportCapacitiesStep == ASSUME StInv, ReportCapacities PROVE StInv'
<1>0. StWhere /\ StNames /\ StAccounts /\ StComplete /\ StSteps /\ StMeasuring /\ StMeasured /\ StSizing /\ StSized
  BY DEF StInv
<1>1. /\ stStage = "capacities" /\ stStage' = "pool_list" /\ ItemsOver
      /\ UNCHANGED <<stSite, default, attached, accounts, broken>>
      /\ stErrors' = stErrors \cup {<<"capacity", accounts[i].name>> : i \in Failed}
  BY DEF ReportCapacities
<1>2. /\ stReport'.capacities = {[account |-> accounts[i].id, values |-> items[i].values] : i \in Succeeded}
      /\ stReport'.pools = stReport.pools /\ DOMAIN stReport' = {"capacities", "pools"}
  BY <1>0 DEF ReportCapacities, StWhere
<1>3. StWhere' /\ ~stSite.standalone
  BY <1>0, <1>1, <1>2 DEF StWhere, StStages
<1>4. StNames' /\ StAccounts' /\ StComplete' /\ Held' = Held
  BY <1>1, <1>3, ListingsKept
<1>5. StSteps'
  <2>1. Len(accounts) \in Nat
    BY <1>0, AccountsHeld
  <2>2. steps = [total |-> 1 + Len(accounts), done |-> 1]
    BY <1>0, <1>1 DEF StSteps, StEarly
  <2>3. steps' = [steps EXCEPT !.done = @ + Len(accounts)]
    BY DEF ReportCapacities
  <2>4. steps' = [total |-> 1 + Len(accounts), done |-> 1 + Len(accounts)]
    BY <2>1, <2>2, <2>3
  <2> QED
    BY <1>1, <1>3, <2>4 DEF StSteps, StEarly
<1>6. /\ DOMAIN items = DOMAIN accounts
      /\ \A i \in DOMAIN items : /\ i \in Failed <=> i \notin Succeeded
                                 /\ i \in Failed <=> <<"capacity", accounts[i].id>> \in broken
                                 /\ i \in Succeeded => Told(accounts[i], items[i].values, broken)
      /\ Failed \subseteq DOMAIN items /\ Succeeded \subseteq DOMAIN items
      /\ \A a \in Held : <<"capacity", a.name>> \notin stErrors
  BY <1>0, <1>1 DEF StMeasuring, ItemsOver, Failed, Succeeded
<1>7. ASSUME NEW a \in Range(accounts)
      PROVE  /\ (\E c \in stReport'.capacities : c.account = a.id) <=> <<"capacity", a.id>> \notin broken
             /\ <<"capacity", a.name>> \in stErrors' <=> <<"capacity", a.id>> \in broken
             /\ \A c \in stReport'.capacities : c.account = a.id => Told(a, c.values, broken)
  <2>1. PICK i \in DOMAIN accounts : a = accounts[i]
    BY DEF Range
  <2>2. \A j \in DOMAIN accounts : accounts[j].id = a.id \/ accounts[j].name = a.name => j = i
    BY <1>0, <2>1, AccountsApart
  <2>3. ASSUME NEW c \in stReport'.capacities, c.account = a.id
        PROVE  i \in Succeeded /\ c.values = items[i].values
    BY <1>2, <1>6, <2>2, <2>3
  <2>4. ASSUME i \in Succeeded
        PROVE  \E c \in stReport'.capacities : c.account = a.id
    <3>1. [account |-> accounts[i].id, values |-> items[i].values] \in stReport'.capacities
      BY <1>2, <2>4
    <3>2. [account |-> accounts[i].id, values |-> items[i].values].account = a.id
      BY <2>1
    <3> QED
      BY <3>1, <3>2
  <2>5. a \in Held
    BY <1>0, <2>1, AccountsHeld
  <2>6. <<"capacity", a.name>> \in stErrors' <=> i \in Failed
    <3>1. ASSUME NEW j \in Failed, <<"capacity", a.name>> = <<"capacity", accounts[j].name>>
          PROVE  j = i
      BY <1>6, <2>2, <3>1
    <3> QED
      BY <1>1, <1>6, <2>1, <2>5, <3>1
  <2> QED
    BY <1>6, <2>1, <2>3, <2>4, <2>6
<1>8. StMeasuring' /\ StMeasured'
  BY <1>1, <1>7 DEF StMeasuring, StMeasured, StEarly
<1>9. StSizing' /\ StSized'
  <2>1. ASSUME NEW p \in Range(stSite.pools)
        PROVE  <<"pool_size", p.name>> \notin stErrors'
    <3>1. <<"pool_size", p.name>> \notin stErrors
      BY <1>0, <1>1 DEF StSizing
    <3>2. \A x : <<"capacity", x>> # <<"pool_size", p.name>>
      BY CallsDiffer
    <3> QED
      BY <1>1, <3>1, <3>2
  <2> QED
    BY <1>0, <1>1, <1>2, <2>1 DEF StSizing, StSized
<1> QED
  BY <1>3, <1>4, <1>5, <1>8, <1>9 DEF StInv

-----------------------------------------------------------------------------
(* The dedicated pools.                                                    *)

LEMMA PoolFacts ==
    ASSUME StWhere
    PROVE  /\ DOMAIN stSite.pools = 1..Len(stSite.pools) /\ Len(stSite.pools) \in Nat
           /\ \A i \in DOMAIN stSite.pools : stSite.pools[i] \in Range(stSite.pools)
           /\ \A i, j \in DOMAIN stSite.pools : stSite.pools[i].name = stSite.pools[j].name => i = j
           /\ \A p \in Range(stSite.pools) :
                IsFiniteSet(p.partitions) /\ \A x \in p.partitions : x.reserved \in Int /\ x.used \in Int
           /\ (stSite.pools = <<>> => Range(stSite.pools) = {} /\ Len(stSite.pools) = 0)
BY SiteFacts DEF PoolsSound, Range

\* What the report says of the accounts stays said while pools are sized.
LEMMA MeasuredKept ==
    ASSUME StMeasured, stStage \in {"pool_list", "pools", "done"}, accounts' = accounts,
           stReport'.capacities = stReport.capacities, broken \subseteq broken',
           \A x : <<"capacity", x>> \in broken' <=> <<"capacity", x>> \in broken,
           \A x : <<"capacity", x>> \in stErrors' <=> <<"capacity", x>> \in stErrors
    PROVE  StMeasured'
<1>1. \A a, values : Told(a, values, broken) => Told(a, values, broken')
  BY DEF Told
<1>2. \A a \in Range(accounts) : /\ (\E c \in stReport'.capacities : c.account = a.id) <=> <<"capacity", a.id>> \notin broken'
                                 /\ <<"capacity", a.name>> \in stErrors' <=> <<"capacity", a.id>> \in broken'
  BY DEF StMeasured
<1>3. \A c \in stReport'.capacities, a \in Range(accounts) : c.account = a.id => Told(a, c.values, broken')
  BY <1>1 DEF StMeasured
<1> QED
  BY <1>2, <1>3 DEF StMeasured

LEMMA ListStoragePoolsStep == ASSUME StInv, ListStoragePools PROVE StInv'
<1>0. StWhere /\ StNames /\ StAccounts /\ StComplete /\ StSteps /\ StMeasuring /\ StMeasured /\ StSizing /\ StSized
  BY DEF StInv
<1>1. /\ stStage = "pool_list" /\ UNCHANGED <<stSite, default, attached, accounts, stReport>>
      /\ stStage' \in {"pools", "done"} /\ broken' \in {broken, broken \cup {<<"pools">>}}
      /\ stErrors' \in {stErrors, stErrors \cup {<<"dedicated_pool_discovery">>}}
  BY DEF ListStoragePools, Breaks
<1>2. StWhere'
  BY <1>0, <1>1 DEF StWhere, StStages
<1>3. StNames' /\ StAccounts' /\ StComplete' /\ Held' = Held
  <2>1. broken \subseteq broken' /\ \A x \in {"workspace", "references"} : <<x>> \in broken' => <<x>> \in broken
    BY <1>1
  <2> QED
    BY <1>1, <1>2, <2>1, ListingsKept
<1>4. /\ \A x : <<"capacity", x>> \in broken' <=> <<"capacity", x>> \in broken
      /\ \A x : <<"capacity", x>> \in stErrors' <=> <<"capacity", x>> \in stErrors
      /\ \A x : <<"pool_size", x>> \in stErrors' <=> <<"pool_size", x>> \in stErrors
  BY <1>1, CallsDiffer
<1>5. StMeasured' /\ StMeasuring'
  <2>1. StMeasured'
    <3>1. broken \subseteq broken' /\ stReport'.capacities = stReport.capacities
      BY <1>1
    <3> QED
      BY <1>0, <1>1, <1>4, <3>1, MeasuredKept
  <2> QED
    BY <1>1, <2>1 DEF StMeasuring, StEarly
<1>6. /\ DOMAIN stSite.pools = 1..Len(stSite.pools) /\ Len(stSite.pools) \in Nat
      /\ (stSite.pools = <<>> => Range(stSite.pools) = {} /\ Len(stSite.pools) = 0) /\ Len(accounts) \in Nat
  BY <1>0, PoolFacts, AccountsHeld
<1>7. stReport'.pools = {} /\ \A p \in Range(stSite.pools) : <<"pool_size", p.name>> \notin stErrors'
  BY <1>0, <1>1, <1>4 DEF StSizing
<1> DEFINE before == IF stSite.standalone THEN [total |-> 1, done |-> 0] ELSE [total |-> 1 + Len(accounts), done |-> 1 + Len(accounts)]
<1>8. steps = before
  BY <1>0, <1>1 DEF StSteps, StEarly
<1>9. CASE /\ items' = QueuedItems(stSite.pools) /\ steps' = [steps EXCEPT !.total = @ + Len(stSite.pools)]
           /\ stStage' = (IF stSite.pools = <<>> THEN "done" ELSE "pools") /\ UNCHANGED <<broken, stErrors>>
  <2>1. steps' = [total |-> before.total + Len(stSite.pools), done |-> before.done]
    BY <1>6, <1>8, <1>9
  <2>2. StSteps'
    <3>0. stSite' = stSite /\ accounts' = accounts
      BY <1>1
    <3>1. CASE stSite.pools = <<>>
      <4>1. stStage' = "done"
        BY <1>9, <3>1
      <4>2. /\ steps'.total = before.total + 0 /\ steps'.done = before.done
            /\ before.total \in Nat /\ before.done \in Nat /\ before.total - before.done = IF stSite.standalone THEN 1 ELSE 0
        BY <1>6, <2>1, <3>1
      <4> HIDE DEF before
      <4>3. /\ steps'.total \in Nat /\ steps'.done \in Nat /\ steps'.done <= steps'.total
            /\ steps'.total - steps'.done = IF stSite.standalone THEN 1 ELSE 0
        BY <4>2
      <4> QED
        BY <3>0, <4>1, <4>3 DEF StSteps, StEarly
    <3>2. CASE stSite.pools # <<>>
      <4>1. stStage' = "pools"
        BY <1>9, <3>2
      <4> QED
        BY <3>0, <2>1, <4>1, Zenon DEF StSteps, StEarly
    <3> QED
      BY <3>1, <3>2
  <2>3. DOMAIN items' = DOMAIN stSite.pools /\ \A i \in DOMAIN items' : items'[i].phase = "queued"
    BY <1>9 DEF QueuedItems
  <2>4. StSizing'
    BY <1>1, <1>7, <2>3 DEF StSizing
  <2>5. StSized'
    BY <1>1, <1>6, <1>7, <1>9 DEF StSized
  <2> QED
    BY <1>2, <1>3, <1>5, <2>2, <2>4, <2>5 DEF StInv
<1>10. CASE /\ Breaks(<<"pools">>) /\ stErrors' = stErrors \cup {<<"dedicated_pool_discovery">>} /\ stStage' = "done"
            /\ UNCHANGED <<items, steps>>
  <2>1. <<"pools">> \in broken'
    BY <1>10 DEF Breaks
  <2>2. StSteps'
    BY <1>0, <1>1, <1>6, <1>8, <1>10, SiteFacts DEF StSteps, StEarly
  <2>3. StSizing' /\ StSized'
    BY <1>1, <1>7, <1>10, <2>1 DEF StSizing, StSized
  <2> QED
    BY <1>2, <1>3, <1>5, <2>2, <2>3 DEF StInv
<1> QED
  BY <1>9, <1>10 DEF ListStoragePools

\* A step on one pool keeps all but the pool's item.
LEMMA PoolStepKeeps ==
    ASSUME StInv, stStage = "pools", UNCHANGED <<stSite, default, attached, accounts, stReport, steps, stErrors, stStage>>,
           broken \subseteq broken', \A x : <<x>> \in broken' => <<x>> \in broken,
           \A x : <<"capacity", x>> \in broken' <=> <<"capacity", x>> \in broken,
           DOMAIN items' = DOMAIN items,
           NEW i \in DOMAIN items, \A j \in DOMAIN items : j # i => items'[j] = items[j],
           items'[i].phase \in {"running", "done", "failed"},
           items'[i].phase = "done" =>
             items'[i].values = IF stSite.pools[i].paused THEN NotSized("paused") ELSE SizeOf(stSite.pools[i]),
           items'[i].phase = "failed" => items'[i].values = NotSized("failed") /\ ~stSite.pools[i].paused
    PROVE  StInv'
<1>0. StWhere /\ StNames /\ StAccounts /\ StComplete /\ StSteps /\ StMeasuring /\ StMeasured /\ StSizing /\ StSized
  BY DEF StInv
<1>1. StWhere'
  BY <1>0 DEF StWhere
<1>2. StNames' /\ StAccounts' /\ StComplete' /\ Held' = Held
  BY <1>1, ListingsKept
<1>3. StMeasured'
  BY <1>0, MeasuredKept
<1>4. StSteps' /\ StMeasuring' /\ StSized'
  BY <1>0 DEF StSteps, StMeasuring, StSized, StEarly
<1>5. ASSUME NEW j \in DOMAIN items
      PROVE  /\ items'[j].phase \in {"queued", "running", "done", "failed"}
             /\ items'[j].phase = "done" =>
                  items'[j].values = IF stSite.pools[j].paused THEN NotSized("paused") ELSE SizeOf(stSite.pools[j])
             /\ items'[j].phase = "failed" => items'[j].values = NotSized("failed") /\ ~stSite.pools[j].paused
  <2>1. CASE j = i
    BY <2>1
  <2>2. CASE j # i
    BY <1>0, <2>2 DEF StSizing
  <2> QED
    BY <2>1, <2>2
<1>6. \A p : SizeOf(p)' = SizeOf(p)
  BY DEF SizeOf
<1>7. StSizing'
  BY <1>0, <1>5 DEF StSizing
<1> QED
  BY <1>1, <1>2, <1>3, <1>4, <1>7 DEF StInv

LEMMA OnePoolStep ==
    ASSUME StInv, NEW i \in DOMAIN items, TakeStoragePool(i) \/ PoolSized(i) \/ SizingFails(i)
    PROVE  StInv'
<1>1. CASE TakeStoragePool(i)
  <2>1. /\ stStage = "pools" /\ items' = [items EXCEPT ![i] = [phase |-> "running", values |-> <<>>]]
        /\ UNCHANGED <<stSite, default, attached, accounts, stReport, steps, broken, stErrors, stStage>>
    BY <1>1 DEF TakeStoragePool, TakeItem
  <2>2. /\ DOMAIN items' = DOMAIN items /\ items'[i].phase = "running"
        /\ \A j \in DOMAIN items : j # i => items'[j] = items[j]
    BY <2>1
  <2> QED
    BY <2>1, <2>2, PoolStepKeeps
<1>2. CASE PoolSized(i)
  <2> DEFINE values == IF stSite.pools[i].paused THEN NotSized("paused") ELSE SizeOf(stSite.pools[i])
  <2>1. /\ stStage = "pools" /\ items' = [items EXCEPT ![i] = [phase |-> "done", values |-> values]]
        /\ UNCHANGED <<stSite, default, attached, accounts, stReport, steps, broken, stErrors, stStage>>
    BY <1>2 DEF PoolSized, FinishItem
  <2> HIDE DEF values
  <2>2. /\ DOMAIN items' = DOMAIN items /\ items'[i].phase = "done" /\ items'[i].values = values
        /\ \A j \in DOMAIN items : j # i => items'[j] = items[j]
    BY <2>1
  <2>3. items'[i].values = IF stSite.pools[i].paused THEN NotSized("paused") ELSE SizeOf(stSite.pools[i])
    BY <2>2 DEF values
  <2> QED
    BY <2>1, <2>2, <2>3, PoolStepKeeps
<1>3. CASE SizingFails(i)
  <2>1. /\ stStage = "pools" /\ items' = [items EXCEPT ![i] = [phase |-> "failed", values |-> NotSized("failed")]]
        /\ UNCHANGED <<stSite, default, attached, accounts, stReport, steps, stErrors, stStage>>
        /\ ~stSite.pools[i].paused /\ broken' = broken \cup {<<"pool_size", stSite.pools[i].name>>}
    BY <1>3 DEF SizingFails, FinishItem, Breaks
  <2>2. /\ DOMAIN items' = DOMAIN items /\ items'[i].phase = "failed" /\ items'[i].values = NotSized("failed")
        /\ \A j \in DOMAIN items : j # i => items'[j] = items[j]
    BY <2>1
  <2>3. /\ broken \subseteq broken' /\ \A x : <<x>> \in broken' => <<x>> \in broken
        /\ \A x : <<"capacity", x>> \in broken' <=> <<"capacity", x>> \in broken
    BY <2>1, CallsDiffer
  <2> QED
    BY <2>1, <2>2, <2>3, PoolStepKeeps
<1> QED
  BY <1>1, <1>2, <1>3

\* The parts of a pool's space are its space.
LEMMA SizeAddsUp ==
    ASSUME NEW pool, IsFiniteSet(pool.partitions), \A x \in pool.partitions : x.reserved \in Int /\ x.used \in Int
    PROVE  SizeOf(pool).note = "none" /\ SizeOf(pool).data + SizeOf(pool).index + SizeOf(pool).unused = SizeOf(pool).reserved
<1> DEFINE P == pool.partitions
           r == [p \in P |-> p.reserved]
           u == [p \in P |-> p.used]
           i == [p \in P |-> p.reserved - p.used]
<1>1. IsFiniteSet(P) /\ \A x \in P : r[x] \in Int /\ u[x] \in Int /\ i[x] \in Int /\ r[x] = u[x] + i[x]
  OBVIOUS
<1>2. DOMAIN r = P /\ DOMAIN u = P /\ DOMAIN i = P
  OBVIOUS
<1>3. /\ SizeOf(pool).note = "none" /\ SizeOf(pool).reserved = SpaceOf(r) /\ SizeOf(pool).data = SpaceOf(u)
      /\ SizeOf(pool).index = SpaceOf(i) /\ SizeOf(pool).unused = Max({SpaceOf(r) - SpaceOf(u) - SpaceOf(i), 0})
  BY DEF SizeOf
<1> HIDE DEF P, r, u, i
<1>4. SpaceOf(r) = Total(r, P) /\ SpaceOf(u) = Total(u, P) /\ SpaceOf(i) = Total(i, P)
  BY <1>2, Zenon DEF SpaceOf, Total
<1>5. Total(u, P) \in Int /\ Total(i, P) \in Int /\ Total(r, P) = Total(u, P) + Total(i, P)
  BY <1>1, TotalInt, TotalPlus
<1>6. SpaceOf(r) - SpaceOf(u) - SpaceOf(i) = 0
  BY <1>4, <1>5
<1>7. SizeOf(pool).unused = 0
  <2>1. SizeOf(pool).unused = Max({0, 0})
    BY <1>3, <1>6
  <2> QED
    BY <2>1 DEF Max
<1> QED
  BY <1>3, <1>4, <1>5, <1>6, <1>7

LEMMA ReportPoolsStep == ASSUME StInv, ReportPools PROVE StInv'
<1>0. StWhere /\ StNames /\ StAccounts /\ StComplete /\ StSteps /\ StMeasuring /\ StMeasured /\ StSizing /\ StSized
  BY DEF StInv
<1>1. /\ stStage = "pools" /\ stStage' = "done" /\ ItemsOver
      /\ UNCHANGED <<stSite, default, attached, accounts, items, broken>>
      /\ stErrors' = stErrors \cup {<<"pool_size", stSite.pools[i].name>> : i \in Failed}
  BY DEF ReportPools
<1>2. /\ stReport'.pools = PoolRows(DOMAIN items)
      /\ stReport'.capacities = stReport.capacities /\ DOMAIN stReport' = {"capacities", "pools"}
  BY <1>0 DEF ReportPools, StWhere
<1>3. StWhere'
  BY <1>0, <1>1, <1>2 DEF StWhere, StStages
<1>4. StNames' /\ StAccounts' /\ StComplete' /\ Held' = Held
  BY <1>1, <1>3, ListingsKept
<1>5. /\ DOMAIN stSite.pools = 1..Len(stSite.pools) /\ Len(stSite.pools) \in Nat /\ Len(accounts) \in Nat
      /\ DOMAIN items = DOMAIN stSite.pools /\ Failed \subseteq DOMAIN items
  BY <1>0, <1>1, PoolFacts, AccountsHeld DEF StSizing, Failed
<1>6. StSteps'
  <2> DEFINE before == IF stSite.standalone THEN [total |-> 1, done |-> 0] ELSE [total |-> 1 + Len(accounts), done |-> 1 + Len(accounts)]
  <2>1. steps = [total |-> before.total + Len(stSite.pools), done |-> before.done]
    BY <1>0, <1>1 DEF StSteps, StEarly
  <2>2. Len(items) = Len(stSite.pools)
    BY <1>5
  <2>3. steps' = [steps EXCEPT !.done = @ + Len(items)]
    BY DEF ReportPools
  <2>4. steps' = [total |-> before.total + Len(stSite.pools), done |-> before.done + Len(stSite.pools)]
    BY <1>5, <2>1, <2>2, <2>3
  <2>5. /\ steps'.total = before.total + Len(stSite.pools) /\ steps'.done = before.done + Len(stSite.pools)
        /\ before.total \in Nat /\ before.done \in Nat /\ before.total - before.done = IF stSite.standalone THEN 1 ELSE 0
    BY <1>5, <2>4
  <2> HIDE DEF before
  <2>6. /\ steps'.total \in Nat /\ steps'.done \in Nat /\ steps'.done <= steps'.total
        /\ steps'.total - steps'.done = IF stSite.standalone THEN 1 ELSE 0
    BY <1>5, <2>5
  <2>7. stSite' = stSite /\ stStage' = "done"
    BY <1>1
  <2> QED
    BY <2>6, <2>7 DEF StSteps, StEarly
<1>7. StMeasured' /\ StMeasuring'
  <2>1. \A x : <<"capacity", x>> \in stErrors' <=> <<"capacity", x>> \in stErrors
    BY <1>1, CallsDiffer
  <2>2. StMeasured'
    BY <1>0, <1>1, <1>2, <2>1, MeasuredKept
  <2> QED
    BY <1>1, <2>2 DEF StMeasuring, StEarly
<1>8. ASSUME NEW p \in stReport'.pools, NEW held \in Range(stSite.pools), p.pool = held.name
      PROVE  /\ (p.size.note = "none" <=> ~held.paused /\ <<"pool_size", p.pool>> \notin stErrors')
             /\ p.size.note = "none" => p.size.data + p.size.index + p.size.unused = p.size.reserved
             /\ p.size.note # "none" => p.size.usedPct = Unread
  <2>1. PICK i \in DOMAIN items : p = [pool |-> stSite.pools[i].name, size |-> items[i].values]
    BY <1>2 DEF PoolRows
  <2>2. p.pool = stSite.pools[i].name /\ p.size = items[i].values
    BY <2>1
  <2>3. held = stSite.pools[i] /\ \A j \in DOMAIN items : stSite.pools[j].name = p.pool => j = i
    <3>1. PICK j \in DOMAIN stSite.pools : held = stSite.pools[j]
      BY DEF Range
    <3> QED
      BY <1>0, <1>5, <1>8, <2>2, <3>1, PoolFacts
  <2>4. <<"pool_size", p.pool>> \in stErrors' <=> i \in Failed
    <3>1. <<"pool_size", held.name>> \notin stErrors
      BY <1>0, <1>1 DEF StSizing
    <3>2. ASSUME NEW j \in Failed, <<"pool_size", p.pool>> = <<"pool_size", stSite.pools[j].name>>
          PROVE  j = i
      BY <1>5, <2>3, <3>2
    <3> QED
      BY <1>1, <1>8, <2>2, <3>1, <3>2
  <2>5. /\ items[i].phase \in {"done", "failed"} /\ (i \in Failed <=> items[i].phase = "failed")
        /\ items[i].phase = "done" => items[i].values = IF held.paused THEN NotSized("paused") ELSE SizeOf(held)
        /\ items[i].phase = "failed" => items[i].values = NotSized("failed") /\ ~held.paused
    BY <1>0, <1>1, <2>3 DEF StSizing, ItemsOver, Failed
  <2>6. SizeOf(held).note = "none" /\ SizeOf(held).data + SizeOf(held).index + SizeOf(held).unused = SizeOf(held).reserved
    BY <1>0, PoolFacts, SizeAddsUp
  <2>7. NotSized("paused").note = "paused" /\ NotSized("failed").note = "failed" /\ \A x : NotSized(x).usedPct = Unread
    BY DEF NotSized
  <2> QED
    BY <2>2, <2>4, <2>5, <2>6, <2>7
<1>9. {p.pool : p \in stReport'.pools} = {p.name : p \in Range(stSite.pools)}
  <2>1. ASSUME NEW p \in stReport'.pools
        PROVE  \E q \in Range(stSite.pools) : q.name = p.pool
    <3>1. PICK i \in DOMAIN items : p = [pool |-> stSite.pools[i].name, size |-> items[i].values]
      BY <1>2 DEF PoolRows
    <3>2. p.pool = stSite.pools[i].name /\ stSite.pools[i] \in Range(stSite.pools)
      BY <1>5, <3>1 DEF Range
    <3> QED
      BY <3>2
  <2>2. ASSUME NEW q \in Range(stSite.pools)
        PROVE  \E p \in stReport'.pools : p.pool = q.name
    <3>1. PICK i \in DOMAIN stSite.pools : q = stSite.pools[i]
      BY DEF Range
    <3> DEFINE row == [pool |-> stSite.pools[i].name, size |-> items[i].values]
    <3>2. row \in stReport'.pools
      BY <1>2, <1>5 DEF PoolRows
    <3>3. row.pool = q.name
      BY <3>1
    <3> QED
      BY <3>2, <3>3
  <2> QED
    BY <2>1, <2>2
<1>10. StSizing' /\ StSized'
  BY <1>1, <1>8, <1>9 DEF StSizing, StSized
<1> QED
  BY <1>3, <1>4, <1>6, <1>7, <1>10 DEF StInv

-----------------------------------------------------------------------------
(* The storage analyzer as a whole.                                        *)

LEMMA StorageBegins == ASSUME StorageInit PROVE StInv
<1>1. stSite \in StSites /\ default = NoAccount /\ attached = {} /\ accounts = <<>> /\ items = <<>> /\ stReport = EmptyStorage
      /\ broken = {} /\ stErrors = {} /\ steps = [total |-> IF stSite.standalone THEN 1 ELSE 0, done |-> 0]
      /\ stStage = IF stSite.standalone THEN "pool_list" ELSE "workspace"
  BY DEF StorageInit
<1>2. stReport.capacities = {} /\ stReport.pools = {} /\ DOMAIN stReport = {"capacities", "pools"}
  BY <1>1 DEF EmptyStorage
<1>3. StWhere
  BY <1>1, <1>2 DEF StWhere, StStages, StEarly
<1>4. Range(accounts) = {} /\ accounts \in Seq(Held) /\ DOMAIN accounts = {} /\ Len(accounts) = 0
  BY <1>1 DEF Range
<1>5. StNames /\ StAccounts
  BY <1>1, <1>4 DEF StNames, StAccounts, NamesRead, IdsDiffer
<1>6. StComplete
  BY <1>1 DEF StComplete, ListedWhole, NamesRead
<1>7. StSteps
  BY <1>1, <1>4 DEF StSteps, StEarly
<1>8. StMeasuring /\ StMeasured
  BY <1>1, <1>2, <1>4 DEF StMeasuring, StMeasured, StEarly
<1>9. StSizing /\ StSized
  BY <1>1, <1>2 DEF StSizing, StSized
<1> QED
  BY <1>3, <1>5, <1>6, <1>7, <1>8, <1>9 DEF StInv

LEMMA StorageStep == ASSUME StInv, StorageNext PROVE StInv'
<1>1. CASE ReadWorkspace
  BY <1>1, ReadWorkspaceStep
<1>2. CASE ReadReferences
  BY <1>2, ReadReferencesStep
<1>3. CASE ListSubscription \/ ListGroup \/ LookUpDefault
  BY <1>3, ListingStep
<1>4. CASE CountAccounts
  BY <1>4, CountAccountsStep
<1>5. CASE ReportCapacities
  BY <1>5, ReportCapacitiesStep
<1>6. CASE ListStoragePools
  BY <1>6, ListStoragePoolsStep
<1>7. CASE ReportPools
  BY <1>7, ReportPoolsStep
<1>8. ASSUME NEW i \in DOMAIN items, TakeAccount(i) PROVE StInv'
  BY <1>8, TakeAccountStep
<1>9. ASSUME NEW i \in DOMAIN items, AccountMeasured(i) PROVE StInv'
  BY <1>9, AccountMeasuredStep
<1>10. ASSUME NEW i \in DOMAIN items, AccountFails(i) PROVE StInv'
  BY <1>10, AccountFailsStep
<1>11. ASSUME NEW i \in DOMAIN items, TakeStoragePool(i) \/ PoolSized(i) \/ SizingFails(i) PROVE StInv'
  BY <1>11, OnePoolStep
<1> QED
  BY <1>1, <1>2, <1>3, <1>4, <1>5, <1>6, <1>7, <1>8, <1>9, <1>10, <1>11 DEF StorageNext

\* A step of another analyzer leaves it as it is.
LEMMA StorageRests == ASSUME StInv, UNCHANGED stVars PROVE StInv'
<1>1. UNCHANGED <<stSite, default, attached, accounts, items, stReport, steps, broken, stErrors, stStage>>
  BY DEF stVars
<1>2. /\ Held' = Held /\ References' = References /\ NamesRead' = NamesRead /\ (\A a : Wanted(a)' = Wanted(a))
      /\ (\A a : Found(a)' = Found(a)) /\ InGroup(stSite.group)' = InGroup(stSite.group)
  BY <1>1 DEF Held, References, NamesRead, Wanted, Found, InGroup, Part
<1>3. StWhere' = StWhere /\ StNames' = StNames /\ StAccounts' = StAccounts
  BY <1>1, <1>2 DEF StWhere, StNames, StAccounts
<1>4. StComplete' = StComplete
  BY <1>1, <1>2 DEF StComplete, ListedWhole
<1>5. StSteps' = StSteps /\ StMeasuring' = StMeasuring /\ StMeasured' = StMeasured
  BY <1>1, <1>2 DEF StSteps, StMeasuring, StMeasured
<1>6. StSizing' = StSizing /\ StSized' = StSized
  BY <1>1 DEF StSizing, StSized
<1> QED
  BY <1>3, <1>4, <1>5, <1>6 DEF StInv

LEMMA StorageTold == ASSUME StInv PROVE StorageTrue
<1>0. StWhere /\ StNames /\ StAccounts /\ StComplete /\ StSteps /\ StMeasuring /\ StMeasured /\ StSizing /\ StSized
  BY DEF StInv
<1>1. StepsCounted
  <2>1. Len(accounts) \in Nat /\ Len(stSite.pools) \in Nat /\ stSite.standalone \in BOOLEAN
    BY <1>0, AccountsHeld, PoolFacts, SiteFacts
  <2>2. steps.done <= steps.total
    <3> DEFINE before == IF stSite.standalone THEN [total |-> 1, done |-> 0] ELSE [total |-> 1 + Len(accounts), done |-> 1 + Len(accounts)]
    <3>1. before.total \in Nat /\ before.done \in Nat /\ before.done <= before.total
      BY <2>1
    <3>2. CASE stStage \in StEarly
      BY <1>0, <3>2 DEF StSteps
    <3>3. CASE stStage = "capacities"
      <4>1. steps.total = 1 + Len(accounts) /\ steps.done = 1
        BY <1>0, <3>3 DEF StSteps
      <4> QED
        BY <2>1, <4>1
    <3>4. CASE stStage = "pool_list"
      <4>1. steps = before
        BY <1>0, <3>4 DEF StSteps
      <4> QED
        BY <3>1, <4>1
    <3>5. CASE stStage = "pools"
      <4>1. steps = [total |-> before.total + Len(stSite.pools), done |-> before.done]
        BY <1>0, <3>5 DEF StSteps
      <4> HIDE DEF before
      <4> QED
        BY <2>1, <3>1, <4>1
    <3>6. CASE stStage = "done"
      BY <1>0, <3>6 DEF StSteps
    <3> QED
      BY <1>0, <3>2, <3>3, <3>4, <3>5, <3>6 DEF StWhere, StStages
  <2>3. stStage = "done" => steps.total - steps.done = IF stSite.standalone THEN 1 ELSE 0
    BY <1>0 DEF StSteps
  <2> QED
    BY <2>2, <2>3 DEF StepsCounted
<1>2. ASSUME stStage = "done"
      PROVE  AccountsFound
  <2>1. DOMAIN [i \in DOMAIN accounts |-> accounts[i].id] = DOMAIN accounts
    OBVIOUS
  <2>2. IsInjective([i \in DOMAIN accounts |-> accounts[i].id])
    BY <1>0 DEF StAccounts, IdsDiffer, IsInjective
  <2>3. ASSUME ~stSite.standalone, {<<"workspace">>, <<"references">>} \cap broken = {}
        PROVE  /\ <<"subscription">> \notin broken => \A a \in Range(stSite.held) : Wanted(a) => Found(a)
               /\ (<<"group">> \notin broken /\ stSite.group # NoName) => \A a \in Range(InGroup(stSite.group)) : Wanted(a) => Found(a)
               /\ <<"default">> \notin broken =>
                    \A a \in Range(stSite.elsewhere) :
                      (Wanted(a) /\ a.name = stSite.default.name /\ a.group = stSite.default.group /\ a.group # NoName) => Found(a)
    <3>1. NamesRead
      BY <2>3 DEF NamesRead
    <3> QED
      BY <1>0, <1>2, <3>1 DEF StComplete, ListedWhole
  <2> QED
    BY <1>0, <2>2, <2>3 DEF AccountsFound, StAccounts
<1>3. ASSUME stStage = "done"
      PROVE  AccountsMeasured
  BY <1>0, <1>3 DEF AccountsMeasured, StMeasured, StSized, Told
<1> QED
  BY <1>1, <1>2, <1>3 DEF StorageTrue

-----------------------------------------------------------------------------
(* The invariant of the analyzer of serverless pools.                      *)

Listings == {"external_data_sources", "external_tables", "external_table_columns"}
BeforeTop == {"start", "databases"} \cup Listings \cup {"usage", "top_queries"}
BeforeDaily == BeforeTop \cup {"daily_usage"}
BeforeHourly == BeforeDaily \cup {"hourly_usage"}
SvStages == BeforeHourly \cup {"storage_account_usage", "done", "raised"}
Workers == Max({1, SvWorkers})

SvWhere ==
  /\ endpoint \in SvEndpoints /\ svStage \in SvStages /\ DOMAIN svReport = DOMAIN NoServerlessReport
  /\ endpoint.held \subseteq history /\ history \subseteq endpoint.held \cup endpoint.running
SvSessions ==
  /\ connections \ {"master"} = Reading /\ DOMAIN reading \subseteq DOMAIN endpoint.objects
  /\ Cardinality(Reading) <= Workers /\ (svStage \notin Listings => Reading = {})
  /\ svStage \in {"start", "raised", "done", "storage_account_usage"} => connections = {}

\* The listings are of the databases read.
SvListed ==
  /\ svReport.databases = DOMAIN reading
  /\ svStage \notin {"start", "raised", "databases"} /\ "databases" \notin svErrors => svReport.databases = DOMAIN endpoint.objects
  /\ \A part \in Listings : \A row \in svReport[part] : row[1] \in DOMAIN reading /\ row[2] \in endpoint.objects[row[1]][part]

\* A count is between that of the requests that had ended at first and of those
\* that have by now.
Between(rows, first, now) == RequestsOf(rows) \in Nat /\ RequestsOf(first) <= RequestsOf(rows) /\ RequestsOf(rows) <= RequestsOf(now)
SvCounted ==
  /\ svStage \in BeforeHourly => "hourly_usage" \notin svErrors
  /\ svStage \notin BeforeHourly \cup {"raised"} /\ "hourly_usage" \notin svErrors =>
       Between(svReport.hourly_usage, ServerlessHourly(endpoint.held), ServerlessHourly(history))
  /\ svStage \notin BeforeDaily \cup {"raised"} /\ "daily_usage" \notin svErrors =>
       Between(svReport.daily_usage, ServerlessDaily(endpoint.held), ServerlessDaily(history))

\* The bill was estimated over all that the top queries read.
CompletedTop == {q \in svReport.top_queries : q.status = "Completed"}
SvCharged ==
  /\ \A q \in svReport.top_queries : q \in history /\ q.age < TopDays * DayHours
  /\ svStage \in BeforeDaily \cup {"raised"} => "daily_usage" \notin svErrors /\ svReport.cost_estimate = Unmeasured
  /\ "daily_usage" \in svErrors => svReport.cost_estimate = Unmeasured
  /\ svStage \notin BeforeDaily \cup {"raised"} /\ "daily_usage" \notin svErrors =>
       svReport.cost_estimate \in Nat /\ svReport.cost_estimate >= endpoint.price * Added(MbOf(CompletedTop))
  /\ svStage # "done" => svReport.storage_account_usage = {}
  /\ svReport.storage_account_usage # {} => svReport.storage_account_usage = Attribute(svReport.top_queries, endpoint.price)

SvInv == SvWhere /\ SvSessions /\ SvListed /\ SvCounted /\ SvCharged

-----------------------------------------------------------------------------
(* The order of the parts.                                                 *)

LEMMA OrderIs ==
    Range(DatabaseListings) = Listings /\ Range(MasterParts) = {"usage", "top_queries", "daily_usage", "hourly_usage"}
BY DEF DatabaseListings, MasterParts, Listings, Range

LEMMA PartAfterIs ==
    /\ PartAfter("databases") = "external_data_sources" /\ PartAfter("external_data_sources") = "external_tables"
    /\ PartAfter("external_tables") = "external_table_columns" /\ PartAfter("external_table_columns") = "usage"
    /\ PartAfter("usage") = "top_queries" /\ PartAfter("top_queries") = "daily_usage" /\ PartAfter("daily_usage") = "hourly_usage"
    /\ PartAfter("hourly_usage") = "storage_account_usage" /\ PartAfter("storage_account_usage") = "done"
<1>1. DOMAIN Order = 1..9 /\ Len(Order) = 9
  BY DEF Order
<1>2. ASSUME NEW i \in 1..9, \A j \in 1..9 : Order[j] = Order[i] => j = i
      PROVE  PartAfter(Order[i]) = IF i = 9 THEN "done" ELSE Order[i + 1]
  <2>1. (CHOOSE j \in DOMAIN Order : Order[j] = Order[i]) = i
    BY <1>1, <1>2
  <2> QED
    BY <1>1, <2>1, Zenon DEF PartAfter
<1>3. /\ Order[1] = "databases" /\ Order[2] = "external_data_sources" /\ Order[3] = "external_tables"
      /\ Order[4] = "external_table_columns" /\ Order[5] = "usage" /\ Order[6] = "top_queries" /\ Order[7] = "daily_usage"
      /\ Order[8] = "hourly_usage" /\ Order[9] = "storage_account_usage"
  BY DEF Order
<1>4. \A i, j \in 1..9 : Order[j] = Order[i] => j = i
  BY <1>3
<1>5. \A i \in 1..9 : PartAfter(Order[i]) = IF i = 9 THEN "done" ELSE Order[i + 1]
  BY <1>2, <1>4
<1> QED
  BY <1>3, <1>5

-----------------------------------------------------------------------------
(* The usage and what is charged.                                          *)

LEMMA AddedIs == ASSUME NEW f, NEW S, DOMAIN f = S PROVE Added(f) = Total(f, S)
<1>1. Added(f) = Total(f, DOMAIN f)
  BY Zenon DEF Added, Total
<1> QED
  BY <1>1

\* A row per key, whose numbers are the sums by key, add up to the sum.
RowsOf(row, K) == {row[k] : k \in K}
LEMMA RowsAdd ==
    ASSUME NEW S, IsFiniteSet(S), NEW f, \A x \in S : f[x] \in Int,
           NEW key, NEW K, IsFiniteSet(K), \A x \in S : key[x] \in K,
           NEW by, SumsByKey(by, K, f, S, key), \A k \in K : by[k] \in Int,
           NEW row, \A k, l \in K : row[k] = row[l] => k = l,
           NEW h, \A k \in K : h[row[k]] = by[k]
    PROVE  Total(h, RowsOf(row, K)) = Total(f, S)
<1>1. Total(by, K) = Total(f, S)
  BY TotalKeyed
<1>2. Total(h, {row[x] : x \in K}) = Total(by, K)
  BY TotalRenamed
<1> QED
  BY <1>1, <1>2 DEF RowsOf

\* As many as there are ones.
LEMMA TotalOnes ==
    ASSUME NEW f, NEW S, IsFiniteSet(S), \A x \in S : f[x] = 1
    PROVE  Total(f, S) = Cardinality(S) /\ Cardinality(S) \in Nat
<1>1. Total(f, S) = 1 * Cardinality(S) /\ Cardinality(S) \in Nat
  BY TotalConst, FS_CardinalityType
<1> QED
  BY <1>1

LEMMA MbNat == ASSUME NEW q, q.mb \in Int PROVE Mb(q) \in Nat
<1> DEFINE S == {0, q.mb}
<1>1. \E x \in S : \A y \in S : x >= y
  BY DEF S
<1>2. Max(S) \in S /\ \A y \in S : Max(S) >= y
  BY <1>1, Zenon DEF Max
<1> QED
  BY <1>2 DEF Mb, S

\* A row per key that counts the requests of the key and their data tells all.
OwnOf(S, key, k) == {q \in S : key[q] = k}
Tells(S, key, K, row, counts, mbs) ==
  \A k \in K : counts[row[k]] = Cardinality(OwnOf(S, key, k)) /\ mbs[row[k]] = Added(MbOf(OwnOf(S, key, k)))
LEMMA RowsTell ==
    ASSUME NEW S, IsFiniteSet(S), \A q \in S : q.mb \in Int, NEW key, NEW K, IsFiniteSet(K), \A q \in S : key[q] \in K,
           NEW row, \A k, l \in K : row[k] = row[l] => k = l, NEW counts, NEW mbs,
           Tells(S, key, K, row, counts, mbs)
    PROVE  /\ Total(counts, RowsOf(row, K)) = Cardinality(S) /\ Cardinality(S) \in Nat
           /\ Total(mbs, RowsOf(row, K)) = Total(MbOf(S), S)
<1> DEFINE ones == [q \in S |-> 1]
           data == MbOf(S)
           countBy == [k \in K |-> Cardinality(OwnOf(S, key, k))]
           dataBy == [k \in K |-> Added(MbOf(OwnOf(S, key, k)))]
<1>1. \A q \in S : ones[q] = 1 /\ data[q] \in Nat /\ data[q] = Mb(q)
  BY MbNat DEF MbOf
<1>2. \A k \in K : countBy[k] = Cardinality(OwnOf(S, key, k)) /\ dataBy[k] = Added(MbOf(OwnOf(S, key, k)))
  OBVIOUS
<1> HIDE DEF ones, data, countBy, dataBy
<1>3. ASSUME NEW k \in K
      PROVE  /\ countBy[k] = Total(ones, {x \in S : key[x] = k}) /\ countBy[k] \in Int
             /\ dataBy[k] = Total(data, {x \in S : key[x] = k}) /\ dataBy[k] \in Int
  <2> DEFINE own == OwnOf(S, key, k)
  <2>1. own = {x \in S : key[x] = k} /\ own \subseteq S /\ IsFiniteSet(own)
    <3>1. own = {x \in S : key[x] = k} /\ own \subseteq S
      BY DEF OwnOf
    <3> HIDE DEF own
    <3> QED
      BY <3>1, FS_Subset
  <2>2. countBy[k] = Cardinality(own) /\ dataBy[k] = Added(MbOf(own))
    BY <1>2
  <2> HIDE DEF own
  <2>3. Cardinality(own) = Total(ones, own) /\ Cardinality(own) \in Int
    <3>1. \A q \in own : ones[q] = 1
      BY <1>1, <2>1
    <3> QED
      BY <2>1, <3>1, TotalOnes
  <2>4. DOMAIN MbOf(own) = own /\ \A q \in own : MbOf(own)[q] = data[q] /\ data[q] \in Int
    BY <1>1, <2>1 DEF MbOf
  <2>5. Added(MbOf(own)) = Total(MbOf(own), own)
    BY <2>4, AddedIs
  <2>6. Total(MbOf(own), own) = Total(data, own)
    BY <2>1, <2>4, TotalSame
  <2>7. Total(data, own) \in Int
    BY <2>1, <2>4, TotalInt
  <2> QED
    BY <2>1, <2>2, <2>3, <2>5, <2>6, <2>7
<1>4. SumsByKey(countBy, K, ones, S, key) /\ SumsByKey(dataBy, K, data, S, key)
  BY <1>3 DEF SumsByKey
<1>5. /\ \A q \in S : ones[q] \in Int /\ data[q] \in Int
      /\ \A k \in K : countBy[k] \in Int /\ dataBy[k] \in Int /\ counts[row[k]] = countBy[k] /\ mbs[row[k]] = dataBy[k]
  <2>1. ASSUME NEW k \in K
        PROVE  countBy[k] \in Int /\ dataBy[k] \in Int
    BY <1>3
  <2> QED
    BY <1>1, <1>2, <2>1 DEF Tells
<1>6. Total(counts, RowsOf(row, K)) = Total(ones, S)
  BY <1>4, <1>5, RowsAdd
<1>8. Total(mbs, RowsOf(row, K)) = Total(data, S)
  BY <1>4, <1>5, RowsAdd
<1>7. Total(ones, S) = Cardinality(S) /\ Cardinality(S) \in Nat
  BY <1>1, TotalOnes
<1> QED
  BY <1>6, <1>7, <1>8 DEF data

\* The rows of the usage count each completed request once, and its data.
LEMMA UsageCounts ==
    ASSUME NEW requests, IsFiniteSet(requests), \A q \in requests : q.mb \in Int, NEW hours, NEW bin
    PROVE  /\ RequestsOf(UsageBy(requests, hours, bin)) = Cardinality(CompletedIn(requests, hours))
           /\ Added([d \in UsageBy(requests, hours, bin) |-> d.mb]) = Added(MbOf(CompletedIn(requests, hours)))
           /\ IsFiniteSet(CompletedIn(requests, hours)) /\ Cardinality(CompletedIn(requests, hours)) \in Nat
<1> DEFINE S == CompletedIn(requests, hours)
           key == [q \in S |-> q.age \div bin]
           K == {key[q] : q \in S}
           row == [k \in K |-> UsageRow(OwnOf(S, key, k), k)]
           rows == RowsOf(row, K)
           counts == [r \in rows |-> r.requests]
           mbs == [r \in rows |-> r.mb]
<1>1. S \subseteq requests /\ IsFiniteSet(S) /\ \A q \in S : q.mb \in Int
  <2>1. S \subseteq requests
    BY DEF CompletedIn
  <2> QED
    BY <2>1, FS_Subset
<1>3. IsFiniteSet(K) /\ \A q \in S : key[q] \in K
  <2> HIDE DEF S, key
  <2> QED
    BY <1>1, FiniteImage
<1>4. UsageBy(requests, hours, bin) = rows
  <2>1. {q.age \div bin : q \in S} = K
    OBVIOUS
  <2>2. \A b : {q \in S : q.age \div bin = b} = OwnOf(S, key, b)
    BY DEF OwnOf
  <2>3. UsageBy(requests, hours, bin) = {UsageRow({q \in S : q.age \div bin = b}, b) : b \in {q.age \div bin : q \in S}}
    BY DEF UsageBy
  <2>4. UsageBy(requests, hours, bin) = {UsageRow(OwnOf(S, key, b), b) : b \in K}
    <3> HIDE DEF S, K
    <3> QED
      BY <2>1, <2>2, <2>3
  <2>5. rows = {UsageRow(OwnOf(S, key, b), b) : b \in K}
    <3> HIDE DEF S, K
    <3> QED
      BY DEF RowsOf
  <2> QED
    BY <2>4, <2>5
<1>5. ASSUME NEW k \in K
      PROVE  /\ row[k] \in rows /\ row[k].bin = k
             /\ counts[row[k]] = Cardinality(OwnOf(S, key, k)) /\ mbs[row[k]] = Added(MbOf(OwnOf(S, key, k)))
  <2>1. row[k] = UsageRow(OwnOf(S, key, k), k) /\ row[k] \in rows
    <3> HIDE DEF S, K, key
    <3> QED
      BY DEF RowsOf
  <2> HIDE DEF row, rows, S, K, key
  <2>2. row[k].bin = k /\ row[k].requests = Cardinality(OwnOf(S, key, k)) /\ row[k].mb = Added(MbOf(OwnOf(S, key, k)))
    BY <2>1 DEF UsageRow
  <2>3. counts[row[k]] = row[k].requests /\ mbs[row[k]] = row[k].mb
    BY <2>1
  <2> QED
    BY <2>1, <2>2, <2>3
<1>6. \A k, l \in K : row[k] = row[l] => k = l
  <2> HIDE DEF K, row
  <2> QED
    BY <1>5
<1>9. /\ RequestsOf(UsageBy(requests, hours, bin)) = Added(counts) /\ DOMAIN counts = rows /\ DOMAIN mbs = rows /\ DOMAIN MbOf(S) = S
      /\ Added([d \in UsageBy(requests, hours, bin) |-> d.mb]) = Added(mbs)
  <2>1. RequestsOf(UsageBy(requests, hours, bin)) = Added(counts)
    BY <1>4, Zenon DEF RequestsOf
  <2>2. Added([d \in UsageBy(requests, hours, bin) |-> d.mb]) = Added(mbs)
    BY <1>4, Zenon
  <2>3. DOMAIN counts = rows /\ DOMAIN mbs = rows /\ DOMAIN MbOf(S) = S
    BY DEF MbOf
  <2> QED
    BY <2>1, <2>2, <2>3
<1> HIDE DEF S, key, K, row, rows, counts, mbs
<1>10. Total(counts, rows) = Cardinality(S) /\ Cardinality(S) \in Nat /\ Total(mbs, rows) = Total(MbOf(S), S)
  <2>1. Tells(S, key, K, row, counts, mbs)
    BY <1>5 DEF Tells
  <2>2. /\ Total(counts, RowsOf(row, K)) = Cardinality(S) /\ Cardinality(S) \in Nat
        /\ Total(mbs, RowsOf(row, K)) = Total(MbOf(S), S)
    BY <1>1, <1>3, <1>6, <2>1, RowsTell
  <2> QED
    BY <2>2 DEF rows
<1>13. Added(counts) = Total(counts, rows) /\ Added(mbs) = Total(mbs, rows) /\ Added(MbOf(S)) = Total(MbOf(S), S)
  BY <1>9, AddedIs
<1> QED
  BY <1>1, <1>9, <1>10, <1>13 DEF S

\* A query is charged once at most, and so is what it read.
LEMMA ChargedOnce ==
    ASSUME NEW top, IsFiniteSet(top), \A q \in top : q.mb \in Int, NEW price
    PROVE  /\ Added([a \in Attribute(top, price) |-> a.queries]) <= Cardinality({q \in top : q.hosts # <<>>})
           /\ Added([a \in Attribute(top, price) |-> a.mb]) <= Added(MbOf(top))
<1> DEFINE S == {q \in top : AttributionHost(q) # "none"}
           key == [q \in S |-> AttributionHost(q)]
           K == {key[q] : q \in S}
           row == [k \in K |-> ChargeRow(k, OwnOf(S, key, k), price)]
           rows == RowsOf(row, K)
           counts == [r \in rows |-> r.queries]
           mbs == [r \in rows |-> r.mb]
           hosted == {q \in top : q.hosts # <<>>}
<1>1. S \subseteq top /\ IsFiniteSet(S) /\ \A q \in S : q.mb \in Int
  <2>1. S \subseteq top
    OBVIOUS
  <2> QED
    BY <2>1, FS_Subset
<1>2. S \subseteq hosted /\ IsFiniteSet(hosted)
  <2>1. hosted \subseteq top /\ S \subseteq hosted
    BY DEF AttributionHost
  <2> HIDE DEF hosted
  <2> QED
    BY <2>1, FS_Subset
<1>3. IsFiniteSet(K) /\ \A q \in S : key[q] \in K
  <2> HIDE DEF S, key
  <2> QED
    BY <1>1, FiniteImage
<1>4. Attribute(top, price) = rows
  <2>1. {AttributionHost(q) : q \in top} \ {"none"} = K
    OBVIOUS
  <2> DEFINE Of(k) == {q \in top : AttributionHost(q) = k}
  <2>2. \A k \in K : Of(k) = OwnOf(S, key, k)
    BY DEF OwnOf
  <2>3. Attribute(top, price) = {ChargeRow(k, Of(k), price) : k \in {AttributionHost(q) : q \in top} \ {"none"}}
    BY DEF Attribute
  <2>4. Attribute(top, price) = {ChargeRow(k, OwnOf(S, key, k), price) : k \in K}
    <3>1. Attribute(top, price) = {ChargeRow(k, Of(k), price) : k \in K}
      BY <2>1, <2>3, Zenon
    <3> HIDE DEF S, K, key, Of
    <3> QED
      BY <2>2, <3>1
  <2>5. rows = {ChargeRow(k, OwnOf(S, key, k), price) : k \in K}
    <3> HIDE DEF S, K, key
    <3> QED
      BY DEF RowsOf
  <2> QED
    BY <2>4, <2>5
<1>5. ASSUME NEW k \in K
      PROVE  /\ row[k] \in rows /\ row[k].account = k
             /\ counts[row[k]] = Cardinality(OwnOf(S, key, k)) /\ mbs[row[k]] = Added(MbOf(OwnOf(S, key, k)))
  <2>1. row[k] = ChargeRow(k, OwnOf(S, key, k), price) /\ row[k] \in rows
    <3> HIDE DEF S, K, key
    <3> QED
      BY DEF RowsOf
  <2> HIDE DEF row, rows, S, K, key
  <2>2. row[k].account = k /\ row[k].queries = Cardinality(OwnOf(S, key, k)) /\ row[k].mb = Added(MbOf(OwnOf(S, key, k)))
    BY <2>1 DEF ChargeRow
  <2>3. counts[row[k]] = row[k].queries /\ mbs[row[k]] = row[k].mb
    BY <2>1
  <2> QED
    BY <2>1, <2>2, <2>3
<1>6. \A k, l \in K : row[k] = row[l] => k = l
  <2> HIDE DEF K, row
  <2> QED
    BY <1>5
<1>7. /\ Added([a \in Attribute(top, price) |-> a.queries]) = Added(counts) /\ DOMAIN counts = rows /\ DOMAIN mbs = rows
      /\ Added([a \in Attribute(top, price) |-> a.mb]) = Added(mbs)
  <2>1. Added([a \in Attribute(top, price) |-> a.queries]) = Added(counts)
    BY <1>4, Zenon
  <2>2. Added([a \in Attribute(top, price) |-> a.mb]) = Added(mbs)
    BY <1>4, Zenon
  <2> QED
    BY <2>1, <2>2
<1>8. /\ DOMAIN MbOf(S) = S /\ DOMAIN MbOf(top) = top /\ \A q \in top : MbOf(top)[q] \in Nat
      /\ \A q \in S : MbOf(S)[q] = MbOf(top)[q]
  <2> HIDE DEF S
  <2> QED
    BY <1>1, MbNat DEF MbOf
<1> HIDE DEF S, key, K, row, rows, counts, mbs, hosted
<1>10. Total(counts, rows) = Cardinality(S) /\ Cardinality(S) \in Nat /\ Total(mbs, rows) = Total(MbOf(S), S)
  <2>1. Tells(S, key, K, row, counts, mbs)
    BY <1>5 DEF Tells
  <2>2. /\ Total(counts, RowsOf(row, K)) = Cardinality(S) /\ Cardinality(S) \in Nat
        /\ Total(mbs, RowsOf(row, K)) = Total(MbOf(S), S)
    BY <1>1, <1>3, <1>6, <2>1, RowsTell
  <2> QED
    BY <2>2 DEF rows
<1>11. Added(counts) = Total(counts, rows) /\ Added(mbs) = Total(mbs, rows) /\ Added(MbOf(top)) = Total(MbOf(top), top)
  BY <1>7, <1>8, AddedIs
<1>12. Total(MbOf(S), S) = Total(MbOf(top), S)
  BY <1>1, <1>8, TotalSame
<1>13. Total(MbOf(top), S) <= Total(MbOf(top), top)
  BY <1>1, <1>8, TotalPart
<1>14. Cardinality(S) <= Cardinality(hosted)
  BY <1>2, FS_Subset
<1> QED
  BY <1>7, <1>10, <1>11, <1>12, <1>13, <1>14 DEF hosted

\* The more requests have ended, the more are counted.
LEMMA CompletedGrow ==
    ASSUME NEW before, NEW now, IsFiniteSet(now), before \subseteq now, \A q \in now : q.mb \in Int, NEW hours, NEW bin
    PROVE  /\ RequestsOf(UsageBy(before, hours, bin)) <= RequestsOf(UsageBy(now, hours, bin))
           /\ RequestsOf(UsageBy(before, hours, bin)) \in Nat /\ RequestsOf(UsageBy(now, hours, bin)) \in Nat
<1>1. IsFiniteSet(before) /\ \A q \in before : q.mb \in Int
  BY FS_Subset
<1>2. CompletedIn(before, hours) \subseteq CompletedIn(now, hours)
  BY DEF CompletedIn
<1>3. /\ RequestsOf(UsageBy(before, hours, bin)) = Cardinality(CompletedIn(before, hours)) /\ Cardinality(CompletedIn(before, hours)) \in Nat
      /\ RequestsOf(UsageBy(now, hours, bin)) = Cardinality(CompletedIn(now, hours)) /\ Cardinality(CompletedIn(now, hours)) \in Nat
      /\ IsFiniteSet(CompletedIn(now, hours))
  BY <1>1, UsageCounts
<1>4. Cardinality(CompletedIn(before, hours)) <= Cardinality(CompletedIn(now, hours))
  BY <1>2, <1>3, FS_Subset
<1> QED
  BY <1>3, <1>4

-----------------------------------------------------------------------------
(* The steps of the analyzer of serverless pools.                          *)

LEMMA EndpointFacts ==
    ASSUME SvWhere
    PROVE  /\ IsFiniteSet(DOMAIN endpoint.objects) /\ "master" \notin DOMAIN endpoint.objects
           /\ endpoint.price \in Nat \cup {Unmeasured} /\ IsFiniteSet(history)
           /\ \A q \in history : q.age \in Nat /\ q.mb \in Int
           /\ \A q \in endpoint.running : q.age \in Nat /\ q.mb \in Int
<1>1. EndpointSound(endpoint)
  BY ServerlessAssumption DEF SvWhere
<1>2. IsFiniteSet(endpoint.held \cup endpoint.running)
  BY <1>1, FS_Union DEF EndpointSound
<1>3. IsFiniteSet(history)
  BY <1>2, FS_Subset DEF SvWhere
<1> QED
  BY <1>1, <1>3 DEF EndpointSound, SvWhere

LEMMA WorkersFacts ==
    /\ Workers \in Nat /\ Workers >= 1
    /\ \A n \in Int, c \in Int : c < Min({n, Workers}) => c < Workers
<1> DEFINE S == {1, SvWorkers}
<1>1. \E x \in S : \A y \in S : x >= y
  BY ServerlessAssumption DEF S
<1>2. Workers \in S /\ \A y \in S : Workers >= y
  BY <1>1, Zenon DEF Workers, Max
<1>3. Workers \in Nat /\ Workers >= 1
  BY <1>2, ServerlessAssumption DEF S
<1>4. ASSUME NEW n \in Int, NEW c \in Int, c < Min({n, Workers})
      PROVE  c < Workers
  <2> DEFINE T == {n, Workers}
  <2>1. \E x \in T : \A y \in T : x <= y
    BY <1>3
  <2>2. Min(T) \in T /\ \A y \in T : Min(T) <= y
    BY <2>1, Zenon DEF Min
  <2> QED
    BY <1>3, <1>4, <2>2
<1> QED
  BY <1>3, <1>4

LEMMA CountKept ==
    ASSUME SvCounted, UNCHANGED <<endpoint, history>>, svReport'.hourly_usage = svReport.hourly_usage,
           svReport'.daily_usage = svReport.daily_usage,
           "hourly_usage" \in svErrors' <=> "hourly_usage" \in svErrors, "daily_usage" \in svErrors' <=> "daily_usage" \in svErrors,
           svStage' \in BeforeHourly => svStage \in BeforeHourly,
           svStage' \notin BeforeHourly \cup {"raised"} => svStage \notin BeforeHourly \cup {"raised"},
           svStage' \notin BeforeDaily \cup {"raised"} => svStage \notin BeforeDaily \cup {"raised"}
    PROVE  SvCounted'
<1>1. /\ ServerlessHourly(endpoint.held)' = ServerlessHourly(endpoint.held) /\ ServerlessHourly(history)' = ServerlessHourly(history)
      /\ ServerlessDaily(endpoint.held)' = ServerlessDaily(endpoint.held) /\ ServerlessDaily(history)' = ServerlessDaily(history)
  OBVIOUS
<1> QED
  BY <1>1 DEF SvCounted, Between

LEMMA ChargeKept ==
    ASSUME SvCharged, UNCHANGED <<endpoint, history>>, svReport'.top_queries = svReport.top_queries,
           svReport'.cost_estimate = svReport.cost_estimate, svReport'.storage_account_usage = svReport.storage_account_usage,
           "daily_usage" \in svErrors' <=> "daily_usage" \in svErrors,
           svStage' \in BeforeDaily \cup {"raised"} <=> svStage \in BeforeDaily \cup {"raised"},
           svStage' # "done" => svStage # "done"
    PROVE  SvCharged'
<1>1. Added(MbOf(CompletedTop))' = Added(MbOf(CompletedTop))
  BY DEF CompletedTop
<1>2. Attribute(svReport.top_queries, endpoint.price)' = Attribute(svReport.top_queries, endpoint.price)
  BY DEF Attribute
<1> QED
  BY <1>1, <1>2 DEF SvCharged

\* A part of master is over: no other session is open.
MasterStages == {"databases", "usage", "top_queries", "daily_usage", "hourly_usage", "storage_account_usage"}
AfterMaster(part) ==
  IF part = "databases" THEN "external_data_sources" ELSE IF part = "usage" THEN "top_queries"
  ELSE IF part = "top_queries" THEN "daily_usage" ELSE IF part = "daily_usage" THEN "hourly_usage"
  ELSE IF part = "hourly_usage" THEN "storage_account_usage" ELSE "done"
LEMMA PartOver ==
    ASSUME SvWhere, SvSessions, NEW part \in MasterStages, GoOn(part), Reading' = {}, DOMAIN reading' \subseteq DOMAIN endpoint.objects,
           DOMAIN svReport' = DOMAIN svReport
    PROVE  SvWhere' /\ SvSessions' /\ svStage = part /\ svStage' = AfterMaster(part) /\ UNCHANGED <<endpoint, history>>
<1>1. svStage = part /\ svStage' = AfterMaster(part) /\ UNCHANGED <<endpoint, history>>
  BY PartAfterIs DEF GoOn, MasterStages, AfterMaster
<1>2. SvWhere'
  BY <1>1 DEF SvWhere, SvStages, BeforeHourly, BeforeDaily, BeforeTop, Listings, AfterMaster, MasterStages
<1>3. connections' = IF part = "hourly_usage" THEN connections \ {"master"} ELSE connections
  BY DEF GoOn
<1>4. connections \ {"master"} = {} /\ (part = "storage_account_usage" => connections = {})
  BY <1>1 DEF SvSessions, MasterStages, Listings
<1>5. connections' \ {"master"} = {} /\ (svStage' \in {"start", "raised", "done", "storage_account_usage"} => connections' = {})
  BY <1>1, <1>3, <1>4 DEF AfterMaster, MasterStages
<1>6. Cardinality({}) = 0
  BY FS_EmptySet
<1>7. Cardinality(Reading') <= Workers
  BY <1>6, WorkersFacts
<1>8. SvSessions'
  BY <1>1, <1>5, <1>7 DEF SvSessions, Workers
<1> QED
  BY <1>1, <1>2, <1>8

LEMMA OpenMasterStep == ASSUME SvInv, OpenMaster \/ OpenMasterFails PROVE SvInv'
<1>0. SvWhere /\ SvSessions /\ SvListed /\ SvCounted /\ SvCharged
  BY DEF SvInv
<1>1. /\ svStage = "start" /\ UNCHANGED <<endpoint, history, reading, svReport, svErrors>>
      /\ \/ svStage' = "databases" /\ connections' = {"master"}
         \/ svStage' = "raised" /\ connections' = connections
  BY DEF OpenMaster, OpenMasterFails
<1>2. SvWhere'
  BY <1>0, <1>1 DEF SvWhere, SvStages, BeforeHourly, BeforeDaily, BeforeTop
<1>3. Reading' = Reading
  BY <1>1 DEF Reading
<1>4. SvSessions'
  BY <1>0, <1>1, <1>3 DEF SvSessions, Listings, Workers
<1>5. SvListed'
  BY <1>0, <1>1 DEF SvListed
<1>6. svStage \in BeforeTop /\ svStage' \in BeforeTop \cup {"raised"} /\ svStage # "done" /\ svStage' # "done"
  BY <1>1 DEF BeforeTop
<1>7. SvCounted'
  BY <1>0, <1>1, <1>6, CountKept DEF BeforeHourly, BeforeDaily
<1>8. SvCharged'
  BY <1>0, <1>1, <1>6, ChargeKept DEF BeforeDaily
<1> QED
  BY <1>2, <1>4, <1>5, <1>7, <1>8 DEF SvInv

\* What no session is open to is not being read.
LEMMA NothingRead ==
    ASSUME SvSessions, svStage \in MasterStages
    PROVE  Reading = {} /\ (reading' = reading => Reading' = {})
BY DEF SvSessions, MasterStages, Listings, Reading

LEMMA ReadDatabasesStep == ASSUME SvInv, ReadDatabases PROVE SvInv'
<1>0. SvWhere /\ SvSessions /\ SvListed /\ SvCounted /\ SvCharged
  BY DEF SvInv
<1>1. /\ svStage = "databases" /\ svStage' = "external_data_sources" /\ UNCHANGED <<endpoint, history, connections, svErrors>>
      /\ svReport' = [svReport EXCEPT !.databases = DOMAIN endpoint.objects]
      /\ reading' = [d \in DOMAIN endpoint.objects |-> "queued"]
  BY DEF ReadDatabases, Queued
<1>2. /\ DOMAIN svReport' = DOMAIN svReport /\ svReport'.databases = DOMAIN endpoint.objects
      /\ \A x \in DOMAIN svReport : x # "databases" => svReport'[x] = svReport[x]
      /\ Listings \cup {"top_queries", "hourly_usage", "daily_usage", "cost_estimate", "storage_account_usage", "databases"}
           \subseteq DOMAIN svReport
  BY <1>0, <1>1 DEF SvWhere, NoServerlessReport, Listings
<1>3. Reading' = {} /\ DOMAIN reading' = DOMAIN endpoint.objects
  BY <1>1 DEF Reading
<1>4. SvWhere' /\ SvSessions'
  <2>1. GoOn("databases")
    BY <1>1, PartAfterIs DEF GoOn
  <2> QED
    BY <1>0, <1>2, <1>3, <2>1, PartOver DEF MasterStages
<1>5. SvListed'
  <2>1. reading = <<>> \/ DOMAIN reading \subseteq DOMAIN endpoint.objects
    BY <1>0 DEF SvSessions
  <2>2. \A part \in Listings : svReport'[part] = svReport[part]
    BY <1>2 DEF Listings
  <2>3. DOMAIN reading \subseteq DOMAIN reading'
    BY <1>0, <1>3 DEF SvSessions
  <2> QED
    BY <1>0, <1>1, <1>2, <1>3, <2>2, <2>3 DEF SvListed
<1>6. svStage \in BeforeTop /\ svStage' \in BeforeTop /\ svStage # "done" /\ svStage' # "done"
  BY <1>1 DEF BeforeTop, Listings
<1>7. SvCounted'
  BY <1>0, <1>1, <1>2, <1>6, CountKept DEF BeforeHourly, BeforeDaily
<1>8. SvCharged'
  BY <1>0, <1>1, <1>2, <1>6, ChargeKept DEF BeforeDaily
<1> QED
  BY <1>4, <1>5, <1>7, <1>8 DEF SvInv

\* What a list of requests, or of databases, is asked for has a name of its own.
LEMMA ReportNames ==
    ASSUME SvWhere
    PROVE  Listings \cup {"usage", "top_queries", "hourly_usage", "daily_usage", "cost_estimate", "storage_account_usage", "databases"}
             \subseteq DOMAIN svReport
BY DEF SvWhere, NoServerlessReport, Listings

LEMMA PartFailsStep == ASSUME SvInv, NEW part, PartFails(part) PROVE SvInv'
<1>0. SvWhere /\ SvSessions /\ SvListed /\ SvCounted /\ SvCharged
  BY DEF SvInv
<1>1. /\ part \in {"databases", "usage", "top_queries", "daily_usage", "hourly_usage"} /\ part \in MasterStages
      /\ GoOn(part) /\ svErrors' = svErrors \cup {part} /\ UNCHANGED <<svReport, reading>> /\ svStage = part
  BY OrderIs DEF PartFails, MasterStages, GoOn
<1>2. Reading' = {}
  BY <1>0, <1>1, NothingRead
<1>3. SvWhere' /\ SvSessions' /\ svStage' = AfterMaster(part) /\ UNCHANGED <<endpoint, history>>
  <2>1. DOMAIN reading' \subseteq DOMAIN endpoint.objects /\ DOMAIN svReport' = DOMAIN svReport
    BY <1>0, <1>1 DEF SvSessions
  <2> QED
    BY <1>0, <1>1, <1>2, <2>1, PartOver
<1>4. SvListed'
  <2>1. svStage' \notin {"start", "raised", "databases"} /\ "databases" \notin svErrors' => svReport.databases = DOMAIN endpoint.objects
    BY <1>0, <1>1, <1>3 DEF SvListed, AfterMaster
  <2> QED
    BY <1>0, <1>1, <1>3, <2>1 DEF SvListed
<1>5. SvCounted'
  <2>1. CASE part \in {"databases", "usage", "top_queries"}
    BY <1>0, <1>1, <1>3, <2>1, CountKept DEF AfterMaster, BeforeHourly, BeforeDaily, BeforeTop, Listings
  <2>2. CASE part = "daily_usage"
    BY <1>0, <1>1, <1>3, <2>2 DEF SvCounted, AfterMaster, BeforeHourly, BeforeDaily, BeforeTop, Listings
  <2>3. CASE part = "hourly_usage"
    <3>1. /\ ServerlessDaily(endpoint.held)' = ServerlessDaily(endpoint.held) /\ ServerlessDaily(history)' = ServerlessDaily(history)
          /\ svStage \notin BeforeDaily \cup {"raised"} /\ "hourly_usage" \in svErrors' /\ svStage' \notin BeforeHourly
      BY <1>1, <1>3, <2>3 DEF AfterMaster, BeforeHourly, BeforeDaily, BeforeTop, Listings
    <3>2. "daily_usage" \in svErrors' <=> "daily_usage" \in svErrors
      BY <1>1, <2>3
    <3> QED
      BY <1>0, <1>1, <1>3, <3>1, <3>2 DEF SvCounted, Between
  <2> QED
    BY <1>1, <2>1, <2>2, <2>3
<1>6. SvCharged'
  <2>1. CASE part # "daily_usage"
    BY <1>0, <1>1, <1>3, <2>1, ChargeKept DEF AfterMaster, BeforeDaily, BeforeTop, Listings
  <2>2. CASE part = "daily_usage"
    <3>1. svStage' = "hourly_usage" /\ "daily_usage" \in svErrors' /\ svReport.cost_estimate = Unmeasured /\ svStage # "done"
      BY <1>0, <1>1, <1>3, <2>2 DEF AfterMaster, SvCharged, BeforeDaily
    <3>2. svReport.storage_account_usage = {} /\ history' = history /\ svReport' = svReport
      BY <1>0, <1>1, <1>3, <3>1 DEF SvCharged
    <3> QED
      BY <1>0, <3>1, <3>2 DEF SvCharged, BeforeDaily, BeforeTop, Listings
  <2> QED
    BY <2>1, <2>2
<1> QED
  BY <1>3, <1>4, <1>5, <1>6 DEF SvInv

\* What reading a part of master changes.
LEMMA PartRead ==
    ASSUME SvInv, NEW part \in {"usage", "top_queries", "hourly_usage"}, NEW rows, ReadPart(part, rows)
    PROVE  /\ SvWhere' /\ SvSessions' /\ SvListed' /\ svStage = part /\ svStage' = AfterMaster(part)
           /\ UNCHANGED <<endpoint, history, svErrors>> /\ svReport'[part] = rows
           /\ \A x \in DOMAIN svReport : x # part => svReport'[x] = svReport[x]
<1>0. SvWhere /\ SvSessions /\ SvListed
  BY DEF SvInv
<1>1. /\ GoOn(part) /\ svReport' = [svReport EXCEPT ![part] = rows] /\ UNCHANGED <<svErrors, reading>> /\ part \in MasterStages
      /\ svStage = part
  BY DEF ReadPart, MasterStages, GoOn
<1>2. /\ svReport'[part] = rows /\ DOMAIN svReport' = DOMAIN svReport
      /\ \A x \in DOMAIN svReport : x # part => svReport'[x] = svReport[x]
  BY <1>0, <1>1, ReportNames
<1>3. Reading' = {}
  BY <1>0, <1>1, NothingRead
<1>4. SvWhere' /\ SvSessions' /\ svStage' = AfterMaster(part) /\ UNCHANGED <<endpoint, history>>
  <2>1. DOMAIN reading' \subseteq DOMAIN endpoint.objects
    BY <1>0, <1>1 DEF SvSessions
  <2> QED
    BY <1>0, <1>1, <1>2, <1>3, <2>1, PartOver
<1>5. SvListed'
  <2>1. svReport'.databases = svReport.databases /\ \A x \in Listings : svReport'[x] = svReport[x]
    BY <1>0, <1>2, ReportNames DEF Listings
  <2>2. svStage \notin {"start", "raised", "databases"}
    BY <1>1
  <2> QED
    BY <1>0, <1>1, <1>4, <2>1, <2>2 DEF SvListed
<1> QED
  BY <1>1, <1>2, <1>4, <1>5

LEMMA ReadUsageStep == ASSUME SvInv, ReadUsage PROVE SvInv'
<1>0. SvWhere /\ SvCounted /\ SvCharged
  BY DEF SvInv
<1>1. /\ SvWhere' /\ SvSessions' /\ SvListed' /\ svStage = "usage" /\ svStage' = "top_queries"
      /\ UNCHANGED <<endpoint, history, svErrors>>
      /\ \A x \in DOMAIN svReport : x # "usage" => svReport'[x] = svReport[x]
  BY PartRead DEF ReadUsage, AfterMaster
<1>2. SvCounted'
  BY <1>0, <1>1, CountKept, ReportNames DEF BeforeHourly, BeforeDaily, BeforeTop
<1>3. SvCharged'
  BY <1>0, <1>1, ChargeKept, ReportNames DEF BeforeDaily, BeforeTop
<1> QED
  BY <1>1, <1>2, <1>3 DEF SvInv

LEMMA ReadTopQueriesStep == ASSUME SvInv, ReadTopQueries PROVE SvInv'
<1>0. SvWhere /\ SvCounted /\ SvCharged
  BY DEF SvInv
<1>1. PICK top \in TopQueries(history) : ReadPart("top_queries", top)
  BY DEF ReadTopQueries
<1>2. /\ SvWhere' /\ SvSessions' /\ SvListed' /\ svStage = "top_queries" /\ svStage' = "daily_usage"
      /\ UNCHANGED <<endpoint, history, svErrors>> /\ svReport'.top_queries = top
      /\ \A x \in DOMAIN svReport : x # "top_queries" => svReport'[x] = svReport[x]
  BY <1>1, PartRead DEF AfterMaster
<1>3. SvCounted'
  BY <1>0, <1>2, CountKept, ReportNames DEF BeforeHourly, BeforeDaily, BeforeTop
<1>4. \A q \in top : q \in history /\ q.age < TopDays * DayHours
  BY <1>1 DEF TopQueries
<1>5. svReport'.cost_estimate = Unmeasured /\ "daily_usage" \notin svErrors' /\ svReport'.storage_account_usage = {}
  BY <1>0, <1>2, ReportNames DEF SvCharged, BeforeDaily, BeforeTop
<1>6. SvCharged'
  BY <1>2, <1>4, <1>5 DEF SvCharged, BeforeDaily, BeforeTop
<1> QED
  BY <1>2, <1>3, <1>6 DEF SvInv

\* What was counted first is no more than what is counted now.
LEMMA CountsBetween ==
    ASSUME SvWhere, NEW hours, NEW bin
    PROVE  /\ RequestsOf(UsageBy(endpoint.held, hours, bin)) <= RequestsOf(UsageBy(history, hours, bin))
           /\ RequestsOf(UsageBy(history, hours, bin)) \in Nat
<1>1. endpoint.held \subseteq history /\ IsFiniteSet(history) /\ \A q \in history : q.mb \in Int
  BY EndpointFacts DEF SvWhere
<1> QED
  BY <1>1, CompletedGrow

LEMMA ReadHourlyUsageStep == ASSUME SvInv, ReadHourlyUsage PROVE SvInv'
<1>0. SvWhere /\ SvCounted /\ SvCharged
  BY DEF SvInv
<1>1. /\ SvWhere' /\ SvSessions' /\ SvListed' /\ svStage = "hourly_usage" /\ svStage' = "storage_account_usage"
      /\ UNCHANGED <<endpoint, history, svErrors>> /\ svReport'.hourly_usage = ServerlessHourly(history)
      /\ \A x \in DOMAIN svReport : x # "hourly_usage" => svReport'[x] = svReport[x]
  BY PartRead DEF ReadHourlyUsage, AfterMaster
<1>2. SvCharged'
  BY <1>0, <1>1, ChargeKept, ReportNames DEF BeforeDaily, BeforeTop, Listings
<1>3. Between(svReport'.hourly_usage, ServerlessHourly(endpoint.held), ServerlessHourly(history))
  <2>1. /\ RequestsOf(ServerlessHourly(endpoint.held)) <= RequestsOf(ServerlessHourly(history))
        /\ RequestsOf(ServerlessHourly(history)) \in Nat
    BY <1>0, CountsBetween DEF ServerlessHourly
  <2> QED
    BY <1>1, <2>1 DEF Between
<1>4. /\ ServerlessHourly(endpoint.held)' = ServerlessHourly(endpoint.held) /\ ServerlessHourly(history)' = ServerlessHourly(history)
      /\ ServerlessDaily(endpoint.held)' = ServerlessDaily(endpoint.held) /\ ServerlessDaily(history)' = ServerlessDaily(history)
      /\ svReport'.daily_usage = svReport.daily_usage
  BY <1>0, <1>1, ReportNames
<1>5. svStage' \notin BeforeHourly /\ svStage \notin BeforeDaily \cup {"raised"}
  BY <1>1 DEF BeforeHourly, BeforeDaily, BeforeTop, Listings
<1>6. SvCounted'
  BY <1>0, <1>1, <1>3, <1>4, <1>5 DEF SvCounted, Between
<1> QED
  BY <1>1, <1>2, <1>6 DEF SvInv

LEMMA TimesMore == ASSUME NEW p \in Nat, NEW a \in Int, NEW b \in Int, a <= b PROVE p * a <= p * b
<1>1. b - a \in Nat
  OBVIOUS
<1>2. p * (b - a) \in Nat
  BY <1>1
<1>3. p * (b - a) = p * b - p * a
  OBVIOUS
<1> QED
  BY <1>2, <1>3

\* The estimate of the bill covers what the top queries read.
LEMMA EstimateCovers ==
    ASSUME SvWhere, SvCharged, endpoint.price \in Nat
    PROVE  /\ EstimateCost(ServerlessDaily(history), endpoint.price) \in Nat
           /\ EstimateCost(ServerlessDaily(history), endpoint.price) >= endpoint.price * Added(MbOf(CompletedTop))
<1> DEFINE hours == DailyDays * DayHours
           all == CompletedIn(history, hours)
<1>1. IsFiniteSet(history) /\ \A q \in history : q.mb \in Int /\ q.age \in Nat
  BY EndpointFacts
<1>2. Added([d \in ServerlessDaily(history) |-> d.mb]) = Added(MbOf(all)) /\ IsFiniteSet(all)
  BY <1>1, UsageCounts DEF ServerlessDaily
<1>3. EstimateCost(ServerlessDaily(history), endpoint.price) = endpoint.price * Added(MbOf(all))
  BY <1>2, Zenon DEF EstimateCost
<1>4. TopDays * DayHours <= hours /\ TopDays * DayHours \in Int /\ hours \in Int
  <2>1. TopDays \in Nat /\ DailyDays \in Nat /\ DayHours \in Nat /\ TopDays <= DailyDays
    BY ServerlessAssumption
  <2>2. DayHours * TopDays <= DayHours * DailyDays
    BY <2>1, TimesMore
  <2> QED
    BY <2>1, <2>2
<1> HIDE DEF hours
<1>5. CompletedTop \subseteq all
  BY <1>1, <1>4 DEF CompletedTop, CompletedIn, SvCharged
<1>6. all \subseteq history
  BY DEF CompletedIn
<1> HIDE DEF all
<1>7. /\ DOMAIN MbOf(all) = all /\ \A q \in all : MbOf(all)[q] \in Nat
      /\ DOMAIN MbOf(CompletedTop) = CompletedTop /\ \A q \in CompletedTop : MbOf(CompletedTop)[q] = MbOf(all)[q]
      /\ IsFiniteSet(CompletedTop)
  BY <1>1, <1>2, <1>5, <1>6, MbNat, FS_Subset DEF MbOf
<1>8. Added(MbOf(all)) = Total(MbOf(all), all) /\ Added(MbOf(CompletedTop)) = Total(MbOf(CompletedTop), CompletedTop)
  BY <1>7, AddedIs
<1>9. Total(MbOf(CompletedTop), CompletedTop) = Total(MbOf(all), CompletedTop)
  BY <1>7, TotalSame
<1>10. Total(MbOf(all), CompletedTop) <= Total(MbOf(all), all)
  BY <1>2, <1>5, <1>7, TotalPart
<1>11. Total(MbOf(all), all) \in Nat
  BY <1>2, <1>7, TotalNat
<1>12. Total(MbOf(all), CompletedTop) \in Nat
  BY <1>5, <1>7, TotalNat
<1>13. endpoint.price * Total(MbOf(all), CompletedTop) <= endpoint.price * Total(MbOf(all), all)
  BY <1>10, <1>11, <1>12, TimesMore
<1>14. endpoint.price * Total(MbOf(all), all) \in Nat
  BY <1>11
<1>15. endpoint.price * Total(MbOf(all), CompletedTop) \in Nat
  BY <1>12
<1> QED
  BY <1>3, <1>8, <1>9, <1>13, <1>14, <1>15

LEMMA ReadDailyUsageStep == ASSUME SvInv, ReadDailyUsage PROVE SvInv'
<1>0. SvWhere /\ SvSessions /\ SvListed /\ SvCounted /\ SvCharged
  BY DEF SvInv
<1>1. GoOn("daily_usage") /\ svStage = "daily_usage" /\ UNCHANGED reading
  BY DEF ReadDailyUsage, GoOn
<1>2. /\ DOMAIN svReport' = DOMAIN svReport /\ svReport'.daily_usage = ServerlessDaily(history)
      /\ \A x \in DOMAIN svReport : x \notin {"daily_usage", "cost_estimate"} => svReport'[x] = svReport[x]
      /\ IF endpoint.price = Unmeasured
         THEN svReport'.cost_estimate = svReport.cost_estimate /\ svErrors' = svErrors \cup {"daily_usage"}
         ELSE svReport'.cost_estimate = EstimateCost(ServerlessDaily(history), endpoint.price) /\ svErrors' = svErrors
  <2> DEFINE daily == ServerlessDaily(history)
             cost == EstimateCost(ServerlessDaily(history), endpoint.price)
  <2>1. IF endpoint.price = Unmeasured
        THEN svReport' = [svReport EXCEPT !.daily_usage = daily] /\ svErrors' = svErrors \cup {"daily_usage"}
        ELSE svReport' = [svReport EXCEPT !.daily_usage = daily, !.cost_estimate = cost] /\ svErrors' = svErrors
    BY DEF ReadDailyUsage
  <2>2. "daily_usage" \in DOMAIN svReport /\ "cost_estimate" \in DOMAIN svReport
    BY <1>0, ReportNames
  <2> HIDE DEF daily, cost
  <2>3. CASE endpoint.price = Unmeasured
    <3>1. svReport' = [svReport EXCEPT !.daily_usage = daily] /\ svErrors' = svErrors \cup {"daily_usage"}
      BY <2>1, <2>3
    <3>2. /\ DOMAIN svReport' = DOMAIN svReport /\ svReport'.daily_usage = daily /\ svReport'.cost_estimate = svReport.cost_estimate
          /\ \A x \in DOMAIN svReport : x \notin {"daily_usage", "cost_estimate"} => svReport'[x] = svReport[x]
      BY <2>2, <3>1
    <3> QED
      BY <2>3, <3>1, <3>2 DEF daily
  <2>4. CASE endpoint.price # Unmeasured
    <3>1. svReport' = [svReport EXCEPT !.daily_usage = daily, !.cost_estimate = cost] /\ svErrors' = svErrors
      BY <2>1, <2>4
    <3>2. /\ DOMAIN svReport' = DOMAIN svReport /\ svReport'.daily_usage = daily /\ svReport'.cost_estimate = cost
          /\ \A x \in DOMAIN svReport : x \notin {"daily_usage", "cost_estimate"} => svReport'[x] = svReport[x]
      BY <2>2, <3>1
    <3> QED
      BY <2>4, <3>1, <3>2 DEF daily, cost
  <2> QED
    BY <2>3, <2>4
<1>3. Reading' = {}
  BY <1>0, <1>1, NothingRead DEF MasterStages
<1>4. SvWhere' /\ SvSessions' /\ svStage' = "hourly_usage" /\ UNCHANGED <<endpoint, history>>
  <2>1. DOMAIN reading' \subseteq DOMAIN endpoint.objects
    BY <1>0, <1>1 DEF SvSessions
  <2> QED
    BY <1>0, <1>1, <1>2, <1>3, <2>1, PartOver DEF MasterStages, AfterMaster
<1>5. SvListed'
  <2>1. svReport'.databases = svReport.databases /\ \A x \in Listings : svReport'[x] = svReport[x]
    BY <1>0, <1>2, ReportNames DEF Listings
  <2>2. svErrors \subseteq svErrors'
    BY <1>2
  <2> QED
    BY <1>0, <1>1, <1>4, <2>1, <2>2 DEF SvListed
<1>6. SvCounted'
  <2>1. Between(svReport'.daily_usage, ServerlessDaily(endpoint.held), ServerlessDaily(history))
    <3>1. /\ RequestsOf(ServerlessDaily(endpoint.held)) <= RequestsOf(ServerlessDaily(history))
          /\ RequestsOf(ServerlessDaily(history)) \in Nat
      BY <1>0, CountsBetween DEF ServerlessDaily
    <3> QED
      BY <1>2, <3>1 DEF Between
  <2>2. ServerlessDaily(endpoint.held)' = ServerlessDaily(endpoint.held) /\ ServerlessDaily(history)' = ServerlessDaily(history)
    BY <1>4
  <2>3. "hourly_usage" \notin svErrors'
    BY <1>0, <1>1, <1>2 DEF SvCounted, BeforeHourly, BeforeDaily
  <2> QED
    BY <1>4, <2>1, <2>2, <2>3 DEF SvCounted, Between, BeforeHourly
<1>7. SvCharged'
  <2>0. /\ svReport'.top_queries = svReport.top_queries /\ svReport'.storage_account_usage = {} /\ svReport.cost_estimate = Unmeasured
        /\ "daily_usage" \notin svErrors
    BY <1>0, <1>1, <1>2, ReportNames DEF SvCharged, BeforeDaily
  <2>1. Added(MbOf(CompletedTop))' = Added(MbOf(CompletedTop))
    BY <2>0 DEF CompletedTop
  <2>2. \A q \in svReport'.top_queries : q \in history' /\ q.age < TopDays * DayHours
    BY <1>0, <1>4, <2>0 DEF SvCharged
  <2>3. CASE endpoint.price = Unmeasured
    <3>1. "daily_usage" \in svErrors' /\ svReport'.cost_estimate = Unmeasured
      BY <1>2, <2>0, <2>3
    <3> QED
      BY <1>4, <2>0, <2>2, <3>1 DEF SvCharged, BeforeDaily, BeforeTop, Listings
  <2>4. CASE endpoint.price # Unmeasured
    <3>1. endpoint.price \in Nat
      BY <1>0, <2>4, EndpointFacts
    <3>2. /\ "daily_usage" \notin svErrors' /\ svReport'.cost_estimate \in Nat
          /\ svReport'.cost_estimate >= endpoint.price * Added(MbOf(CompletedTop))
      BY <1>0, <1>2, <2>0, <2>4, <3>1, EstimateCovers
    <3> QED
      BY <1>4, <2>0, <2>1, <2>2, <3>2 DEF SvCharged, BeforeDaily, BeforeTop, Listings
  <2> QED
    BY <2>3, <2>4
<1> QED
  BY <1>4, <1>5, <1>6, <1>7 DEF SvInv

-----------------------------------------------------------------------------
(* The databases.                                                          *)

LEMMA ReadingFinite == ASSUME SvWhere, SvSessions PROVE IsFiniteSet(DOMAIN reading) /\ IsFiniteSet(Reading) /\ Cardinality(Reading) \in Nat
<1>1. IsFiniteSet(DOMAIN reading)
  BY EndpointFacts, FS_Subset DEF SvSessions
<1>2. Reading \subseteq DOMAIN reading
  BY DEF Reading
<1> QED
  BY <1>1, <1>2, FS_Subset, FS_CardinalityType

\* A step of a worker changes nothing else.
LEMMA WorkerKeeps ==
    ASSUME SvInv, UNCHANGED <<endpoint, history, svReport, svErrors, svStage>>, DOMAIN reading' = DOMAIN reading
    PROVE  SvWhere' /\ SvListed' /\ SvCounted' /\ SvCharged'
<1>0. SvWhere /\ SvListed /\ SvCounted /\ SvCharged
  BY DEF SvInv
<1>1. SvWhere' /\ SvListed'
  BY <1>0 DEF SvWhere, SvListed
<1>2. SvCounted'
  BY <1>0, CountKept
<1>3. SvCharged'
  BY <1>0, ChargeKept
<1> QED
  BY <1>1, <1>2, <1>3

LEMMA TakeDatabaseStep == ASSUME SvInv, NEW d \in DOMAIN reading, TakeDatabase(d) PROVE SvInv'
<1>0. SvWhere /\ SvSessions
  BY DEF SvInv
<1>1. /\ svStage \in Listings /\ reading[d] = "queued" /\ UNCHANGED <<endpoint, history, svReport, svErrors, svStage>>
      /\ reading' = [reading EXCEPT ![d] = "open"] /\ connections' = connections \cup {d}
      /\ Cardinality(Reading) < Min({Cardinality(DOMAIN reading), Workers})
  BY OrderIs DEF TakeDatabase, Workers
<1>2. DOMAIN reading' = DOMAIN reading /\ Reading' = Reading \cup {d} /\ d \notin Reading
  <2>1. DOMAIN reading' = DOMAIN reading /\ reading'[d] = "open" /\ \A e \in DOMAIN reading : e # d => reading'[e] = reading[e]
    BY <1>1
  <2> QED
    BY <1>1, <2>1 DEF Reading
<1>3. IsFiniteSet(DOMAIN reading) /\ IsFiniteSet(Reading) /\ Cardinality(Reading) \in Nat
  BY <1>0, ReadingFinite
<1>4. Cardinality(DOMAIN reading) \in Nat
  BY <1>3, FS_CardinalityType
<1>5. Cardinality(Reading) < Workers
  BY <1>1, <1>3, <1>4, WorkersFacts
<1>6. Cardinality(Reading') = Cardinality(Reading) + 1
  BY <1>2, <1>3, FS_AddElement
<1>7. d # "master"
  BY <1>0, EndpointFacts DEF SvSessions
<1>8. SvSessions'
  <2>1. connections' \ {"master"} = Reading'
    BY <1>0, <1>1, <1>2, <1>7 DEF SvSessions
  <2>2. Cardinality(Reading') <= Workers
    BY <1>3, <1>5, <1>6, WorkersFacts
  <2>3. svStage' \in Listings /\ svStage' \notin {"start", "raised", "done", "storage_account_usage"}
    BY <1>1 DEF Listings
  <2>4. DOMAIN reading' \subseteq DOMAIN endpoint'.objects
    BY <1>0, <1>1, <1>2 DEF SvSessions
  <2> QED
    BY <2>1, <2>2, <2>3, <2>4 DEF SvSessions, Workers
<1> QED
  BY <1>1, <1>2, <1>8, WorkerKeeps DEF SvInv

LEMMA CloseDatabaseStep == ASSUME SvInv, NEW d \in DOMAIN reading, ListDatabase(d) \/ DatabaseFails(d) PROVE SvInv'
<1>0. SvWhere /\ SvSessions
  BY DEF SvInv
<1>1. PICK how \in {"listed", "failed"} :
        /\ reading[d] = "open" /\ UNCHANGED <<endpoint, history, svReport, svErrors, svStage>>
        /\ reading' = [reading EXCEPT ![d] = how] /\ connections' = connections \ {d}
  BY DEF ListDatabase, DatabaseFails, CloseSession
<1>2. DOMAIN reading' = DOMAIN reading /\ Reading' = Reading \ {d} /\ d \in Reading
  <2>1. DOMAIN reading' = DOMAIN reading /\ reading'[d] = how /\ \A e \in DOMAIN reading : e # d => reading'[e] = reading[e]
    BY <1>1
  <2> QED
    BY <1>1, <2>1 DEF Reading
<1>3. IsFiniteSet(Reading) /\ Cardinality(Reading) \in Nat
  BY <1>0, ReadingFinite
<1>4. Cardinality(Reading') <= Cardinality(Reading) /\ Cardinality(Reading') \in Nat
  <2>1. Reading' \subseteq Reading
    BY <1>2
  <2>2. IsFiniteSet(Reading') /\ Cardinality(Reading') <= Cardinality(Reading)
    BY <1>3, <2>1, FS_Subset
  <2> QED
    BY <2>2, FS_CardinalityType
<1>5. SvSessions'
  <2>1. connections' \ {"master"} = Reading'
    BY <1>0, <1>1, <1>2 DEF SvSessions
  <2>2. Cardinality(Reading') <= Workers
    BY <1>0, <1>3, <1>4, WorkersFacts DEF SvSessions
  <2>3. svStage' \in Listings /\ svStage' \notin {"start", "raised", "done", "storage_account_usage"}
    BY <1>0, <1>1, <1>2 DEF SvSessions, Listings
  <2>4. DOMAIN reading' \subseteq DOMAIN endpoint'.objects
    BY <1>0, <1>1, <1>2 DEF SvSessions
  <2> QED
    BY <2>1, <2>2, <2>3, <2>4 DEF SvSessions, Workers
<1> QED
  BY <1>1, <1>2, <1>5, WorkerKeeps DEF SvInv

LEMMA EndListingStep == ASSUME SvInv, EndListing PROVE SvInv'
<1>0. SvWhere /\ SvSessions /\ SvListed /\ SvCounted /\ SvCharged
  BY DEF SvInv
<1> DEFINE listed == {d \in DOMAIN reading : reading[d] = "listed"}
           rows == UNION {{<<d, o>> : o \in endpoint.objects[d][svStage]} : d \in listed}
<1>1. /\ svStage \in Listings /\ UNCHANGED <<endpoint, history, connections, svErrors>>
      /\ svReport' = [svReport EXCEPT ![svStage] = rows] /\ svStage' = PartAfter(svStage)
      /\ reading' = [d \in DOMAIN reading |-> "queued"] /\ \A d \in DOMAIN reading : reading[d] \in {"listed", "failed"}
  BY OrderIs DEF EndListing, Queued
<1>2. svStage' \in (Listings \cup {"usage"})
  BY <1>1, PartAfterIs DEF Listings
<1>3. \A row \in rows : row[1] \in DOMAIN reading /\ row[2] \in endpoint.objects[row[1]][svStage]
  OBVIOUS
<1> HIDE DEF rows
<1>4. /\ DOMAIN svReport' = DOMAIN svReport /\ svReport'[svStage] = rows
      /\ \A x \in DOMAIN svReport : x # svStage => svReport'[x] = svReport[x]
  BY <1>0, <1>1, ReportNames
<1>5. Reading = {} /\ Reading' = {} /\ DOMAIN reading' = DOMAIN reading
  BY <1>1 DEF Reading
<1>6. SvWhere'
  BY <1>0, <1>1, <1>2, <1>4 DEF SvWhere, SvStages, BeforeHourly, BeforeDaily, BeforeTop, Listings
<1>7. SvSessions'
  <2>1. svStage' \notin {"start", "raised", "done", "storage_account_usage"}
    BY <1>2 DEF Listings
  <2>2. Cardinality(Reading') <= Workers
    BY <1>0, <1>5 DEF SvSessions
  <2> QED
    BY <1>0, <1>1, <1>5, <2>1, <2>2 DEF SvSessions, Workers
<1>8. SvListed'
  <2>1. svReport'.databases = svReport.databases
    BY <1>0, <1>1, <1>4, ReportNames DEF Listings
  <2>2. ASSUME NEW part \in Listings, NEW row \in svReport'[part]
        PROVE  row[1] \in DOMAIN reading /\ row[2] \in endpoint.objects[row[1]][part]
    <3>1. CASE part = svStage
      BY <1>3, <1>4, <2>2, <3>1
    <3>2. CASE part # svStage
      <4>1. svReport'[part] = svReport[part]
        BY <1>0, <1>4, <3>2, ReportNames
      <4> QED
        BY <1>0, <2>2, <4>1 DEF SvListed
    <3> QED
      BY <3>1, <3>2
  <2>3. svStage \notin {"start", "raised", "databases"}
    BY <1>1 DEF Listings
  <2> QED
    BY <1>0, <1>1, <1>5, <2>1, <2>2, <2>3 DEF SvListed
<1>9. /\ svStage \in BeforeTop /\ svStage' \in BeforeTop /\ svStage # "done" /\ svStage' # "done"
      /\ \A x \in {"top_queries", "hourly_usage", "daily_usage", "cost_estimate", "storage_account_usage"} : svReport'[x] = svReport[x]
  BY <1>0, <1>1, <1>2, <1>4, ReportNames DEF BeforeTop, Listings
<1>10. SvCounted'
  BY <1>0, <1>1, <1>9, CountKept DEF BeforeHourly, BeforeDaily
<1>11. SvCharged'
  BY <1>0, <1>1, <1>9, ChargeKept DEF BeforeDaily
<1> QED
  BY <1>6, <1>7, <1>8, <1>10, <1>11 DEF SvInv

-----------------------------------------------------------------------------
(* What is charged, and what goes on meanwhile.                            *)

LEMMA AttributeStorageStep == ASSUME SvInv, AttributeStorage PROVE SvInv'
<1>0. SvWhere /\ SvSessions /\ SvListed /\ SvCounted /\ SvCharged
  BY DEF SvInv
<1>1. GoOn("storage_account_usage") /\ svStage = "storage_account_usage" /\ UNCHANGED reading
  BY DEF AttributeStorage, GoOn
<1>2. /\ DOMAIN svReport' = DOMAIN svReport /\ svErrors' \in {svErrors, svErrors \cup {"storage_account_usage"}}
      /\ \A x \in DOMAIN svReport : x # "storage_account_usage" => svReport'[x] = svReport[x]
      /\ svReport'.storage_account_usage \in {svReport.storage_account_usage, Attribute(svReport.top_queries, endpoint.price)}
  <2>1. "storage_account_usage" \in DOMAIN svReport
    BY <1>0, ReportNames
  <2> DEFINE rows == Attribute(svReport.top_queries, endpoint.price)
  <2>2. \/ svErrors' = svErrors \cup {"storage_account_usage"} /\ svReport' = svReport
        \/ svErrors' = svErrors /\ svReport' = [svReport EXCEPT !.storage_account_usage = rows]
    BY DEF AttributeStorage
  <2> HIDE DEF rows
  <2>3. /\ DOMAIN svReport' = DOMAIN svReport /\ svErrors' \in {svErrors, svErrors \cup {"storage_account_usage"}}
        /\ \A x \in DOMAIN svReport : x # "storage_account_usage" => svReport'[x] = svReport[x]
        /\ svReport'.storage_account_usage \in {svReport.storage_account_usage, rows}
    BY <2>1, <2>2
  <2> QED
    BY <2>3 DEF rows
<1>3. Reading' = {}
  BY <1>0, <1>1, NothingRead DEF MasterStages
<1>4. SvWhere' /\ SvSessions' /\ svStage' = "done" /\ UNCHANGED <<endpoint, history>>
  <2>1. DOMAIN reading' \subseteq DOMAIN endpoint.objects
    BY <1>0, <1>1 DEF SvSessions
  <2> QED
    BY <1>0, <1>1, <1>2, <1>3, <2>1, PartOver DEF MasterStages, AfterMaster
<1>5. /\ svReport'.databases = svReport.databases /\ \A x \in Listings : svReport'[x] = svReport[x]
      /\ \A x \in {"top_queries", "hourly_usage", "daily_usage", "cost_estimate"} : svReport'[x] = svReport[x]
  BY <1>0, <1>2, ReportNames DEF Listings
<1>6. SvListed'
  BY <1>0, <1>1, <1>2, <1>4, <1>5 DEF SvListed
<1>7. SvCounted'
  BY <1>0, <1>1, <1>2, <1>4, <1>5, CountKept DEF BeforeHourly, BeforeDaily, BeforeTop, Listings
<1>8. SvCharged'
  <2>1. svReport.storage_account_usage = {}
    BY <1>0, <1>1 DEF SvCharged
  <2>2. Attribute(svReport.top_queries, endpoint.price)' = Attribute(svReport.top_queries, endpoint.price)
    BY <1>4, <1>5 DEF Attribute
  <2>3. Added(MbOf(CompletedTop))' = Added(MbOf(CompletedTop))
    BY <1>5 DEF CompletedTop
  <2>4. svStage \notin BeforeDaily \cup {"raised"} /\ svStage' \notin BeforeDaily \cup {"raised"}
    BY <1>1, <1>4 DEF BeforeDaily, BeforeTop, Listings
  <2>5. /\ \A q \in svReport'.top_queries : q \in history' /\ q.age < TopDays * DayHours
        /\ "daily_usage" \in svErrors' <=> "daily_usage" \in svErrors
    BY <1>0, <1>2, <1>4, <1>5 DEF SvCharged
  <2>6. /\ "daily_usage" \in svErrors => svReport.cost_estimate = Unmeasured
        /\ "daily_usage" \notin svErrors =>
             svReport.cost_estimate \in Nat /\ svReport.cost_estimate >= endpoint.price * Added(MbOf(CompletedTop))
    BY <1>0, <2>4 DEF SvCharged
  <2>7. svReport'.cost_estimate = svReport.cost_estimate /\ endpoint' = endpoint
    BY <1>4, <1>5
  <2>8. svReport'.storage_account_usage # {} =>
          svReport'.storage_account_usage = Attribute(svReport.top_queries, endpoint.price)'
    BY <1>2, <2>1, <2>2
  <2> QED
    BY <1>4, <2>3, <2>4, <2>5, <2>6, <2>7, <2>8 DEF SvCharged
<1> QED
  BY <1>4, <1>6, <1>7, <1>8 DEF SvInv

LEMMA RequestEndsStep == ASSUME SvInv, RequestEnds PROVE SvInv'
<1>0. SvWhere /\ SvSessions /\ SvListed /\ SvCounted /\ SvCharged
  BY DEF SvInv
<1>1. PICK q \in endpoint.running \ history : history' = history \cup {q}
  BY DEF RequestEnds
<1>2. UNCHANGED <<endpoint, connections, reading, svReport, svErrors, svStage>>
  BY DEF RequestEnds
<1>3. SvWhere'
  BY <1>0, <1>1, <1>2 DEF SvWhere
<1>4. SvSessions' /\ SvListed'
  BY <1>0, <1>2 DEF SvSessions, SvListed, Reading, Workers
<1>5. ASSUME NEW hours, NEW bin
      PROVE  /\ RequestsOf(UsageBy(history, hours, bin)) <= RequestsOf(UsageBy(history', hours, bin))
             /\ RequestsOf(UsageBy(endpoint.held, hours, bin)) \in Nat /\ RequestsOf(UsageBy(history, hours, bin)) \in Nat
             /\ RequestsOf(UsageBy(history', hours, bin)) \in Nat
  <2>1. IsFiniteSet(history) /\ (\A r \in history : r.mb \in Int) /\ q.mb \in Int /\ endpoint.held \subseteq history
    BY <1>0, EndpointFacts DEF SvWhere
  <2>2. IsFiniteSet(history \cup {q}) /\ \A r \in history \cup {q} : r.mb \in Int
    BY <2>1, FS_AddElement
  <2>3. history \subseteq history \cup {q}
    OBVIOUS
  <2>4. /\ RequestsOf(UsageBy(history, hours, bin)) <= RequestsOf(UsageBy(history \cup {q}, hours, bin))
        /\ RequestsOf(UsageBy(history, hours, bin)) \in Nat /\ RequestsOf(UsageBy(history \cup {q}, hours, bin)) \in Nat
    BY <2>2, <2>3, CompletedGrow
  <2>5. RequestsOf(UsageBy(endpoint.held, hours, bin)) \in Nat
    BY <2>1, CompletedGrow
  <2> QED
    BY <1>1, <2>4, <2>5
<1>6. SvCounted'
  <2>1. /\ RequestsOf(ServerlessHourly(history)) <= RequestsOf(ServerlessHourly(history)')
        /\ RequestsOf(ServerlessHourly(history)) \in Nat /\ RequestsOf(ServerlessHourly(history)') \in Nat
        /\ RequestsOf(ServerlessHourly(endpoint.held)) \in Nat
        /\ ServerlessHourly(endpoint.held)' = ServerlessHourly(endpoint.held)
    BY <1>2, <1>5 DEF ServerlessHourly
  <2>2. /\ RequestsOf(ServerlessDaily(history)) <= RequestsOf(ServerlessDaily(history)')
        /\ RequestsOf(ServerlessDaily(history)) \in Nat /\ RequestsOf(ServerlessDaily(history)') \in Nat
        /\ RequestsOf(ServerlessDaily(endpoint.held)) \in Nat
        /\ ServerlessDaily(endpoint.held)' = ServerlessDaily(endpoint.held)
    BY <1>2, <1>5 DEF ServerlessDaily
  <2>3. ASSUME NEW rows, Between(rows, ServerlessHourly(endpoint.held), ServerlessHourly(history))
        PROVE  Between(rows, ServerlessHourly(endpoint.held), ServerlessHourly(history)')
    BY <2>1, <2>3 DEF Between
  <2>4. ASSUME NEW rows, Between(rows, ServerlessDaily(endpoint.held), ServerlessDaily(history))
        PROVE  Between(rows, ServerlessDaily(endpoint.held), ServerlessDaily(history)')
    BY <2>2, <2>4 DEF Between
  <2>5. \A rows, first, now : Between(rows, first, now)' = Between(rows, first, now)
    BY DEF Between
  <2> QED
    BY <1>0, <1>2, <2>1, <2>2, <2>3, <2>4 DEF SvCounted
<1>7. SvCharged'
  <2>1. Added(MbOf(CompletedTop))' = Added(MbOf(CompletedTop))
    BY <1>2 DEF CompletedTop
  <2>2. Attribute(svReport.top_queries, endpoint.price)' = Attribute(svReport.top_queries, endpoint.price)
    BY <1>2 DEF Attribute
  <2>3. \A r \in svReport'.top_queries : r \in history' /\ r.age < TopDays * DayHours
    BY <1>0, <1>1, <1>2 DEF SvCharged
  <2> QED
    BY <1>0, <1>2, <2>1, <2>2, <2>3 DEF SvCharged
<1> QED
  BY <1>3, <1>4, <1>6, <1>7 DEF SvInv

-----------------------------------------------------------------------------
(* The analyzer of serverless pools as a whole.                            *)

LEMMA ServerlessBegins == ASSUME ServerlessInit PROVE SvInv
<1>1. /\ endpoint \in SvEndpoints /\ history = endpoint.held /\ connections = {} /\ reading = <<>>
      /\ svReport = NoServerlessReport /\ svErrors = {} /\ svStage = "start"
  BY DEF ServerlessInit
<1>2. DOMAIN reading = {} /\ Reading = {} /\ Cardinality({}) = 0
  BY <1>1, FS_EmptySet DEF Reading
<1>3. SvWhere
  BY <1>1 DEF SvWhere, SvStages, BeforeHourly, BeforeDaily, BeforeTop
<1>4. SvSessions
  BY <1>1, <1>2, WorkersFacts DEF SvSessions
<1>5. SvListed
  BY <1>1, <1>2 DEF SvListed, NoServerlessReport, Listings
<1>6. SvCounted
  BY <1>1 DEF SvCounted, BeforeHourly, BeforeDaily, BeforeTop
<1>7. SvCharged
  BY <1>1 DEF SvCharged, NoServerlessReport, BeforeDaily, BeforeTop
<1> QED
  BY <1>3, <1>4, <1>5, <1>6, <1>7 DEF SvInv

LEMMA ServerlessStep == ASSUME SvInv, ServerlessNext PROVE SvInv'
<1>1. CASE OpenMaster \/ OpenMasterFails
  BY <1>1, OpenMasterStep
<1>2. CASE ReadDatabases
  BY <1>2, ReadDatabasesStep
<1>3. CASE ReadUsage
  BY <1>3, ReadUsageStep
<1>4. CASE ReadTopQueries
  BY <1>4, ReadTopQueriesStep
<1>5. CASE ReadDailyUsage
  BY <1>5, ReadDailyUsageStep
<1>6. CASE ReadHourlyUsage
  BY <1>6, ReadHourlyUsageStep
<1>7. ASSUME NEW part \in Range(Order), PartFails(part) PROVE SvInv'
  BY <1>7, PartFailsStep
<1>8. ASSUME NEW d \in DOMAIN reading, TakeDatabase(d) PROVE SvInv'
  BY <1>8, TakeDatabaseStep
<1>9. ASSUME NEW d \in DOMAIN reading, ListDatabase(d) \/ DatabaseFails(d) PROVE SvInv'
  BY <1>9, CloseDatabaseStep
<1>10. CASE EndListing
  BY <1>10, EndListingStep
<1>11. CASE AttributeStorage
  BY <1>11, AttributeStorageStep
<1>12. CASE RequestEnds
  BY <1>12, RequestEndsStep
<1> QED
  BY <1>1, <1>2, <1>3, <1>4, <1>5, <1>6, <1>7, <1>8, <1>9, <1>10, <1>11, <1>12 DEF ServerlessNext

LEMMA ServerlessRests == ASSUME SvInv, UNCHANGED svVars PROVE SvInv'
<1>0. SvWhere /\ SvSessions /\ SvListed /\ SvCounted /\ SvCharged
  BY DEF SvInv
<1>1. UNCHANGED <<endpoint, history, connections, reading, svReport, svErrors, svStage>>
  BY DEF svVars
<1>2. SvWhere' /\ SvListed' /\ SvCounted' /\ SvCharged'
  BY <1>1, WorkerKeeps
<1>3. SvSessions'
  BY <1>0, <1>1 DEF SvSessions, Reading, Workers
<1> QED
  BY <1>2, <1>3 DEF SvInv

LEMMA ServerlessTold == ASSUME SvInv PROVE ServerlessTrue
<1>0. SvWhere /\ SvSessions /\ SvListed /\ SvCounted /\ SvCharged
  BY DEF SvInv
<1>1. SessionsClosed
  <2>1. connections \subseteq Reading \cup {"master"}
    BY <1>0 DEF SvSessions
  <2>2. IsFiniteSet(Reading) /\ Cardinality(Reading) \in Nat
    BY <1>0, ReadingFinite
  <2>3. IsFiniteSet(Reading \cup {"master"}) /\ Cardinality(Reading \cup {"master"}) <= Cardinality(Reading) + 1
    BY <2>2, FS_AddElement
  <2>4. Cardinality(connections) <= Cardinality(Reading \cup {"master"})
    BY <2>1, <2>3, FS_Subset
  <2>5. Cardinality(connections) \in Nat /\ Cardinality(Reading \cup {"master"}) \in Nat
    BY <2>1, <2>3, FS_Subset, FS_CardinalityType
  <2>6. Cardinality(connections) <= 1 + Workers
    BY <1>0, <2>2, <2>3, <2>4, <2>5, WorkersFacts DEF SvSessions
  <2> QED
    BY <1>0, <2>6 DEF SessionsClosed, SvSessions, Workers
<1>2. AttributedOnce
  <2> SUFFICES ASSUME svStage = "done"
               PROVE  LET top == svReport.top_queries
                          charged == svReport.storage_account_usage
                      IN /\ Added([a \in charged |-> a.queries]) <= Cardinality({q \in top : q.hosts # <<>>})
                         /\ Added([a \in charged |-> a.mb]) <= Added(MbOf(top))
                         /\ (charged # {} /\ "daily_usage" \notin svErrors) =>
                              svReport.cost_estimate >= endpoint.price * Added(MbOf({q \in top : q.status = "Completed"}))
    BY DEF AttributedOnce
  <2> DEFINE top == svReport.top_queries
             charged == svReport.storage_account_usage
             hosted == {q \in top : q.hosts # <<>>}
             queries == [a \in charged |-> a.queries]
             mbs == [a \in charged |-> a.mb]
  <2>1. top \subseteq history /\ IsFiniteSet(top) /\ \A q \in top : q.mb \in Int
    <3>1. top \subseteq history
      BY <1>0 DEF SvCharged
    <3> HIDE DEF top
    <3> QED
      BY <1>0, <3>1, EndpointFacts, FS_Subset
  <2>2. Added(queries) <= Cardinality(hosted) /\ Added(mbs) <= Added(MbOf(top))
    <3>1. CASE charged = {}
      <4>1. DOMAIN queries = {} /\ DOMAIN mbs = {}
        BY <3>1
      <4>2. hosted \subseteq top /\ DOMAIN MbOf(top) = top /\ \A q \in top : MbOf(top)[q] \in Nat
        BY <2>1, MbNat DEF MbOf
      <4> HIDE DEF queries, mbs, hosted, top
      <4>3. Added(queries) = 0 /\ Added(mbs) = 0
        BY <4>1, AddedIs, TotalEmpty
      <4>4. Cardinality(hosted) \in Nat
        BY <2>1, <4>2, FS_Subset, FS_CardinalityType
      <4>5. Added(MbOf(top)) = Total(MbOf(top), top) /\ Total(MbOf(top), top) \in Nat
        BY <2>1, <4>2, AddedIs, TotalNat
      <4> QED
        BY <4>3, <4>4, <4>5
    <3>2. CASE charged # {}
      <4>1. charged = Attribute(top, endpoint.price)
        BY <1>0, <3>2 DEF SvCharged
      <4>2. /\ Added([a \in Attribute(top, endpoint.price) |-> a.queries]) <= Cardinality({q \in top : q.hosts # <<>>})
            /\ Added([a \in Attribute(top, endpoint.price) |-> a.mb]) <= Added(MbOf(top))
        <5> HIDE DEF top
        <5> QED
          BY <2>1, ChargedOnce
      <4> QED
        BY <4>1, <4>2, Zenon
    <3> QED
      BY <3>1, <3>2
  <2>3. "daily_usage" \notin svErrors => svReport.cost_estimate >= endpoint.price * Added(MbOf({q \in top : q.status = "Completed"}))
    <3>1. svStage \notin BeforeDaily \cup {"raised"}
      BY DEF BeforeDaily, BeforeTop, Listings
    <3> QED
      BY <1>0, <3>1 DEF SvCharged, CompletedTop
  <2> QED
    BY <2>2, <2>3
<1>3. PartsAnswered
  <2> SUFFICES ASSUME svStage = "done"
               PROVE  /\ "databases" \notin svErrors => svReport.databases = DOMAIN endpoint.objects
                      /\ "daily_usage" \notin svErrors <=> svReport.cost_estimate # Unmeasured
                      /\ "hourly_usage" \notin svErrors =>
                           RequestsOf(svReport.hourly_usage)
                             \in RequestsOf(ServerlessHourly(endpoint.held))..RequestsOf(ServerlessHourly(history))
                      /\ "daily_usage" \notin svErrors =>
                           RequestsOf(svReport.daily_usage)
                             \in RequestsOf(ServerlessDaily(endpoint.held))..RequestsOf(ServerlessDaily(history))
                      /\ \A part \in Range(DatabaseListings) : \A row \in svReport[part] :
                           row[1] \in svReport.databases /\ row[2] \in endpoint.objects[row[1]][part]
    BY DEF PartsAnswered
  <2>1. svStage \notin BeforeHourly \cup {"raised"} /\ svStage \notin BeforeDaily \cup {"raised"} /\ svStage \notin {"start", "databases"}
    BY DEF BeforeHourly, BeforeDaily, BeforeTop, Listings
  <2>2. "daily_usage" \notin svErrors <=> svReport.cost_estimate # Unmeasured
    BY <1>0, <2>1 DEF SvCharged, Unmeasured
  <2>3. \A rows, first, now : Between(rows, first, now) => RequestsOf(rows) \in RequestsOf(first)..RequestsOf(now)
    BY DEF Between
  <2> QED
    BY <1>0, <2>1, <2>2, <2>3, OrderIs DEF SvListed, SvCounted
<1> QED
  BY <1>1, <1>2, <1>3 DEF ServerlessTrue

-----------------------------------------------------------------------------
(* Monitoring: what holds at every step. A metric a worker asks for no more  *)
(* is one the provider does not know, and took one request.                  *)

MonWhere ==
  /\ monScope \in MonScopes /\ monStage \in {"list", "fetch", "done"}
  /\ poolList \in {<<>>, ListedPools(monScope)}
  /\ monStage = "list" => poolList = <<>> /\ asking = <<>>
LeftOut(i) == MetricsOf(monScope) \ asking[i].names
AskingRow == [phase : {"queued", "asking", "got", "failed"}, names : SUBSET MetricsOf(monScope), requests : Nat]
AskingSound(i) ==
  /\ asking[i] \in AskingRow
  /\ asking[i].requests <= Cardinality(MetricsOf(monScope))
  /\ asking[i].phase \in {"queued", "asking"} => asking[i].requests = Cardinality(LeftOut(i))
  /\ LeftOut(i) \subseteq Listed(i).unknown
  /\ asking[i].phase = "got" => asking[i].names = Supported(i)
MonAsking == DOMAIN asking = DOMAIN poolList /\ \A i \in DOMAIN poolList : AskingSound(i)
MonReported ==
  /\ monStage # "done" => series = {} /\ dwuDays = {} /\ monErrors = {}
  /\ monStage = "done" /\ poolList # <<>> =>
       /\ series = SeriesAnswered /\ monErrors = NotMeasured /\ dwuDays = DeriveDwuDays(series, monScope.interval)
       /\ \A i \in DOMAIN poolList : asking[i].phase \in {"got", "failed"}
  /\ monStage = "done" /\ poolList = <<>> => series = {} /\ dwuDays = {}
MonInv == MonWhere /\ MonAsking /\ MonReported

\* The pools asked for are pools of the scope, of different names.
LEMMA ListedKnown ==
    ASSUME NEW s \in MonScopes, NEW list, list = ListedPools(s)
    PROVE  /\ list \in Seq(Range(s.pools)) /\ DOMAIN list = 1..Len(list) /\ Len(list) \in Nat
           /\ \A i, j \in DOMAIN list : list[i].name = list[j].name => i = j
<1> DEFINE A == Range(s.pools)
           K == {i \in DOMAIN s.pools : Answering(s, s.pools[i])}
<1>1. s.pools \in Seq(A) /\ \A i, j \in DOMAIN s.pools : s.pools[i].name = s.pools[j].name => i = j
  BY MonitoringAssumption, Zenon DEF PoolsKnown
<1>2. list \in Seq(A) /\ \A i, j \in DOMAIN list : list[i].name = list[j].name => i = j
  <2>1. CASE ~s.standalone
    <3>1. list = s.pools
      BY <2>1, Zenon DEF ListedPools
    <3> QED
      BY <1>1, <3>1
  <2>2. CASE s.standalone
    <3>1. list = Part(s.pools, K)
      BY <2>2, Zenon DEF ListedPools, StandalonePools, Part, Ascending
    <3>2. K \subseteq DOMAIN s.pools
      OBVIOUS
    <3> DEFINE m == Cardinality(K)
               turns == Ascending(K)
    <3> HIDE DEF A, K, m, turns
    <3>3. /\ m \in Nat /\ list \in Seq(A) /\ Len(list) = m
          /\ \A i \in 1..m : turns[i] \in K /\ list[i] = s.pools[turns[i]]
          /\ \A i, j \in 1..m : turns[i] = turns[j] => i = j
      BY <1>1, <3>1, <3>2, PartOf DEF m, turns
    <3>4. DOMAIN list = 1..m
      BY <3>3
    <3>5. ASSUME NEW i \in 1..m, NEW j \in 1..m, list[i].name = list[j].name
          PROVE  i = j
      <4>1. s.pools[turns[i]].name = s.pools[turns[j]].name /\ turns[i] \in DOMAIN s.pools /\ turns[j] \in DOMAIN s.pools
        BY <3>2, <3>3, <3>5
      <4>2. turns[i] = turns[j]
        BY <1>1, <4>1, Zenon
      <4> QED
        BY <3>3, <4>2
    <3> QED
      BY <3>3, <3>4, <3>5
  <2> QED
    BY <2>1, <2>2
<1> HIDE DEF A
<1>3. DOMAIN list = 1..Len(list) /\ Len(list) \in Nat
  BY <1>2
<1> QED
  BY <1>2, <1>3 DEF A

\* Few things are finitely many.
LEMMA ThreeFinite == ASSUME NEW a, NEW b, NEW c PROVE IsFiniteSet({a, b, c})
<1>1. IsFiniteSet({a}) /\ IsFiniteSet({b}) /\ IsFiniteSet({c})
  BY FS_Singleton
<1>2. IsFiniteSet({a} \cup {b})
  BY <1>1, FS_Union
<1>3. IsFiniteSet(({a} \cup {b}) \cup {c})
  BY <1>1, <1>2, FS_Union
<1>4. {a, b, c} = ({a} \cup {b}) \cup {c}
  OBVIOUS
<1> QED
  BY <1>3, <1>4
LEMMA NineFinite ==
    ASSUME NEW a, NEW b, NEW c, NEW d, NEW e, NEW f, NEW g, NEW h, NEW k
    PROVE  IsFiniteSet({a, b, c, d, e, f, g, h, k})
<1>1. IsFiniteSet({a, b, c} \cup {d, e, f})
  BY ThreeFinite, FS_Union
<1>2. IsFiniteSet(({a, b, c} \cup {d, e, f}) \cup {g, h, k})
  BY <1>1, ThreeFinite, FS_Union
<1>3. {a, b, c, d, e, f, g, h, k} = ({a, b, c} \cup {d, e, f}) \cup {g, h, k}
  OBVIOUS
<1> QED
  BY <1>2, <1>3

\* There are as many metrics as the provider may know.
LEMMA MetricsCount ==
    ASSUME NEW s
    PROVE  IsFiniteSet(MetricsOf(s)) /\ Cardinality(MetricsOf(s)) \in Nat
<1>1. IsFiniteSet(WorkspaceMetrics)
  BY NineFinite, Zenon DEF WorkspaceMetrics
<1>2. DOMAIN WorkspaceName = {"dwu_limit", "dwu_used", "dwu_consumption_percent", "active_queries", "queued_queries",
                              "connection_successful", "blocked_by_firewall", "memory_usage_percent", "cpu_percent"}
  BY DEF WorkspaceName
<1>3. IsFiniteSet(DOMAIN WorkspaceName)
  <2>1. IsFiniteSet({"dwu_limit", "dwu_used", "dwu_consumption_percent", "active_queries", "queued_queries",
                     "connection_successful", "blocked_by_firewall", "memory_usage_percent", "cpu_percent"})
    BY NineFinite, Zenon
  <2> QED
    BY <1>2, <2>1
<1>4. IsFiniteSet({"connection_failed"})
  BY FS_Singleton
<1>5. IsFiniteSet(StandaloneMetrics)
  BY <1>3, <1>4, FS_Union, Zenon DEF StandaloneMetrics
<1> QED
  BY <1>1, <1>5, FS_CardinalityType DEF MetricsOf

LEMMA MonitoringBegins == ASSUME MonitoringInit PROVE MonInv
<1>1. monScope \in MonScopes /\ poolList = <<>> /\ asking = <<>> /\ series = {} /\ dwuDays = {} /\ monErrors = {} /\ monStage = "list"
  BY DEF MonitoringInit
<1>2. DOMAIN poolList = {}
  BY <1>1
<1>3. MonWhere
  BY <1>1 DEF MonWhere
<1>4. MonAsking
  BY <1>1, <1>2, Zenon DEF MonAsking
<1>5. MonReported
  BY <1>1 DEF MonReported
<1> QED
  BY <1>3, <1>4, <1>5 DEF MonInv

LEMMA ListPoolsStep == ASSUME MonInv, ListPools PROVE MonInv'
<1>1. /\ MonWhere /\ MonReported /\ monStage = "list" /\ monStage' = "fetch"
      /\ poolList' = ListedPools(monScope) /\ monScope' = monScope /\ series' = series /\ dwuDays' = dwuDays /\ monErrors' = monErrors
      /\ asking' = [i \in DOMAIN poolList' |-> [phase |-> "queued", names |-> MetricsOf(monScope), requests |-> 0]]
  BY DEF MonInv, ListPools
<1> DEFINE c == Cardinality(MetricsOf(monScope))
<1>2. c \in Nat /\ Cardinality({}) = 0
  BY MetricsCount, FS_EmptySet
<1>3. MonWhere'
  BY <1>1 DEF MonWhere
<1>4. ASSUME NEW i \in DOMAIN poolList' PROVE AskingSound(i)'
  <2>1. asking'[i] = [phase |-> "queued", names |-> MetricsOf(monScope), requests |-> 0]
    BY <1>1
  <2>2. LeftOut(i)' = {}
    BY <1>1, <2>1 DEF LeftOut
  <2>3. asking'[i] \in AskingRow' /\ asking'[i].requests = 0 /\ asking'[i].phase = "queued"
    BY <1>1, <2>1 DEF AskingRow
  <2>4. MetricsOf(monScope') = MetricsOf(monScope)
    BY <1>1
  <2> QED
    BY <1>2, <2>2, <2>3, <2>4 DEF AskingSound
<1>5. MonAsking'
  <2>1. DOMAIN asking' = DOMAIN poolList'
    BY <1>1
  <2> QED
    BY <1>4, <2>1, Zenon DEF MonAsking
<1>6. MonReported'
  BY <1>1 DEF MonReported
<1> QED
  BY <1>3, <1>5, <1>6 DEF MonInv

LEMMA ListingFailsStep == ASSUME MonInv, ListingFails PROVE MonInv'
<1>1. /\ MonWhere /\ MonAsking /\ MonReported /\ monStage = "list" /\ monStage' = "done"
      /\ poolList' = poolList /\ asking' = asking /\ monScope' = monScope /\ series' = series /\ dwuDays' = dwuDays
  BY DEF MonInv, ListingFails
<1>2. poolList = <<>> /\ series = {} /\ dwuDays = {} /\ DOMAIN poolList = {}
  BY <1>1 DEF MonWhere, MonReported
<1>3. MonWhere'
  BY <1>1 DEF MonWhere
<1>4. MonAsking'
  BY <1>1, <1>2, Zenon DEF MonAsking
<1>5. MonReported'
  BY <1>1, <1>2 DEF MonReported
<1> QED
  BY <1>3, <1>4, <1>5 DEF MonInv

-----------------------------------------------------------------------------
(* Monitoring: a worker's steps.                                           *)

\* What is left out and what is asked for are all metrics.
LEMMA LeftOutCount ==
    ASSUME NEW i, asking[i].names \subseteq MetricsOf(monScope)
    PROVE  /\ IsFiniteSet(LeftOut(i)) /\ Cardinality(LeftOut(i)) \in Nat
           /\ Cardinality(LeftOut(i)) <= Cardinality(MetricsOf(monScope))
           /\ asking[i].names # {} => Cardinality(LeftOut(i)) < Cardinality(MetricsOf(monScope))
           /\ \A m \in asking[i].names : /\ IsFiniteSet(LeftOut(i) \cup {m})
                                         /\ Cardinality(LeftOut(i) \cup {m}) = Cardinality(LeftOut(i)) + 1
<1> DEFINE M == MetricsOf(monScope)
<1>1. IsFiniteSet(M) /\ LeftOut(i) \subseteq M /\ \A m \in asking[i].names : m \in M /\ m \notin LeftOut(i)
  BY MetricsCount DEF LeftOut
<1>2. IsFiniteSet(LeftOut(i)) /\ Cardinality(LeftOut(i)) \in Nat /\ Cardinality(LeftOut(i)) <= Cardinality(M) /\ Cardinality(M) \in Nat
  BY <1>1, FS_Subset, FS_CardinalityType
<1>3. ASSUME NEW m \in asking[i].names
      PROVE  IsFiniteSet(LeftOut(i) \cup {m}) /\ Cardinality(LeftOut(i) \cup {m}) = Cardinality(LeftOut(i)) + 1
  BY <1>1, <1>2, FS_AddElement
<1>4. ASSUME asking[i].names # {} PROVE Cardinality(LeftOut(i)) < Cardinality(M)
  <2>1. PICK m \in asking[i].names : TRUE
    BY <1>4
  <2>2. LeftOut(i) \cup {m} \subseteq M
    BY <1>1
  <2>3. Cardinality(LeftOut(i) \cup {m}) <= Cardinality(M)
    BY <1>1, <2>2, FS_Subset
  <2> QED
    BY <1>2, <1>3, <2>3
<1> QED
  BY <1>2, <1>3, <1>4

\* A step of one worker leaves the others where they are.
LEMMA WorkerTurns ==
    ASSUME MonInv, monStage = "fetch", NEW i \in DOMAIN asking, NEW phase, NEW names, NEW made, Turn(i, phase, names, made), AskingSound(i)'
    PROVE  MonInv'
<1>1. /\ MonWhere /\ MonAsking /\ MonReported
      /\ monScope' = monScope /\ poolList' = poolList /\ series' = series /\ dwuDays' = dwuDays /\ monErrors' = monErrors /\ monStage' = monStage
      /\ asking' = [asking EXCEPT ![i] = [phase |-> phase, names |-> names, requests |-> asking[i].requests + made]]
  BY DEF MonInv, Turn
<1>2. MonWhere'
  BY <1>1 DEF MonWhere
<1>3. ASSUME NEW j \in DOMAIN poolList' PROVE AskingSound(j)'
  <2>1. j \in DOMAIN poolList
    BY <1>1
  <2>2. CASE j # i
    <3>1. asking'[j] = asking[j] /\ AskingSound(j)
      BY <1>1, <2>1, <2>2 DEF MonAsking
    <3> QED
      BY <1>1, <3>1 DEF AskingSound, AskingRow, LeftOut, Listed, Supported
  <2> QED
    BY <2>2
<1>4. MonAsking'
  <2>1. DOMAIN asking' = DOMAIN asking /\ DOMAIN asking = DOMAIN poolList
    BY <1>1 DEF MonAsking
  <2>2. DOMAIN asking' = DOMAIN poolList'
    BY <1>1, <2>1
  <2> QED
    BY <1>3, <2>2, Zenon DEF MonAsking
<1>5. MonReported'
  BY <1>1 DEF MonReported
<1> QED
  BY <1>2, <1>4, <1>5 DEF MonInv

\* Where a worker is.
LEMMA WorkerAt ==
    ASSUME MonInv, NEW i \in DOMAIN asking
    PROVE  /\ AskingSound(i) /\ asking[i] \in AskingRow /\ asking[i].names \subseteq MetricsOf(monScope) /\ i \in DOMAIN poolList
           /\ asking[i].phase \in {"queued", "asking", "got", "failed"} /\ asking[i].requests \in Nat
           /\ Cardinality(MetricsOf(monScope)) \in Nat
<1>1. AskingSound(i) /\ i \in DOMAIN poolList
  BY DEF MonInv, MonAsking
<1>2. asking[i] \in AskingRow
  BY <1>1 DEF AskingSound
<1> QED
  BY <1>1, <1>2, MetricsCount DEF AskingRow

\* A worker at work is at work in the phase of fetching.
LEMMA Fetching == ASSUME MonInv, NEW i \in DOMAIN asking, asking[i].phase \in {"queued", "asking"} PROVE monStage = "fetch"
<1>1. i \in DOMAIN poolList
  BY WorkerAt
<1>2. poolList # <<>>
  BY <1>1
<1>3. monStage # "list"
  BY <1>2 DEF MonInv, MonWhere
<1>4. ASSUME monStage = "done" PROVE FALSE
  <2>1. asking[i].phase \in {"got", "failed"}
    BY <1>1, <1>2, <1>4, Zenon DEF MonInv, MonReported
  <2> QED
    BY <2>1
<1> QED
  BY <1>3, <1>4 DEF MonInv, MonWhere

\* What a worker's step leaves behind.
LEMMA TurnMakes ==
    ASSUME MonInv, NEW i \in DOMAIN asking, NEW phase \in {"asking", "got", "failed"}, NEW names \in SUBSET MetricsOf(monScope),
           NEW made \in {0, 1}, Turn(i, phase, names, made)
    PROVE  /\ asking'[i] \in AskingRow' /\ asking'[i].phase = phase /\ asking'[i].names = names
           /\ asking'[i].requests = asking[i].requests + made
           /\ Listed(i)' = Listed(i) /\ Supported(i)' = Supported(i) /\ MetricsOf(monScope') = MetricsOf(monScope)
           /\ LeftOut(i)' = MetricsOf(monScope) \ names
<1>1. asking[i].requests \in Nat
  BY WorkerAt
<1>2. monScope' = monScope /\ poolList' = poolList /\ asking' = [asking EXCEPT ![i] = [phase |-> phase, names |-> names, requests |-> asking[i].requests + made]]
  BY DEF Turn
<1> DEFINE new == [phase |-> phase, names |-> names, requests |-> asking[i].requests + made]
<1>3. asking'[i] = new
  BY <1>2
<1>4. asking[i].requests + made \in Nat
  BY <1>1
<1>5. new \in AskingRow /\ new.phase = phase /\ new.names = names /\ new.requests = asking[i].requests + made
  BY <1>4 DEF AskingRow
<1>6. AskingRow' = AskingRow
  BY <1>2 DEF AskingRow
<1> HIDE DEF new
<1>7. Listed(i)' = Listed(i) /\ MetricsOf(monScope') = MetricsOf(monScope)
  BY <1>2 DEF Listed
<1>8. Supported(i)' = Supported(i)
  BY <1>7 DEF Supported
<1>9. LeftOut(i)' = MetricsOf(monScope) \ names
  BY <1>3, <1>5, <1>7 DEF LeftOut
<1> QED
  BY <1>3, <1>5, <1>6, <1>7, <1>8, <1>9

LEMMA TakeMonitoredStep == ASSUME MonInv, NEW i \in DOMAIN asking, TakeMonitored(i) PROVE MonInv'
<1>1. monStage = "fetch" /\ asking[i].phase = "queued" /\ Turn(i, "asking", asking[i].names, 0)
  BY DEF TakeMonitored
<1>2. AskingSound(i) /\ asking[i].names \in SUBSET MetricsOf(monScope) /\ asking[i].requests \in Nat
  BY WorkerAt
<1>3. /\ asking'[i] \in AskingRow' /\ asking'[i].phase = "asking"
      /\ asking'[i].requests = asking[i].requests
      /\ Listed(i)' = Listed(i) /\ MetricsOf(monScope') = MetricsOf(monScope)
      /\ LeftOut(i)' = LeftOut(i)
  BY <1>1, <1>2, TurnMakes DEF LeftOut
<1>4. AskingSound(i)'
  BY <1>1, <1>2, <1>3 DEF AskingSound
<1> QED
  BY <1>1, <1>4, WorkerTurns

LEMMA RequestRejectedStep == ASSUME MonInv, NEW i \in DOMAIN asking, RequestRejected(i) PROVE MonInv'
<1>1. PICK m \in asking[i].names \ Supported(i) : Turn(i, "asking", asking[i].names \ {m}, 1)
  BY DEF RequestRejected, WithoutMetric
<1>2. /\ AskingSound(i) /\ asking[i].names \in SUBSET MetricsOf(monScope) /\ asking[i].requests \in Nat
      /\ Cardinality(MetricsOf(monScope)) \in Nat
  BY WorkerAt
<1>3. asking[i].phase = "asking" /\ asking[i].names # {}
  BY DEF RequestRejected, Asking
<1>4. monStage = "fetch"
  BY <1>3, Fetching
<1>5. /\ asking'[i] \in AskingRow' /\ asking'[i].phase = "asking"
      /\ asking'[i].requests = asking[i].requests + 1
      /\ Listed(i)' = Listed(i) /\ MetricsOf(monScope') = MetricsOf(monScope)
      /\ LeftOut(i)' = MetricsOf(monScope) \ (asking[i].names \ {m})
  BY <1>1, <1>2, TurnMakes
<1>6. LeftOut(i)' = LeftOut(i) \cup {m}
  BY <1>1, <1>2, <1>5 DEF LeftOut
<1>7. Cardinality(LeftOut(i)') = Cardinality(LeftOut(i)) + 1 /\ Cardinality(LeftOut(i)') <= Cardinality(MetricsOf(monScope))
  <2>1. /\ Cardinality(LeftOut(i) \cup {m}) = Cardinality(LeftOut(i)) + 1 /\ Cardinality(LeftOut(i)) \in Nat
        /\ Cardinality(LeftOut(i)) < Cardinality(MetricsOf(monScope))
    BY <1>1, <1>2, <1>3, LeftOutCount
  <2> QED
    BY <1>2, <1>6, <2>1
<1>8. AskingSound(i)'
  <2>1. asking[i].requests = Cardinality(LeftOut(i)) /\ LeftOut(i) \subseteq Listed(i).unknown
    BY <1>2, <1>3 DEF AskingSound
  <2>2. asking'[i].requests = Cardinality(LeftOut(i)')
    BY <1>5, <1>7, <2>1
  <2>3. m \in Listed(i).unknown
    BY <1>1, <1>2 DEF Supported
  <2>4. LeftOut(i)' \subseteq Listed(i)'.unknown
    BY <1>5, <1>6, <2>1, <2>3
  <2> QED
    BY <1>5, <1>7, <2>2, <2>4 DEF AskingSound
<1> QED
  BY <1>1, <1>4, <1>8, WorkerTurns

LEMMA RequestFailsStep == ASSUME MonInv, NEW i \in DOMAIN asking, RequestFails(i) PROVE MonInv'
<1>1. asking[i].phase = "asking" /\ asking[i].names # {} /\ Turn(i, "failed", asking[i].names, 1)
  BY DEF RequestFails, Asking
<1>2. /\ AskingSound(i) /\ asking[i].names \in SUBSET MetricsOf(monScope) /\ asking[i].requests \in Nat
      /\ Cardinality(MetricsOf(monScope)) \in Nat
  BY WorkerAt
<1>3. monStage = "fetch"
  BY <1>1, Fetching
<1>4. /\ asking'[i] \in AskingRow' /\ asking'[i].phase = "failed"
      /\ asking'[i].requests = asking[i].requests + 1
      /\ Listed(i)' = Listed(i) /\ MetricsOf(monScope') = MetricsOf(monScope)
      /\ LeftOut(i)' = LeftOut(i)
  BY <1>1, <1>2, TurnMakes DEF LeftOut
<1>5. asking[i].requests < Cardinality(MetricsOf(monScope)) /\ LeftOut(i) \subseteq Listed(i).unknown
  BY <1>1, <1>2, LeftOutCount DEF AskingSound
<1>6. asking'[i].requests <= Cardinality(MetricsOf(monScope))
  BY <1>2, <1>4, <1>5
<1>7. AskingSound(i)'
  BY <1>4, <1>5, <1>6 DEF AskingSound
<1> QED
  BY <1>1, <1>3, <1>7, WorkerTurns

LEMMA RequestAnsweredStep == ASSUME MonInv, NEW i \in DOMAIN asking, RequestAnswered(i) PROVE MonInv'
<1>1. /\ asking[i].phase = "asking" /\ asking[i].names # {} /\ Turn(i, "got", asking[i].names, 1)
      /\ asking[i].names \subseteq Supported(i)
  BY DEF RequestAnswered, Asking
<1>2. /\ AskingSound(i) /\ asking[i].names \in SUBSET MetricsOf(monScope) /\ asking[i].requests \in Nat
      /\ Cardinality(MetricsOf(monScope)) \in Nat
  BY WorkerAt
<1>3. monStage = "fetch"
  BY <1>1, Fetching
<1>4. /\ asking'[i] \in AskingRow' /\ asking'[i].phase = "got" /\ asking'[i].names = asking[i].names
      /\ asking'[i].requests = asking[i].requests + 1
      /\ Listed(i)' = Listed(i) /\ Supported(i)' = Supported(i) /\ MetricsOf(monScope') = MetricsOf(monScope)
      /\ LeftOut(i)' = LeftOut(i)
  BY <1>1, <1>2, TurnMakes DEF LeftOut
<1>5. asking[i].requests < Cardinality(MetricsOf(monScope)) /\ LeftOut(i) \subseteq Listed(i).unknown
  BY <1>1, <1>2, LeftOutCount DEF AskingSound
<1>6. asking'[i].requests <= Cardinality(MetricsOf(monScope))
  BY <1>2, <1>4, <1>5
<1>7. asking[i].names = Supported(i)
  BY <1>1, <1>2, <1>5 DEF Supported, LeftOut
<1>8. AskingSound(i)'
  BY <1>4, <1>5, <1>6, <1>7 DEF AskingSound
<1> QED
  BY <1>1, <1>3, <1>8, WorkerTurns

LEMMA NothingAnsweredStep == ASSUME MonInv, NEW i \in DOMAIN asking, NothingAnswered(i) PROVE MonInv'
<1>1. /\ asking[i].phase = "asking" /\ Turn(i, "got", {}, 0)
      /\ asking[i].names = {} \/ asking[i].requests > Cardinality(MetricsOf(monScope))
  BY DEF NothingAnswered, Asking
<1>2. /\ AskingSound(i) /\ asking[i].names \in SUBSET MetricsOf(monScope) /\ asking[i].requests \in Nat
      /\ Cardinality(MetricsOf(monScope)) \in Nat
  BY WorkerAt
<1>3. monStage = "fetch"
  BY <1>1, Fetching
<1>4. asking[i].names = {} /\ asking[i].requests <= Cardinality(MetricsOf(monScope)) /\ LeftOut(i) \subseteq Listed(i).unknown
  <2>1. asking[i].requests <= Cardinality(MetricsOf(monScope)) /\ LeftOut(i) \subseteq Listed(i).unknown
    BY <1>2 DEF AskingSound
  <2> QED
    BY <1>1, <1>2, <2>1
<1>5. /\ asking'[i] \in AskingRow' /\ asking'[i].phase = "got" /\ asking'[i].names = {}
      /\ asking'[i].requests = asking[i].requests
      /\ Listed(i)' = Listed(i) /\ Supported(i)' = Supported(i) /\ MetricsOf(monScope') = MetricsOf(monScope)
      /\ LeftOut(i)' = LeftOut(i)
  <2>1. LeftOut(i) = MetricsOf(monScope) \ {}
    BY <1>4 DEF LeftOut
  <2>2. {} \in SUBSET MetricsOf(monScope)
    OBVIOUS
  <2>3. /\ asking'[i] \in AskingRow' /\ asking'[i].phase = "got" /\ asking'[i].names = {}
        /\ asking'[i].requests = asking[i].requests + 0
        /\ Listed(i)' = Listed(i) /\ Supported(i)' = Supported(i) /\ MetricsOf(monScope') = MetricsOf(monScope)
        /\ LeftOut(i)' = MetricsOf(monScope) \ {}
    BY <1>1, <2>2, TurnMakes
  <2> QED
    BY <1>2, <2>1, <2>3
<1>6. Supported(i) = {}
  BY <1>4 DEF Supported, LeftOut
<1>7. AskingSound(i)'
  BY <1>4, <1>5, <1>6 DEF AskingSound
<1> QED
  BY <1>1, <1>3, <1>7, WorkerTurns

LEMMA MonitoringReportStep == ASSUME MonInv, MonitoringReport PROVE MonInv'
<1>1. /\ MonWhere /\ MonAsking /\ MonReported /\ monStage = "fetch" /\ monStage' = "done"
      /\ monScope' = monScope /\ poolList' = poolList /\ asking' = asking
      /\ series' = SeriesAnswered /\ monErrors' = NotMeasured /\ dwuDays' = DeriveDwuDays(SeriesAnswered, monScope.interval)
      /\ \A i \in DOMAIN asking : asking[i].phase \in {"got", "failed"}
  BY DEF MonInv, MonitoringReport
<1>2. MonWhere'
  BY <1>1 DEF MonWhere
<1>3. MonAsking'
  <2>1. ASSUME NEW i, AskingSound(i) PROVE AskingSound(i)'
    BY <1>1, <2>1 DEF AskingSound, AskingRow, LeftOut, Listed, Supported
  <2>2. DOMAIN asking' = DOMAIN poolList' /\ \A i \in DOMAIN poolList' : AskingSound(i)
    BY <1>1 DEF MonAsking
  <2> QED
    BY <2>1, <2>2, Zenon DEF MonAsking
<1>4. SeriesAnswered' = SeriesAnswered /\ NotMeasured' = NotMeasured
  <2>1. monScope' = monScope /\ poolList' = poolList /\ asking' = asking
    BY <1>1
  <2> QED
    BY <2>1 DEF SeriesAnswered, SeriesOf, Listed, NotMeasured
<1>5. MonReported'
  <2>1. DOMAIN poolList' = DOMAIN asking'
    BY <1>1 DEF MonAsking
  <2>2. poolList' = <<>> => series' = {} /\ dwuDays' = {}
    <3>1. SUFFICES ASSUME poolList' = <<>> PROVE series' = {} /\ dwuDays' = {}
      OBVIOUS
    <3>2. DOMAIN asking = {}
      BY <1>1, <2>1, <3>1
    <3>3. SeriesAnswered = {}
      BY <3>2 DEF SeriesAnswered
    <3>4. DeriveDwuDays({}, monScope.interval) = {}
      BY Zenon DEF DeriveDwuDays
    <3> QED
      BY <1>1, <3>3, <3>4
  <2> QED
    BY <1>1, <1>4, <2>1, <2>2 DEF MonReported
<1> QED
  BY <1>2, <1>3, <1>5 DEF MonInv

LEMMA MonitoringStep == ASSUME MonInv, MonitoringNext PROVE MonInv'
<1>1. CASE ListPools
  BY <1>1, ListPoolsStep
<1>2. CASE ListingFails
  BY <1>2, ListingFailsStep
<1>3. CASE MonitoringReport
  BY <1>3, MonitoringReportStep
<1>4. ASSUME NEW i \in DOMAIN asking,
             TakeMonitored(i) \/ RequestRejected(i) \/ RequestFails(i) \/ RequestAnswered(i) \/ NothingAnswered(i)
      PROVE  MonInv'
  BY <1>4, TakeMonitoredStep, RequestRejectedStep, RequestFailsStep, RequestAnsweredStep, NothingAnsweredStep
<1> QED
  BY <1>1, <1>2, <1>3, <1>4 DEF MonitoringNext

LEMMA MonitoringRests == ASSUME MonInv, UNCHANGED monVars PROVE MonInv'
<1>1. /\ MonWhere /\ MonAsking /\ MonReported
      /\ monScope' = monScope /\ poolList' = poolList /\ series' = series /\ dwuDays' = dwuDays /\ monErrors' = monErrors /\ monStage' = monStage
      /\ asking' = asking
  BY DEF MonInv, monVars
<1>2. MonWhere'
  BY <1>1 DEF MonWhere
<1>3. MonAsking'
  <2>1. ASSUME NEW i, AskingSound(i) PROVE AskingSound(i)'
    BY <1>1, <2>1 DEF AskingSound, AskingRow, LeftOut, Listed, Supported
  <2>2. DOMAIN asking' = DOMAIN poolList' /\ \A i \in DOMAIN poolList' : AskingSound(i)
    BY <1>1 DEF MonAsking
  <2> QED
    BY <2>1, <2>2, Zenon DEF MonAsking
<1>4. SeriesAnswered' = SeriesAnswered /\ NotMeasured' = NotMeasured
  <2>1. monScope' = monScope /\ poolList' = poolList /\ asking' = asking
    BY <1>1
  <2> QED
    BY <2>1 DEF SeriesAnswered, SeriesOf, Listed, NotMeasured
<1>5. MonReported'
  BY <1>1, <1>4 DEF MonReported
<1> QED
  BY <1>2, <1>3, <1>5 DEF MonInv

-----------------------------------------------------------------------------
(* Monitoring: the values of a metric, and where its 95th percentile lies.  *)

IsValues(values) == IsFiniteSet(DOMAIN values) /\ \A i \in DOMAIN values : values[i] \in Nat
CountOf(values) == Cardinality(DOMAIN values)

LEMMA CutsCount ==
    ASSUME NEW values, IsValues(values), NEW v
    PROVE  /\ Cardinality(Atmost(values, v)) \in Nat /\ Cardinality(Below(values, v)) \in Nat
           /\ Cardinality(Atmost(values, v)) <= CountOf(values) /\ CountOf(values) \in Nat
           /\ IsFiniteSet(Atmost(values, v)) /\ IsFiniteSet(Below(values, v))
           /\ Atmost(values, v) \subseteq DOMAIN values /\ Below(values, v) \subseteq DOMAIN values
<1>1. IsFiniteSet(DOMAIN values) /\ Atmost(values, v) \subseteq DOMAIN values /\ Below(values, v) \subseteq DOMAIN values
  BY DEF IsValues, Atmost, Below
<1> QED
  BY <1>1, FS_Subset, FS_CardinalityType DEF CountOf

\* The range of a function of finite domain.
LEMMA RangeFinite == ASSUME NEW f, IsFiniteSet(DOMAIN f) PROVE IsFiniteSet(Range(f))
<1>1. IsFiniteSet({f[x] : x \in DOMAIN f})
  BY FiniteImage
<1> QED
  BY <1>1, Zenon DEF Range

\* Values have a least and a greatest one.
LEMMA ValuesBetween ==
    ASSUME NEW values, IsValues(values), DOMAIN values # {}
    PROVE  /\ Range(values) # {} /\ Range(values) \subseteq Nat /\ IsFiniteSet(Range(values))
           /\ Min(Range(values)) \in Nat /\ Max(Range(values)) \in Nat
           /\ Min(Range(values)) \in Range(values) /\ Max(Range(values)) \in Range(values)
           /\ \A i \in DOMAIN values : Min(Range(values)) <= values[i] /\ values[i] <= Max(Range(values))
<1> DEFINE R == Range(values)
<1>1. R # {} /\ R \subseteq Nat /\ \A i \in DOMAIN values : values[i] \in R
  BY DEF Range, IsValues
<1>2. IsFiniteSet(R)
  BY RangeFinite DEF IsValues
<1> HIDE DEF R
<1>3. Max(R) \in R /\ \A y \in R : Max(R) >= y
  <2>1. Numbers(R)
    BY <1>1 DEF Numbers
  <2> QED
    BY <1>1, <1>2, <2>1, Largest
<1>4. Min(R) \in R /\ \A y \in R : Min(R) <= y
  <2>1. \E x \in R : \A y \in R : x <= y
    BY <1>1, FirstOf
  <2> QED
    BY <2>1 DEF Min
<1>5. Min(R) \in Nat /\ Max(R) \in Nat
  BY <1>1, <1>3, <1>4
<1>6. \A i \in DOMAIN values : Min(R) <= values[i] /\ values[i] <= Max(R)
  BY <1>1, <1>3, <1>4, <1>5
<1> QED
  BY <1>1, <1>2, <1>3, <1>4, <1>5, <1>6 DEF R

\* There is a value of every rank.
LEMMA RankedIs ==
    ASSUME NEW values, IsValues(values), NEW k \in 1..CountOf(values)
    PROVE  /\ Ranked(values, k) \in Range(values) /\ Ranked(values, k) \in Nat
           /\ Cardinality(Below(values, Ranked(values, k))) < k /\ k <= Cardinality(Atmost(values, Ranked(values, k)))
<1>1. DOMAIN values # {} /\ CountOf(values) \in Nat
  <2>1. Cardinality({}) = 0
    BY FS_EmptySet
  <2>2. CountOf(values) \in Nat
    BY CutsCount
  <2>3. k \in Nat \ {0} /\ k <= CountOf(values)
    BY <2>2
  <2> QED
    BY <2>1, <2>2, <2>3 DEF CountOf
<1> DEFINE R == Range(values)
           Reached == {v \in R : k <= Cardinality(Atmost(values, v))}
<1>2. R \subseteq Nat /\ Max(R) \in R /\ \A i \in DOMAIN values : values[i] \in R /\ values[i] <= Max(R)
  <2>1. \A i \in DOMAIN values : values[i] \in R
    BY DEF Range
  <2> QED
    BY <1>1, <2>1, ValuesBetween
<1> HIDE DEF R
<1>3. Max(R) \in Reached
  <2>1. Atmost(values, Max(R)) = DOMAIN values
    BY <1>2 DEF Atmost
  <2> QED
    BY <1>1, <1>2, <2>1 DEF CountOf
<1>4. PICK v \in Reached : \A u \in Reached : v <= u
  <2>1. Reached \subseteq Nat /\ Reached # {}
    BY <1>2, <1>3
  <2> HIDE DEF Reached
  <2> QED
    BY <2>1, FirstOf
<1>5. v \in R /\ v \in Nat /\ k <= Cardinality(Atmost(values, v))
  BY <1>2, <1>4
<1>6. Cardinality(Below(values, v)) < k
  <2> DEFINE L == {values[i] : i \in Below(values, v)}
  <2>1. CASE Below(values, v) = {}
    <3>1. Cardinality(Below(values, v)) = 0 /\ k \in Nat \ {0}
      BY <1>1, <2>1, FS_EmptySet
    <3> QED
      BY <3>1
  <2>2. CASE Below(values, v) # {}
    <3>1. IsFiniteSet(L)
      <4>1. IsFiniteSet(Below(values, v))
        BY CutsCount
      <4> QED
        BY <4>1, FiniteImage
    <3>2. L # {} /\ L \subseteq R /\ \A x \in L : x < v
      BY <1>2, <2>2 DEF Below
    <3>3. \A i \in DOMAIN values : values[i] < v => values[i] \in L
      BY DEF Below
    <3> HIDE DEF L
    <3>4. Max(L) \in L /\ \A y \in L : Max(L) >= y
      <4>1. Numbers(L)
        BY <1>2, <3>2 DEF Numbers
      <4> QED
        BY <3>1, <3>2, <4>1, Largest
    <3>5. Max(L) \in R /\ Max(L) \in Nat /\ Max(L) < v
      BY <1>2, <3>2, <3>4
    <3>6. Max(L) \notin Reached
      BY <1>4, <1>5, <3>5
    <3>7. ~ (k <= Cardinality(Atmost(values, Max(L))))
      BY <3>5, <3>6
    <3>8. Below(values, v) \subseteq Atmost(values, Max(L))
      BY <1>2, <3>3, <3>4, <3>5 DEF Below, Atmost
    <3>9. Cardinality(Below(values, v)) <= Cardinality(Atmost(values, Max(L)))
      BY <3>8, CutsCount, FS_Subset
    <3>10. Cardinality(Below(values, v)) \in Nat /\ Cardinality(Atmost(values, Max(L))) \in Nat /\ k \in Nat
      BY <1>1, CutsCount
    <3> QED
      BY <3>7, <3>9, <3>10
  <2> QED
    BY <2>1, <2>2
<1>7. \E u \in Range(values) : Cardinality(Below(values, u)) < k /\ k <= Cardinality(Atmost(values, u))
  BY <1>5, <1>6 DEF R
<1>8. /\ Ranked(values, k) \in Range(values)
      /\ Cardinality(Below(values, Ranked(values, k))) < k /\ k <= Cardinality(Atmost(values, Ranked(values, k)))
  BY <1>7 DEF Ranked
<1> QED
  BY <1>2, <1>8 DEF R

\* Of two values the one of the higher rank is the greater.
LEMMA RankedUp ==
    ASSUME NEW values, IsValues(values), NEW k \in 1..CountOf(values), NEW l \in 1..CountOf(values), k <= l
    PROVE  Ranked(values, k) <= Ranked(values, l)
<1> DEFINE u == Ranked(values, k)
           v == Ranked(values, l)
<1>1. /\ u \in Nat /\ v \in Nat /\ Cardinality(Below(values, u)) < k /\ l <= Cardinality(Atmost(values, v))
  BY RankedIs
<1> HIDE DEF u, v
<1>2. SUFFICES ASSUME v < u PROVE FALSE
  BY <1>1 DEF u, v
<1>3. Atmost(values, v) \subseteq Below(values, u)
  BY <1>1, <1>2 DEF Atmost, Below, IsValues
<1>4. Cardinality(Atmost(values, v)) <= Cardinality(Below(values, u))
  BY <1>3, CutsCount, FS_Subset
<1>5. Cardinality(Below(values, u)) \in Nat /\ Cardinality(Atmost(values, v)) \in Nat /\ CountOf(values) \in Nat
  BY CutsCount
<1> QED
  BY <1>1, <1>4, <1>5

\* A share of the way from one number to another.
LEMMA SharedOut ==
    ASSUME NEW a \in Nat, NEW b \in Nat, a <= b, NEW w \in 0..100
    PROVE  /\ (100 - w) * a + w * b \in Nat
           /\ 100 * a <= (100 - w) * a + w * b /\ (100 - w) * a + w * b <= 100 * b
<1>1. w * a \in Nat /\ w * b \in Nat /\ w * a <= w * b
  BY TimesMore
<1>2. 100 - w \in Nat /\ (100 - w) * a <= (100 - w) * b /\ (100 - w) * a \in Nat /\ (100 - w) * b \in Nat
  BY TimesMore
<1>3. (100 - w) * a = 100 * a - w * a /\ (100 - w) * b = 100 * b - w * b
  OBVIOUS
<1> QED
  BY <1>1, <1>2, <1>3

\* Where 95 of 100 parts of the way from the first to the last value lie.
LEMMA RankOf ==
    ASSUME NEW n \in Nat, n >= 2
    PROVE  /\ 1 + (95 * (n - 1)) \div 100 \in 1..n /\ 2 + (95 * (n - 1)) \div 100 \in 1..n
           /\ (95 * (n - 1)) % 100 \in 0..99
           /\ 100 * (n - (1 + (95 * (n - 1)) \div 100)) = 5 * (n - 1) + ((95 * (n - 1)) % 100)
<1> DEFINE r == 95 * (n - 1)
           q == r \div 100
           o == r % 100
<1>1. r \in Nat /\ r = 95 * n - 95
  OBVIOUS
<1> HIDE DEF r
<1>2. q \in Int /\ o \in 0..99 /\ r = 100 * q + o
  BY <1>1
<1> HIDE DEF q, o
<1>3. q \in Nat /\ q < n - 1
  BY <1>1, <1>2
<1>4. 100 * (n - (1 + q)) = 5 * (n - 1) + o
  BY <1>1, <1>2, <1>3
<1> QED
  BY <1>2, <1>3, <1>4 DEF r, q, o

\* The percentile lies among the values, and few of them above it.
LEMMA PercentileTold ==
    ASSUME NEW values, IsValues(values), DOMAIN values # {}
    PROVE  /\ P95(values) \in (100 * Min(Range(values)))..(100 * Max(Range(values)))
           /\ 100 * Cardinality({i \in DOMAIN values : 100 * values[i] > P95(values)}) < 5 * (CountOf(values) - 1) + 100
<1> DEFINE n == CountOf(values)
           least == Min(Range(values))
           most == Max(Range(values))
           Over(p) == {i \in DOMAIN values : 100 * values[i] > p}
<1>1. n \in Nat \ {0} /\ IsFiniteSet(DOMAIN values)
  <2>1. n \in Nat
    BY CutsCount
  <2>2. IsFiniteSet(DOMAIN values)
    BY DEF IsValues
  <2> QED
    BY <2>1, <2>2, FS_EmptySet DEF CountOf
<1>2. least \in Nat /\ most \in Nat /\ \A v \in Range(values) : least <= v /\ v <= most
  <2>1. \A v \in Range(values) : \E i \in DOMAIN values : v = values[i]
    BY DEF Range
  <2> QED
    BY <2>1, ValuesBetween
\* Few are above a value of some rank.
<1>3. ASSUME NEW k \in 1..n, NEW p \in Nat, 100 * Ranked(values, k) <= p
      PROVE  Cardinality(Over(p)) \in Nat /\ Cardinality(Over(p)) <= n - k
  <2> DEFINE v == Ranked(values, k)
  <2>1. v \in Nat /\ k <= Cardinality(Atmost(values, v))
    BY RankedIs
  <2>2. 100 * v <= p
    BY <1>3
  <2> HIDE DEF v
  <2>3. Over(p) \subseteq DOMAIN values \ Atmost(values, v)
    BY <2>1, <2>2 DEF Atmost, IsValues
  <2>4. IsFiniteSet(DOMAIN values \ Atmost(values, v)) /\ Cardinality(DOMAIN values \ Atmost(values, v)) = n - Cardinality(Atmost(values, v))
    <3>1. Atmost(values, v) \subseteq DOMAIN values
      BY CutsCount
    <3>2. DOMAIN values \cap Atmost(values, v) = Atmost(values, v)
      BY <3>1
    <3> QED
      BY <1>1, <3>2, FS_Difference DEF CountOf
  <2>5. Cardinality(Over(p)) \in Nat /\ Cardinality(Over(p)) <= Cardinality(DOMAIN values \ Atmost(values, v))
    BY <2>3, <2>4, FS_Subset, FS_CardinalityType
  <2>6. Cardinality(Atmost(values, v)) \in Nat
    BY CutsCount
  <2> HIDE DEF Over
  <2> QED
    BY <1>1, <2>1, <2>4, <2>5, <2>6
<1>4. CASE n = 1
  <2>1. P95(values) = 100 * Ranked(values, 1)
    BY <1>4, Zenon DEF P95, CountOf
  <2>2. Ranked(values, 1) \in Nat /\ Ranked(values, 1) \in Range(values)
    BY <1>4, RankedIs
  <2>3. least <= Ranked(values, 1) /\ Ranked(values, 1) <= most
    BY <1>2, <2>2
  <2>4. P95(values) \in (100 * least)..(100 * most) /\ P95(values) \in Nat
    <3> HIDE DEF least, most
    <3> QED
      BY <1>2, <2>1, <2>2, <2>3
  <2>5. Cardinality(Over(P95(values))) \in Nat /\ Cardinality(Over(P95(values))) <= n - 1
    <3>1. 100 * Ranked(values, 1) <= P95(values) /\ 1 \in 1..n
      BY <1>4, <2>1, <2>2, <2>4
    <3> HIDE DEF Over, n
    <3> QED
      BY <1>3, <2>4, <3>1
  <2>6. 100 * Cardinality(Over(P95(values))) < 5 * (n - 1) + 100
    <3> HIDE DEF Over, n
    <3> QED
      BY <1>4, <2>5
  <2> QED
    BY <2>4, <2>6
<1>5. CASE n # 1
  <2> DEFINE lower == 1 + (95 * (n - 1)) \div 100
             over == (95 * (n - 1)) % 100
             a == Ranked(values, lower)
             b == Ranked(values, lower + 1)
  <2>1. /\ lower \in 1..n /\ lower + 1 \in 1..n /\ over \in 0..99
        /\ 100 * (n - lower) = 5 * (n - 1) + over
    <3>1. n >= 2
      BY <1>1, <1>5
    <3> HIDE DEF n
    <3>2. /\ lower \in 1..n /\ 2 + (95 * (n - 1)) \div 100 \in 1..n /\ over \in 0..99
          /\ 100 * (n - lower) = 5 * (n - 1) + over
      BY <1>1, <3>1, RankOf
    <3>3. lower + 1 = 2 + (95 * (n - 1)) \div 100
      BY <1>1
    <3> QED
      BY <3>2, <3>3
  <2>2. P95(values) = (100 - over) * a + over * b
    BY <1>5, Zenon DEF P95, CountOf
  <2> HIDE DEF lower, over
  <2>3. a \in Nat /\ b \in Nat /\ a \in Range(values) /\ b \in Range(values)
    BY <2>1, RankedIs
  <2>4. a <= b
    <3>1. lower <= lower + 1
      BY <2>1
    <3> QED
      BY <2>1, <3>1, RankedUp
  <2>5. least <= a /\ b <= most
    BY <1>2, <2>3
  <2> HIDE DEF a, b, least, most
  <2>6. P95(values) \in Nat /\ 100 * a <= P95(values) /\ P95(values) <= 100 * b
    <3>1. over \in 0..100
      BY <2>1
    <3> QED
      BY <2>2, <2>3, <2>4, <3>1, SharedOut
  <2>7. P95(values) \in (100 * least)..(100 * most)
    BY <1>2, <2>3, <2>5, <2>6
  <2>8. Cardinality(Over(P95(values))) \in Nat /\ Cardinality(Over(P95(values))) <= n - lower
    <3>1. 100 * Ranked(values, lower) <= P95(values)
      BY <2>6 DEF a
    <3> HIDE DEF Over, n
    <3> QED
      BY <1>3, <2>1, <2>6, <3>1
  <2>9. 100 * Cardinality(Over(P95(values))) < 5 * (n - 1) + 100
    <3> HIDE DEF Over, n
    <3> QED
      BY <1>1, <2>1, <2>8
  <2> QED
    BY <2>7, <2>9 DEF least, most
<1> QED
  BY <1>4, <1>5

-----------------------------------------------------------------------------
(* Monitoring: the days.                                                   *)

IsUse(used) == IsFiniteSet(DOMAIN used) /\ \A t \in DOMAIN used : t \in Nat /\ used[t] \in Nat
IsLimit(limit, L) == IsFiniteSet(L) /\ 0 \in L /\ L \subseteq Int /\ \A t \in DOMAIN limit : limit[t] \in L
TimesOn(used, day) == {t \in DOMAIN used : DayIn(t) = day}
ActiveOn(used, day) == {t \in TimesOn(used, day) : used[t] > Threshold}
DayTold(d, pool, day, used, L, minutes) ==
  /\ d.pool = pool /\ d.day = day
  /\ d.activeMinutes <= minutes * Cardinality(TimesOn(used, day))
  /\ d.dwuMinutes <= d.activeMinutes * d.peakDwu /\ d.peakDwu <= Max(L) * d.peakPct
  /\ (d.activeMinutes > 0 <=> d.peakPct > Threshold)

LEMMA ProductUp ==
    ASSUME NEW a \in Int, NEW b \in Nat, NEW u \in Int, NEW v \in Nat, a <= u, b <= v, u \in Nat
    PROVE  a * b <= u * v
<1>1. b * a <= b * u
  BY TimesMore
<1>2. u * b <= u * v
  BY TimesMore
<1>3. a * b = b * a /\ b * u = u * b /\ a * b \in Int /\ u * b \in Int /\ u * v \in Int
  OBVIOUS
<1> QED
  BY <1>1, <1>2, <1>3

LEMMA MinutesPositive == \A interval : Minutes(interval) \in Nat \ {0}
<1>1. DOMAIN KnownIntervals = {"PT1M", "PT5M", "PT15M", "PT30M", "PT1H", "PT6H", "P1D"}
  BY DEF KnownIntervals
<1>2. \A x \in DOMAIN KnownIntervals : KnownIntervals[x] \in Nat \ {0}
  BY <1>1 DEF KnownIntervals
<1> QED
  BY <1>2 DEF Minutes

\* The row of a day.
LEMMA DayOf ==
    ASSUME NEW pool, NEW used, NEW limit, NEW L, IsUse(used), IsLimit(limit, L), NEW minutes \in Nat \ {0},
           NEW day, TimesOn(used, day) # {}
    PROVE  DayTold(DwuDay(pool, day, used, limit, minutes), pool, day, used, L, minutes)
<1> DEFINE times == TimesOn(used, day)
           active == ActiveOn(used, day)
           dwu == [t \in active |-> DwuAt(used, limit, t)]
           peak == Max({0} \cup {DwuAt(used, limit, t) : t \in active})
           pct == Max({used[t] : t \in times})
           c == Cardinality(active)
           d == DwuDay(pool, day, used, limit, minutes)
<1>1. /\ d.pool = pool /\ d.day = day /\ d.activeMinutes = minutes * c /\ d.dwuMinutes = minutes * SumOfAll(dwu)
      /\ d.peakDwu = peak /\ d.peakPct = pct
  BY DEF DwuDay, TimesOn, ActiveOn
<1>2. /\ IsFiniteSet(times) /\ times \subseteq DOMAIN used /\ IsFiniteSet(active) /\ active \subseteq times
      /\ active = {t \in times : used[t] > Threshold}
      /\ \A t \in times : t \in Nat /\ used[t] \in Nat
  <2>1. times \subseteq DOMAIN used /\ active \subseteq times /\ active = {t \in times : used[t] > Threshold}
    BY DEF TimesOn, ActiveOn
  <2>2. IsFiniteSet(times) /\ IsFiniteSet(active)
    BY <2>1, FS_Subset DEF IsUse
  <2> QED
    BY <2>1, <2>2 DEF IsUse
<1> HIDE DEF d, active, times
<1>3. c \in Nat /\ Cardinality(times) \in Nat /\ c <= Cardinality(times) /\ (c = 0 <=> active = {})
  BY <1>2, FS_Subset, FS_CardinalityType, FS_EmptySet
<1>4. Max(L) \in Nat /\ \A x \in L : x <= Max(L)
  <2>1. Max(L) \in L /\ \A x \in L : Max(L) >= x
    BY Largest DEF IsLimit, Numbers
  <2>2. Max(L) \in Int /\ Max(L) >= 0
    BY <2>1 DEF IsLimit
  <2>3. \A x \in L : x \in Int
    BY DEF IsLimit
  <2> HIDE DEF IsLimit
  <2> QED
    BY <2>1, <2>2, <2>3
<1>5. pct \in Nat /\ (\A t \in times : used[t] <= pct) /\ \E t \in times : used[t] = pct
  <2> DEFINE U == {used[t] : t \in times}
  <2>1. IsFiniteSet(U)
    BY <1>2, FiniteImage
  <2>2. U # {} /\ U \subseteq Nat /\ \A t \in times : used[t] \in U
    <3>1. times # {}
      BY DEF times
    <3> QED
      BY <1>2, <3>1
  <2>3. \A x \in U : \E t \in times : used[t] = x
    OBVIOUS
  <2>4. pct = Max(U)
    OBVIOUS
  <2> HIDE DEF U, pct
  <2>5. Numbers(U)
    BY <2>2 DEF Numbers
  <2>6. Max(U) \in U /\ \A x \in U : Max(U) >= x
    BY <2>1, <2>2, <2>5, Largest
  <2> QED
    BY <2>2, <2>3, <2>4, <2>6
<1> HIDE DEF pct
<1>6. \A t \in active : DwuAt(used, limit, t) \in Int /\ DwuAt(used, limit, t) <= Max(L) * pct
  <2>1. SUFFICES ASSUME NEW t \in active
                 PROVE  DwuAt(used, limit, t) \in Int /\ DwuAt(used, limit, t) <= Max(L) * pct
    OBVIOUS
  <2> DEFINE l == IF t \in DOMAIN limit THEN limit[t] ELSE 0
             u == used[t]
  <2>2. l \in L
    BY DEF IsLimit
  <2>3. u \in Nat /\ u <= pct
    BY <1>2, <1>5
  <2>4. DwuAt(used, limit, t) = l * u
    BY DEF DwuAt
  <2> HIDE DEF l, u
  <2>5. l \in Int /\ l <= Max(L)
    BY <1>4, <2>2 DEF IsLimit
  <2>6. l * u <= Max(L) * pct /\ l * u \in Int
    BY <1>4, <1>5, <2>3, <2>5, ProductUp
  <2> QED
    BY <2>4, <2>6
<1>7. peak \in Nat /\ (\A t \in active : DwuAt(used, limit, t) <= peak) /\ peak <= Max(L) * pct
  <2> DEFINE D == {DwuAt(used, limit, t) : t \in active}
             E == {0} \cup D
  <2>1. IsFiniteSet(D)
    <3> DEFINE f(t) == DwuAt(used, limit, t)
               g == [t \in active |-> f(t)]
    <3>1. {g[t] : t \in active} = D
      OBVIOUS
    <3> HIDE DEF g, D
    <3>2. IsFiniteSet({g[t] : t \in active})
      BY <1>2, FiniteImage
    <3> QED
      BY <3>1, <3>2
  <2>2. \A x \in D : x \in Int /\ x <= Max(L) * pct
    BY <1>6
  <2>3. \A t \in active : DwuAt(used, limit, t) \in D
    OBVIOUS
  <2>4. peak = Max(E)
    OBVIOUS
  <2> HIDE DEF D, peak
  <2>5. IsFiniteSet(E) /\ E # {} /\ Numbers(E) /\ 0 \in E
    <3>1. Numbers(E)
      BY <2>2 DEF Numbers
    <3>2. IsFiniteSet({0})
      BY FS_Singleton
    <3>3. IsFiniteSet(E)
      BY <2>1, <3>2, FS_Union
    <3> QED
      BY <3>1, <3>3
  <2>6. Max(E) \in E /\ \A x \in E : Max(E) >= x
    BY <2>5, Largest
  <2>7. Max(L) * pct \in Nat
    BY <1>4, <1>5
  <2> DEFINE bound == Max(L) * pct
  <2> HIDE DEF bound
  <2>8. \A x \in E : x \in Int /\ x <= bound
    BY <2>2, <2>7 DEF bound
  <2> HIDE DEF E
  <2>9. Max(E) \in Nat /\ Max(E) <= bound
    BY <2>5, <2>6, <2>8
  <2>10. \A t \in active : DwuAt(used, limit, t) \in E
    BY <2>3 DEF E
  <2>11. \A t \in active : DwuAt(used, limit, t) <= Max(E)
    BY <2>6, <2>8, <2>9, <2>10
  <2> QED
    BY <2>4, <2>9, <2>11 DEF bound
<1> HIDE DEF peak
<1>8. SumOfAll(dwu) \in Int /\ SumOfAll(dwu) <= peak * c
  <2> DEFINE most == [t \in active |-> peak]
  <2>1. DOMAIN dwu = active /\ \A t \in active : dwu[t] = DwuAt(used, limit, t)
    OBVIOUS
  <2>2. \A t \in active : dwu[t] \in Int /\ most[t] \in Int /\ dwu[t] <= most[t]
    BY <1>6, <1>7, <2>1
  <2>3. \A t \in active : most[t] = peak
    OBVIOUS
  <2> HIDE DEF dwu, most
  <2>4. SumOfAll(dwu) = Total(dwu, DOMAIN dwu)
    BY Zenon DEF SumOfAll, Total
  <2>5. Total(dwu, active) \in Int
    BY <1>2, <2>2, TotalInt
  <2>6. Total(dwu, active) <= Total(most, active)
    BY <1>2, <2>2, TotalOrder
  <2>7. Total(most, active) = peak * Cardinality(active)
    BY <1>2, <1>7, <2>3, TotalConst
  <2> QED
    BY <2>1, <2>4, <2>5, <2>6, <2>7
<1> HIDE DEF dwu
<1>9. minutes * c <= minutes * Cardinality(times)
  BY <1>3, TimesMore
<1>10. minutes * SumOfAll(dwu) <= (minutes * c) * peak
  <2>1. peak * c \in Int
    BY <1>3, <1>7
  <2>2. minutes * SumOfAll(dwu) <= minutes * (peak * c)
    BY <1>8, <2>1, TimesMore
  <2>3. minutes * (peak * c) = (minutes * c) * peak
    BY <1>3, <1>7
  <2> QED
    BY <2>2, <2>3
<1>11. minutes * c > 0 <=> pct > Threshold
  <2>1. active # {} <=> pct > Threshold
    <3>1. Threshold = 5
      BY DEF Threshold
    <3> QED
      BY <1>2, <1>5, <3>1
  <2>2. minutes * c > 0 <=> c > 0
    <3> HIDE DEF c
    <3>1. CASE c = 0
      BY <3>1
    <3>2. CASE c # 0
      <4>1. c >= 1 /\ c \in Nat
        BY <1>3, <3>2
      <4>2. minutes * 1 <= minutes * c /\ minutes * c \in Int
        BY <4>1, TimesMore
      <4> QED
        BY <4>1, <4>2
    <3> QED
      BY <3>1, <3>2
  <2> QED
    BY <1>3, <2>1, <2>2
<1> HIDE DEF c
<1> QED
  BY <1>1, <1>7, <1>9, <1>10, <1>11, Zenon DEF DayTold, c, times, d

-----------------------------------------------------------------------------
(* Monitoring: the series of a pool, and its days.                         *)

PointsSound(points) ==
  points \in Seq(Range(points)) /\ \A p \in Range(points) : p.at \in Nat /\ p.value \in Nat \cup {NoValue}
TimesOf(points) == {p.at : p \in {q \in Range(points) : q.value # NoValue}}
LEMMA NoPoints == PointsSound(<<>>) /\ TimesOf(<<>>) = {} /\ Range(<<>>) = {}
<1>1. Range(<<>>) = {}
  BY DEF Range
<1> QED
  BY <1>1 DEF PointsSound, TimesOf

LEMMA ValuesSound == ASSUME NEW points, PointsSound(points) PROVE IsValues(ValuesOf(points)) /\ DOMAIN ValuesOf(points) = WithValue(points)
<1>1. DOMAIN points = 1..Len(points) /\ Len(points) \in Nat
  BY DEF PointsSound
<1>2. IsFiniteSet(WithValue(points)) /\ WithValue(points) \subseteq DOMAIN points
  <2>1. IsFiniteSet(1..Len(points)) /\ WithValue(points) \subseteq DOMAIN points
    BY <1>1, FS_Interval DEF WithValue
  <2> QED
    BY <1>1, <2>1, FS_Subset
<1>3. \A i \in WithValue(points) : points[i].value \in Nat
  BY DEF WithValue, PointsSound, Range
<1>4. DOMAIN ValuesOf(points) = WithValue(points) /\ \A i \in WithValue(points) : ValuesOf(points)[i] = points[i].value
  BY DEF ValuesOf
<1> QED
  BY <1>2, <1>3, <1>4 DEF IsValues

\* By time, one value of each.
LEMMA ByTimeIs ==
    ASSUME NEW points, PointsSound(points)
    PROVE  /\ IsUse(ByTime(points)) /\ DOMAIN ByTime(points) = TimesOf(points)
           /\ \A t \in TimesOf(points) : \E p \in Range(points) : ByTime(points)[t] = p.value
<1> DEFINE K == WithValue(points)
           At(t) == {i \in K : points[i].at = t}
           at == [i \in K |-> points[i].at]
<1>1. /\ IsFiniteSet(K) /\ K \subseteq Nat
      /\ \A i \in K : points[i] \in Range(points) /\ points[i].at \in Nat /\ points[i].value \in Nat
  <2>1. DOMAIN points = 1..Len(points) /\ Len(points) \in Nat
    BY DEF PointsSound
  <2>2. IsFiniteSet(K)
    BY ValuesSound DEF IsValues
  <2>3. \A i \in K : i \in Nat /\ points[i] \in Range(points) /\ points[i].at \in Nat /\ points[i].value \in Nat
    BY <2>1 DEF WithValue, PointsSound, Range
  <2> QED
    BY <2>2, <2>3
<1>2. TimesOf(points) = {points[i].at : i \in K}
  BY DEF TimesOf, WithValue, Range
<1>3. ByTime(points) = [t \in {points[i].at : i \in K} |-> points[Max(At(t))].value]
  BY Zenon DEF ByTime
<1>4. IsFiniteSet(TimesOf(points))
  <2>1. {at[i] : i \in K} = {points[i].at : i \in K}
    OBVIOUS
  <2> HIDE DEF at, K
  <2>2. IsFiniteSet({at[i] : i \in K})
    BY <1>1, FiniteImage
  <2> QED
    BY <1>2, <2>1, <2>2
<1>5. ASSUME NEW t \in TimesOf(points)
      PROVE  Max(At(t)) \in K
  <2>1. At(t) # {} /\ At(t) \subseteq K
    BY <1>2, <1>5
  <2> HIDE DEF K, At
  <2>2. IsFiniteSet(At(t)) /\ Numbers(At(t))
    <3>1. IsFiniteSet(At(t))
      BY <1>1, <2>1, FS_Subset
    <3>2. At(t) \subseteq Int
      <4>1. \A i \in K : i \in Int
        BY <1>1
      <4> QED
        BY <2>1, <4>1, Zenon
    <3>3. Numbers(At(t))
      BY <3>2, Zenon DEF Numbers
    <3> QED
      BY <3>1, <3>3
  <2>3. Max(At(t)) \in At(t)
    BY <2>1, <2>2, Largest
  <2> QED
    BY <2>1, <2>3
<1>6. DOMAIN ByTime(points) = TimesOf(points)
  BY <1>2, <1>3
<1>7. \A t \in TimesOf(points) : ByTime(points)[t] = points[Max(At(t))].value
  BY <1>2, <1>3
<1> HIDE DEF K, At
<1>8. \A t \in TimesOf(points) : t \in Nat /\ ByTime(points)[t] \in Nat /\ \E p \in Range(points) : ByTime(points)[t] = p.value
  BY <1>1, <1>2, <1>5, <1>7
<1> QED
  BY <1>4, <1>6, <1>8 DEF IsUse

\* The points of a pool of the scope.
LEMMA PoolPoints ==
    ASSUME NEW s \in MonScopes, NEW pool \in Range(s.pools), NEW metric
    PROVE  PointsSound(PointsOf(pool, metric))
<1>1. PoolsKnown(s.pools)
  BY MonitoringAssumption
<1>2. CASE metric \in DOMAIN pool.points
  <2>1. PointsOf(pool, metric) = pool.points[metric]
    BY <1>2 DEF PointsOf
  <2>2. PointsSound(pool.points[metric])
    BY <1>1, <1>2, Zenon DEF PoolsKnown, PointsSound
  <2> QED
    BY <2>1, <2>2
<1>3. CASE metric \notin DOMAIN pool.points
  BY <1>3, NoPoints DEF PointsOf
<1> QED
  BY <1>2, <1>3

\* The use and the limit have one name each, in a workspace and of a server.
LEMMA NamesShown ==
    ASSUME NEW s, s.standalone \in BOOLEAN, NEW m \in MetricsOf(s)
    PROVE  /\ DisplayName(s, m) = "DWUUsedPercent" <=> m = RawUsed(s)
           /\ DisplayName(s, m) = "DWULimit" <=> m = RawLimit(s)
<1>1. CASE ~s.standalone
  <2>1. DisplayName(s, m) = m /\ RawUsed(s) = "DWUUsedPercent" /\ RawLimit(s) = "DWULimit"
    BY <1>1 DEF DisplayName, RawUsed, RawLimit
  <2> QED
    BY <2>1
<1>2. CASE s.standalone
  <2>1. RawUsed(s) = "dwu_consumption_percent" /\ RawLimit(s) = "dwu_limit"
    BY <1>2 DEF RawUsed, RawLimit
  <2>2. DOMAIN WorkspaceName = {"dwu_limit", "dwu_used", "dwu_consumption_percent", "active_queries", "queued_queries",
                                "connection_successful", "blocked_by_firewall", "memory_usage_percent", "cpu_percent"}
    BY DEF WorkspaceName
  <2>3. CASE m \in DOMAIN WorkspaceName
    <3>1. DisplayName(s, m) = WorkspaceName[m]
      BY <1>2, <2>3 DEF DisplayName
    <3>2. /\ WorkspaceName[m] = "DWUUsedPercent" <=> m = "dwu_consumption_percent"
          /\ WorkspaceName[m] = "DWULimit" <=> m = "dwu_limit"
      BY <2>2, <2>3 DEF WorkspaceName
    <3> QED
      BY <2>1, <3>1, <3>2
  <2>4. CASE m \notin DOMAIN WorkspaceName
    <3>1. m = "connection_failed"
      BY <1>2, <2>4 DEF MetricsOf, StandaloneMetrics
    <3>2. DisplayName(s, m) = m
      BY <2>4 DEF DisplayName
    <3> QED
      BY <2>1, <3>1, <3>2
  <2> QED
    BY <2>3, <2>4
<1> QED
  BY <1>1, <1>2

\* The pools of the report, and what was asked of each.
LEMMA PoolsOfReport ==
    ASSUME MonInv, NEW i \in DOMAIN poolList
    PROVE  /\ Listed(i) \in Range(monScope.pools) /\ monScope \in MonScopes /\ monScope.standalone \in BOOLEAN
           /\ \A j \in DOMAIN poolList : Listed(j).name = Listed(i).name => j = i
           /\ asking[i].names \subseteq MetricsOf(monScope) /\ poolList # <<>> /\ DOMAIN asking = DOMAIN poolList
           /\ asking[i].phase = "got" => asking[i].names = Supported(i)
<1>1. monScope \in MonScopes /\ poolList \in {<<>>, ListedPools(monScope)}
  BY DEF MonInv, MonWhere
<1>2. poolList # <<>>
  OBVIOUS
<1>3. poolList = ListedPools(monScope)
  BY <1>1, <1>2
<1>4. poolList \in Seq(Range(monScope.pools)) /\ \A k, l \in DOMAIN poolList : poolList[k].name = poolList[l].name => k = l
  BY <1>1, <1>3, ListedKnown
<1>5. poolList[i] \in Range(monScope.pools)
  BY <1>4
<1>6. DOMAIN asking = DOMAIN poolList /\ AskingSound(i)
  BY DEF MonInv, MonAsking
<1>7. asking[i].names \subseteq MetricsOf(monScope) /\ (asking[i].phase = "got" => asking[i].names = Supported(i))
  BY <1>6 DEF AskingSound, AskingRow
<1>8. monScope.standalone \in BOOLEAN
  BY <1>1, MonitoringAssumption
<1> QED
  BY <1>1, <1>2, <1>4, <1>5, <1>6, <1>7, <1>8 DEF Listed

\* What a metric is in the report, as far as it is there: its points.
LEMMA IndexedIs ==
    ASSUME MonInv, NEW i \in DOMAIN poolList, asking[i].phase = "got", NEW shown, NEW raw,
           \A m \in MetricsOf(monScope) : DisplayName(monScope, m) = shown <=> m = raw
    PROVE  Indexed(SeriesAnswered, Listed(i).name, shown) = ByTime(IF raw \in Supported(i) THEN PointsOf(Listed(i), raw) ELSE <<>>)
<1> DEFINE name == Listed(i).name
           of == {s \in SeriesAnswered : s.pool = name /\ s.metric = shown}
           points == PointsOf(Listed(i), raw)
           one == BuildSeries(name, shown, points)
<1>1. /\ asking[i].names = Supported(i) /\ Supported(i) \subseteq MetricsOf(monScope) /\ DOMAIN asking = DOMAIN poolList
      /\ \A j \in DOMAIN poolList : Listed(j).name = name => j = i
  BY PoolsOfReport
<1>2. ASSUME NEW s \in of PROVE s = one /\ raw \in Supported(i)
  <2>1. PICK j \in DOMAIN asking : asking[j].phase = "got" /\ s \in SeriesOf(j)
    BY <1>2 DEF SeriesAnswered
  <2>2. PICK m \in asking[j].names : s = BuildSeries(Listed(j).name, DisplayName(monScope, m), PointsOf(Listed(j), m))
    BY <2>1 DEF SeriesOf
  <2>3. s.pool = Listed(j).name /\ s.metric = DisplayName(monScope, m)
    BY <2>2 DEF BuildSeries
  <2>4. j = i
    BY <1>1, <1>2, <2>3
  <2>5. m \in MetricsOf(monScope) /\ m \in Supported(i)
    BY <1>1, <2>4
  <2>6. DisplayName(monScope, m) = shown
    BY <1>2, <2>3
  <2>7. m = raw
    BY <2>5, <2>6
  <2> QED
    BY <2>2, <2>4, <2>5, <2>6, <2>7
<1>3. ASSUME raw \in Supported(i) PROVE one \in of
  <2>1. raw \in asking[i].names /\ DisplayName(monScope, raw) = shown
    BY <1>1, <1>3
  <2>2. one \in SeriesOf(i)
    BY <2>1 DEF SeriesOf
  <2>3. one \in SeriesAnswered
    BY <1>1, <2>2 DEF SeriesAnswered
  <2>4. one.pool = name /\ one.metric = shown
    BY DEF BuildSeries
  <2> QED
    BY <2>3, <2>4
<1>4. one.points = points
  BY DEF BuildSeries
<1>5. Indexed(SeriesAnswered, name, shown) = ByTime(IF of = {} THEN <<>> ELSE (CHOOSE s \in of : TRUE).points)
  BY Zenon DEF Indexed
<1> HIDE DEF name, one, points, of
<1>6. (IF of = {} THEN <<>> ELSE (CHOOSE s \in of : TRUE).points) = (IF raw \in Supported(i) THEN points ELSE <<>>)
  <2>1. CASE raw \in Supported(i)
    <3>1. of # {} /\ (CHOOSE s \in of : TRUE) \in of
      BY <1>3, <2>1
    <3>2. (CHOOSE s \in of : TRUE) = one
      BY <1>2, <3>1
    <3> QED
      BY <1>4, <2>1, <3>1, <3>2
  <2>2. CASE raw \notin Supported(i)
    <3>1. of = {}
      BY <1>2, <2>2
    <3> QED
      BY <2>2, <3>1
  <2> QED
    BY <2>1, <2>2
<1> QED
  BY <1>5, <1>6, Zenon DEF name, points

\* The days of a pool, each once.
LEMMA DaysTold ==
    ASSUME NEW all, NEW pool, NEW minutes \in Nat \ {0}, NEW used, NEW limit, NEW L,
           used = Indexed(all, pool, "DWUUsedPercent"), limit = Indexed(all, pool, "DWULimit"), IsUse(used), IsLimit(limit, L)
    PROVE  /\ {d.day : d \in DaysOf(all, pool, minutes)} = {DayIn(t) : t \in DOMAIN used}
           /\ Cardinality(DaysOf(all, pool, minutes)) = Cardinality({d.day : d \in DaysOf(all, pool, minutes)})
           /\ \A d \in DaysOf(all, pool, minutes) : DayTold(d, pool, d.day, used, L, minutes)
<1> DEFINE days == {DayIn(t) : t \in DOMAIN used}
           row == [day \in days |-> DwuDay(pool, day, used, limit, minutes)]
           rows == {row[day] : day \in days}
           dayOf == [r \in rows |-> r.day]
           shown == {dayOf[r] : r \in rows}
<1>1. DaysOf(all, pool, minutes) = {DwuDay(pool, day, used, limit, minutes) : day \in days}
  BY Zenon DEF DaysOf
<1>2. DaysOf(all, pool, minutes) = rows
  BY <1>1
<1>3. ASSUME NEW day \in days
      PROVE  DayTold(row[day], pool, day, used, L, minutes)
  <2>1. row[day] = DwuDay(pool, day, used, limit, minutes)
    OBVIOUS
  <2>2. TimesOn(used, day) # {}
    BY DEF TimesOn
  <2> HIDE DEF row, days
  <2> QED
    BY <2>1, <2>2, DayOf
<1>4. IsFiniteSet(days)
  <2> DEFINE f == [t \in DOMAIN used |-> DayIn(t)]
  <2>1. {f[t] : t \in DOMAIN used} = days
    OBVIOUS
  <2> HIDE DEF f, days
  <2>2. IsFiniteSet(DOMAIN used)
    BY DEF IsUse
  <2>3. IsFiniteSet({f[t] : t \in DOMAIN used})
    BY <2>2, FiniteImage
  <2> QED
    BY <2>1, <2>3
<1> HIDE DEF days, row
<1>5. \A day \in days : row[day].day = day
  BY <1>3 DEF DayTold
<1>6. IsFiniteSet(rows) /\ Cardinality(rows) <= Cardinality(days)
  BY <1>4, FiniteImage
<1>7. shown = days /\ shown = {d.day : d \in rows}
  <2>1. shown = {d.day : d \in rows}
    OBVIOUS
  <2>2. {d.day : d \in rows} = days
    BY <1>5
  <2> QED
    BY <2>1, <2>2
<1>8. \A d \in rows : DayTold(d, pool, d.day, used, L, minutes)
  BY <1>3, <1>5
<1> HIDE DEF rows, dayOf
<1>9. IsFiniteSet(shown) /\ Cardinality(shown) <= Cardinality(rows)
  BY <1>6, FiniteImage
<1> HIDE DEF shown
<1>10. Cardinality(rows) = Cardinality(shown)
  <2>1. Cardinality(rows) \in Nat /\ Cardinality(days) \in Nat
    BY <1>4, <1>6, FS_CardinalityType
  <2> QED
    BY <1>6, <1>7, <1>9, <2>1
<1> QED
  BY <1>2, <1>7, <1>8, <1>10 DEF days

\* The rows of one pool are those made of its series.
LEMMA RowsOfPool ==
    ASSUME NEW all, NEW interval, NEW pool
    PROVE  {d \in DeriveDwuDays(all, interval) : d.pool = pool} = DaysOf(all, pool, Minutes(interval))
<1> DEFINE minutes == Minutes(interval)
           pools == {s.pool : s \in all}
<1>1. ASSUME NEW q, NEW d \in DaysOf(all, q, minutes) PROVE d.pool = q
  <2>1. PICK day : d = DwuDay(q, day, Indexed(all, q, "DWUUsedPercent"), Indexed(all, q, "DWULimit"), minutes)
    BY Zenon DEF DaysOf
  <2> QED
    BY <2>1 DEF DwuDay
<1>2. pool \notin pools => DaysOf(all, pool, minutes) = {}
  <2>1. SUFFICES ASSUME pool \notin pools PROVE DaysOf(all, pool, minutes) = {}
    OBVIOUS
  <2>2. {s \in all : s.pool = pool /\ s.metric = "DWUUsedPercent"} = {}
    BY <2>1
  <2>3. Indexed(all, pool, "DWUUsedPercent") = ByTime(<<>>)
    BY <2>2 DEF Indexed
  <2>4. DOMAIN ByTime(<<>>) = {}
    BY NoPoints, ByTimeIs
  <2> QED
    BY <2>3, <2>4 DEF DaysOf
<1>3. DeriveDwuDays(all, interval) = UNION {DaysOf(all, q, minutes) : q \in pools}
  BY Zenon DEF DeriveDwuDays
<1> HIDE DEF minutes, pools
<1>4. {d \in DeriveDwuDays(all, interval) : d.pool = pool} = DaysOf(all, pool, minutes)
  BY <1>1, <1>2, <1>3
<1> QED
  BY <1>4 DEF minutes

\* One pool's days are those it was measured on.
LEMMA DaysOfPool == ASSUME MonInv, monStage = "done", NEW i \in DOMAIN poolList, asking[i].phase = "got" PROVE PoolMeasured(i)
<1> DEFINE name == Listed(i).name
           minutes == Minutes(monScope.interval)
           usedPoints == IF RawUsed(monScope) \in Supported(i) THEN PointsOf(Listed(i), RawUsed(monScope)) ELSE <<>>
           limitPoints == IF RawLimit(monScope) \in Supported(i) THEN PointsOf(Listed(i), RawLimit(monScope)) ELSE <<>>
           use == ByTime(usedPoints)
           limit == ByTime(limitPoints)
           used == UsedTimes(i)
           limits == LimitsHeld(i)
           rows == RowsHeld(i)
<1>1. /\ Listed(i) \in Range(monScope.pools) /\ monScope \in MonScopes /\ monScope.standalone \in BOOLEAN /\ poolList # <<>>
  BY PoolsOfReport
<1>2. dwuDays = DeriveDwuDays(SeriesAnswered, monScope.interval)
  BY <1>1 DEF MonInv, MonReported
<1>3. PointsSound(usedPoints) /\ PointsSound(limitPoints)
  BY <1>1, NoPoints, PoolPoints
<1>4. Indexed(SeriesAnswered, name, "DWUUsedPercent") = use
  <2>1. \A m \in MetricsOf(monScope) : DisplayName(monScope, m) = "DWUUsedPercent" <=> m = RawUsed(monScope)
    BY <1>1, NamesShown
  <2> QED
    BY <2>1, IndexedIs, Zenon
<1>5. Indexed(SeriesAnswered, name, "DWULimit") = limit
  <2>1. \A m \in MetricsOf(monScope) : DisplayName(monScope, m) = "DWULimit" <=> m = RawLimit(monScope)
    BY <1>1, NamesShown
  <2> QED
    BY <2>1, IndexedIs, Zenon
<1>6. used = TimesOf(usedPoints)
  <2>1. CASE RawUsed(monScope) \in Supported(i)
    BY <2>1, Zenon DEF TimesOf, MeasuredAt, UsedTimes
  <2>2. CASE RawUsed(monScope) \notin Supported(i)
    BY <2>2, NoPoints, Zenon DEF UsedTimes
  <2> QED
    BY <2>1, <2>2
<1>7. limits = {0} \cup {p.value : p \in Range(limitPoints)}
  <2>1. CASE RawLimit(monScope) \in Supported(i)
    BY <2>1, Zenon DEF LimitsHeld
  <2>2. CASE RawLimit(monScope) \notin Supported(i)
    BY <2>2, NoPoints, Zenon DEF LimitsHeld
  <2> QED
    BY <2>1, <2>2
<1> HIDE DEF usedPoints, limitPoints, name, minutes, used, limits, rows
<1>8. IsUse(use) /\ DOMAIN use = used
  BY <1>3, <1>6, ByTimeIs
<1>9. IsLimit(limit, limits)
  <2> DEFINE R == Range(limitPoints)
             value == [p \in R |-> p.value]
             V == {value[p] : p \in R}
  <2>1. limits = {0} \cup V
    BY <1>7
  <2>2. IsFiniteSet(R) /\ \A p \in R : p.value \in Int
    <3>1. DOMAIN limitPoints = 1..Len(limitPoints) /\ Len(limitPoints) \in Nat
      BY <1>3 DEF PointsSound
    <3>2. IsFiniteSet(DOMAIN limitPoints)
      BY <3>1, FS_Interval
    <3>3. \A p \in R : p.value \in Int
      BY <1>3 DEF PointsSound, NoValue
    <3> QED
      BY <3>2, <3>3, RangeFinite
  <2>3. \A t \in DOMAIN limit : limit[t] \in V
    BY <1>3, ByTimeIs
  <2>4. V \subseteq Int
    BY <2>2
  <2> HIDE DEF value, R
  <2>5. IsFiniteSet(V)
    BY <2>2, FiniteImage
  <2> HIDE DEF V
  <2>6. IsFiniteSet({0})
    BY FS_Singleton
  <2>7. IsFiniteSet({0} \cup V)
    BY <2>5, <2>6, FS_Union
  <2>8. limits \subseteq Int /\ 0 \in limits /\ IsFiniteSet(limits)
    BY <2>1, <2>4, <2>7
  <2>9. \A t \in DOMAIN limit : limit[t] \in limits
    BY <2>1, <2>3
  <2> QED
    BY <2>8, <2>9, Zenon DEF IsLimit
<1>10. minutes \in Nat \ {0}
  BY MinutesPositive DEF minutes
<1>11. rows = DaysOf(SeriesAnswered, name, minutes)
  <2>1. {d \in DeriveDwuDays(SeriesAnswered, monScope.interval) : d.pool = name} = DaysOf(SeriesAnswered, name, Minutes(monScope.interval))
    BY RowsOfPool
  <2> QED
    BY <1>2, <2>1, Zenon DEF minutes, name, rows, RowsHeld
<1> HIDE DEF use, limit
<1>12. /\ {d.day : d \in rows} = {DayIn(t) : t \in DOMAIN use} /\ Cardinality(rows) = Cardinality({d.day : d \in rows})
       /\ \A d \in rows : DayTold(d, name, d.day, use, limits, minutes)
  <2>1. use = Indexed(SeriesAnswered, name, "DWUUsedPercent") /\ limit = Indexed(SeriesAnswered, name, "DWULimit")
    BY <1>4, <1>5
  <2> QED
    BY <1>8, <1>9, <1>10, <1>11, <2>1, DaysTold
<1>13. ASSUME NEW d \in rows
       PROVE  /\ d.activeMinutes <= minutes * Cardinality({t \in used : DayIn(t) = d.day})
              /\ d.dwuMinutes <= d.activeMinutes * d.peakDwu /\ d.peakDwu <= Max(limits) * d.peakPct
              /\ (d.activeMinutes > 0 <=> d.peakPct > Threshold)
  <2>1. DayTold(d, name, d.day, use, limits, minutes)
    BY <1>12
  <2>2. TimesOn(use, d.day) = {t \in used : DayIn(t) = d.day}
    BY <1>8, Zenon DEF TimesOn
  <2> QED
    BY <2>1, <2>2, Zenon DEF DayTold
<1>14. {d.day : d \in rows} = {DayIn(t) : t \in used} /\ Cardinality(rows) = Cardinality({d.day : d \in rows})
  BY <1>8, <1>12
<1> QED
  BY <1>13, <1>14, Zenon DEF minutes, used, limits, rows, PoolMeasured

LEMMA AllAccounted == ASSUME MonInv, monStage = "done" PROVE PoolsAccounted
<1>1. SUFFICES ASSUME NEW i \in DOMAIN poolList
               PROVE  /\ asking[i].requests <= Cardinality(MetricsOf(monScope))
                      /\ <<"metrics", Listed(i).name>> \in monErrors <=> asking[i].phase = "failed"
                      /\ asking[i].phase = "failed" => \A s \in series : s.pool # Listed(i).name
                      /\ asking[i].phase = "got" => asking[i].names = Supported(i)
  BY Zenon DEF PoolsAccounted
<1>2. /\ poolList # <<>> /\ DOMAIN asking = DOMAIN poolList
      /\ asking[i].phase = "got" => asking[i].names = Supported(i)
      /\ \A j \in DOMAIN poolList : Listed(j).name = Listed(i).name => j = i
  BY PoolsOfReport
<1>3. asking[i].requests <= Cardinality(MetricsOf(monScope))
  BY DEF MonInv, MonAsking, AskingSound
<1>4. series = SeriesAnswered /\ monErrors = NotMeasured
  BY <1>2 DEF MonInv, MonReported
<1>5. <<"metrics", Listed(i).name>> \in NotMeasured <=> asking[i].phase = "failed"
  <2>1. ASSUME <<"metrics", Listed(i).name>> \in NotMeasured PROVE asking[i].phase = "failed"
    <3>1. PICK j \in DOMAIN asking : asking[j].phase = "failed" /\ <<"metrics", Listed(i).name>> = <<"metrics", Listed(j).name>>
      BY <2>1 DEF NotMeasured
    <3>2. Listed(i).name = Listed(j).name
      BY <3>1
    <3> QED
      BY <1>2, <3>1, <3>2
  <2>2. ASSUME asking[i].phase = "failed" PROVE <<"metrics", Listed(i).name>> \in NotMeasured
    BY <1>2, <2>2 DEF NotMeasured
  <2> QED
    BY <2>1, <2>2
<1>6. ASSUME asking[i].phase = "failed", NEW s \in SeriesAnswered PROVE s.pool # Listed(i).name
  <2>1. PICK j \in DOMAIN asking : asking[j].phase = "got" /\ s \in SeriesOf(j)
    BY <1>6 DEF SeriesAnswered
  <2>2. s.pool = Listed(j).name
    BY <2>1 DEF SeriesOf, BuildSeries
  <2> QED
    BY <1>2, <1>6, <2>1, <2>2
<1> QED
  BY <1>2, <1>3, <1>4, <1>5, <1>6

LEMMA AllPercentiles == ASSUME MonInv, monStage = "done" PROVE PercentilesTrue
<1>1. SUFFICES ASSUME NEW s \in series, NEW values, values = ValuesOf(s.points), DOMAIN values # {}
               PROVE  /\ s.summary.p95 \in (100 * s.summary.min)..(100 * s.summary.max)
                      /\ 100 * Cardinality({i \in DOMAIN values : 100 * values[i] > s.summary.p95}) < 5 * (Cardinality(DOMAIN values) - 1) + 100
  BY Zenon DEF PercentilesTrue
<1>2. series = SeriesAnswered
  BY DEF MonInv, MonReported
<1>3. PICK i \in DOMAIN asking : s \in SeriesOf(i)
  BY <1>2 DEF SeriesAnswered
<1>4. PICK m \in asking[i].names : s = BuildSeries(Listed(i).name, DisplayName(monScope, m), PointsOf(Listed(i), m))
  BY <1>3 DEF SeriesOf
<1> DEFINE points == PointsOf(Listed(i), m)
<1>5. s.points = points /\ s.summary = Summary(points)
  BY <1>4 DEF BuildSeries
<1>6. PointsSound(points)
  <2>1. i \in DOMAIN poolList
    BY <1>3 DEF MonInv, MonAsking
  <2> QED
    BY <2>1, PoolsOfReport, PoolPoints
<1> HIDE DEF points
<1>7. IsValues(values) /\ values = ValuesOf(points)
  BY <1>1, <1>5, <1>6, ValuesSound
<1>8. s.summary.min = Min(Range(values)) /\ s.summary.max = Max(Range(values)) /\ s.summary.p95 = P95(values)
  <2>1. Summary(points) = [min |-> Min(Range(values)), max |-> Max(Range(values)),
                           avg |-> (100 * SumOfAll(values)) \div Cardinality(DOMAIN values), p95 |-> P95(values)]
    BY <1>1, <1>7, Zenon DEF Summary
  <2> QED
    BY <1>5, <2>1
<1>9. /\ P95(values) \in (100 * Min(Range(values)))..(100 * Max(Range(values)))
      /\ 100 * Cardinality({k \in DOMAIN values : 100 * values[k] > P95(values)}) < 5 * (CountOf(values) - 1) + 100
  BY <1>1, <1>7, PercentileTold
<1> QED
  BY <1>8, <1>9, Zenon DEF CountOf

LEMMA MonitoringTold == ASSUME MonInv PROVE MetricsFaithful
<1>1. SUFFICES ASSUME monStage = "done" PROVE PoolsAccounted /\ DaysMeasured /\ PercentilesTrue
  BY Zenon DEF MetricsFaithful
<1>2. DaysMeasured
  BY <1>1, DaysOfPool DEF DaysMeasured
<1> QED
  BY <1>1, <1>2, AllAccounted, AllPercentiles

-----------------------------------------------------------------------------
(* The three analyzers together: one is at work, the others rest.          *)

MonIdle == monStage = "off" /\ DOMAIN asking = {}
SvIdle == svStage = "off" /\ connections = {} /\ DOMAIN reading = {}
StIdle == stStage = "off" /\ steps = [total |-> 0, done |-> 0] /\ DOMAIN items = {}
MeasuresInv == (MonIdle \/ MonInv) /\ (SvIdle \/ SvInv) /\ (StIdle \/ StInv)

LEMMA MonitoringIdles == ASSUME MonIdle PROVE MetricsFaithful /\ ~MonitoringNext
<1>1. monStage = "off" /\ DOMAIN asking = {}
  BY DEF MonIdle
<1>2. MetricsFaithful
  BY <1>1 DEF MetricsFaithful
<1>3. ~ListPools /\ ~ListingFails /\ ~MonitoringReport
  BY <1>1 DEF ListPools, ListingFails, MonitoringReport
<1> QED
  BY <1>1, <1>2, <1>3 DEF MonitoringNext

LEMMA ServerlessIdles == ASSUME SvIdle PROVE ServerlessTrue
<1>1. svStage = "off" /\ connections = {} /\ DOMAIN reading = {}
  BY DEF SvIdle
<1>2. SessionsClosed
  <2>1. Reading = {} /\ Cardinality({}) = 0
    BY <1>1, FS_EmptySet DEF Reading
  <2>2. Max({1, SvWorkers}) \in Nat
    BY WorkersFacts, Zenon DEF Workers
  <2>3. 0 <= 1 + Max({1, SvWorkers})
    BY <2>2
  <2> QED
    BY <1>1, <2>1, <2>3 DEF SessionsClosed
<1>3. svStage # "done"
  BY <1>1
<1> QED
  BY <1>2, <1>3, Zenon DEF ServerlessTrue, AttributedOnce, PartsAnswered

LEMMA StorageIdles == ASSUME StIdle PROVE StorageTrue /\ ~StorageNext
<1>1. stStage = "off" /\ steps = [total |-> 0, done |-> 0] /\ DOMAIN items = {}
  BY DEF StIdle
<1>2. StepsCounted
  BY <1>1 DEF StepsCounted
<1>3. StorageTrue
  BY <1>1, <1>2 DEF StorageTrue
<1>4. ~ReadWorkspace /\ ~ReadReferences /\ ~CountAccounts /\ ~ReportCapacities /\ ~ListStoragePools /\ ~ReportPools
  BY <1>1 DEF ReadWorkspace, ReadReferences, CountAccounts, ReportCapacities, ListStoragePools, ReportPools
<1>5. ~ListSubscription /\ ~ListGroup /\ ~LookUpDefault
  BY <1>1, Zenon DEF ListSubscription, ListGroup, LookUpDefault, ReadListing
<1> QED
  BY <1>1, <1>3, <1>4, <1>5 DEF StorageNext

LEMMA MeasuresBegin == ASSUME MeasuresInit PROVE MeasuresInv
<1>0. DOMAIN <<>> = {}
  OBVIOUS
<1>1. MonitoringOff => MonIdle
  BY <1>0, Zenon DEF MonitoringOff, MonIdle
<1>2. ServerlessOff => SvIdle
  BY <1>0, Zenon DEF ServerlessOff, SvIdle
<1>3. StorageOff => StIdle
  BY <1>0, Zenon DEF StorageOff, StIdle
<1> QED
  BY <1>1, <1>2, <1>3, MonitoringBegins, ServerlessBegins, StorageBegins, Zenon DEF MeasuresInit, MeasuresInv

LEMMA MeasuresStep == ASSUME MeasuresInv, MeasuresNext \/ UNCHANGED measureVars PROVE MeasuresInv'
<1>1. (UNCHANGED monVars /\ (MonIdle \/ MonInv)) => (MonIdle \/ MonInv)'
  <2>1. (UNCHANGED monVars /\ MonIdle) => MonIdle'
    BY DEF monVars, MonIdle
  <2> QED
    BY <2>1, MonitoringRests
<1>2. (UNCHANGED svVars /\ (SvIdle \/ SvInv)) => (SvIdle \/ SvInv)'
  <2>1. (UNCHANGED svVars /\ SvIdle) => SvIdle'
    BY DEF svVars, SvIdle
  <2> QED
    BY <2>1, ServerlessRests
<1>3. (UNCHANGED stVars /\ (StIdle \/ StInv)) => (StIdle \/ StInv)'
  <2>1. (UNCHANGED stVars /\ StIdle) => StIdle'
    BY DEF stVars, StIdle
  <2> QED
    BY <2>1, StorageRests
<1>4. (MonIdle \/ MonInv) /\ (SvIdle \/ SvInv) /\ (StIdle \/ StInv)
  BY DEF MeasuresInv
<1>5. CASE MonitoringNext /\ UNCHANGED <<svVars, stVars>>
  <2>1. UNCHANGED svVars /\ UNCHANGED stVars
    BY <1>5
  <2>2. MonInv'
    BY <1>4, <1>5, MonitoringIdles, MonitoringStep
  <2> QED
    BY <1>2, <1>3, <1>4, <2>1, <2>2 DEF MeasuresInv
<1>6. CASE svStage # "off" /\ ServerlessNext /\ UNCHANGED <<monVars, stVars>>
  <2>1. UNCHANGED monVars /\ UNCHANGED stVars
    BY <1>6
  <2>2. SvInv'
    BY <1>4, <1>6, ServerlessStep DEF SvIdle
  <2> QED
    BY <1>1, <1>3, <1>4, <2>1, <2>2 DEF MeasuresInv
<1>7. CASE StorageNext /\ UNCHANGED <<monVars, svVars>>
  <2>1. UNCHANGED monVars /\ UNCHANGED svVars
    BY <1>7
  <2>2. StInv'
    BY <1>4, <1>7, StorageIdles, StorageStep
  <2> QED
    BY <1>1, <1>2, <1>4, <2>1, <2>2 DEF MeasuresInv
<1>8. CASE UNCHANGED measureVars
  <2>1. UNCHANGED monVars /\ UNCHANGED svVars /\ UNCHANGED stVars
    BY <1>8 DEF measureVars
  <2> QED
    BY <1>1, <1>2, <1>3, <1>4, <2>1 DEF MeasuresInv
<1> QED
  BY <1>5, <1>6, <1>7, <1>8 DEF MeasuresNext

\* What is measured of a workspace is what was there. Of every pool the report has
\* each metric Azure Monitor knows, under the name of a workspace, or an error,
\* and its days are those it was used on; a serverless report charges no
\* request twice and closes what it opened; an account the workspace refers to is
\* found unless the listing that broke off was the last to hold it, and a service or
\* a pool that fails takes nothing else with it. This holds for any number of
\* pools, metrics, databases, requests, accounts and workers, and whatever fails.
THEOREM MeasuresAreTrue == MeasuresSpec => []MeasuresTrue
<1>1. MeasuresInit => MeasuresInv
  BY MeasuresBegin
<1>2. MeasuresInv /\ [MeasuresNext]_measureVars => MeasuresInv'
  BY MeasuresStep
<1>3. MeasuresInv => MeasuresTrue
  BY MonitoringIdles, MonitoringTold, ServerlessIdles, ServerlessTold, StorageIdles, StorageTold DEF MeasuresInv, MeasuresTrue
<1> QED
  BY <1>1, <1>2, <1>3, PTL DEF MeasuresSpec
====
