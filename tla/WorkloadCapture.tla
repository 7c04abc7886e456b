--------------------------- MODULE WorkloadCapture ---------------------------
(***************************************************************************)
(* The workload capture of one dedicated pool: the requests in the pool's   *)
(* rolling buffer are parsed, merged into a cache on disk that outlives the *)
(* buffer, and the tables and views of all cached requests are ranked.      *)
(***************************************************************************)
EXTENDS Integers, Sequences, FiniteSets, FiniteSetsExt

CONSTANTS Commands,      \* texts of requests: sequences of references, or Garbage
          Garbage,       \* a text sqlglot refuses
          PoolObjects,   \* rows of workload_catalog: [schema, name, type]
          BufferSize,    \* requests the DMV holds
          LookbackDays, TtlDays,
          SharedOutput,  \* whether runs share one output directory (the CLI) or not (the web)
          MaxRequests, MaxDay, MaxDamage   \* bounds

ASSUME CaptureAssumption ==
  /\ BufferSize \in Nat /\ LookbackDays \in Nat /\ TtlDays \in Nat /\ SharedOutput \in BOOLEAN
  /\ MaxRequests \in Nat /\ MaxDay \in Nat /\ MaxDamage \in Nat
  /\ Commands \ {Garbage} \subseteq Seq([schema : STRING, name : STRING, cte : BOOLEAN, temp : BOOLEAN])
  /\ \A o \in PoolObjects : o.schema # "none"

VARIABLES captureDay,    \* today
          issued,        \* every request of the pool, in order: [day, command, elapsed, running]
          dmv,           \* numbers of the requests sys.dm_pdw_exec_requests still shows
          workloadFile,  \* entries of the cache file, or why it has none
          consumed,      \* top_consumed_objects and workload_capture_stats of the latest run
          stored,        \* history: requests captured by runs that wrote the file, since its last damage
          reported,         \* history: those of the latest run and stored ones before it
          damaged        \* times the file was damaged

capVars == <<captureDay, issued, dmv, workloadFile, consumed, stored, reported, damaged>>

NoFile == [state |-> "missing", entries |-> {}]
ParseStatuses == {"ok", "failed", "empty"}
Nothing == [rows |-> {}, total |-> -1, seen |-> 0, parsed |-> [s \in ParseStatuses |-> 0],
            oldest |-> -1, newest |-> -1, day |-> 0]

-----------------------------------------------------------------------------
\* workload_parser: what one command refers to.

Objects == {<<o.schema, o.name>> : o \in PoolObjects}
Owners(name) == {o \in Objects : o[2] = name}

\* A reference to a common table expression, a temporary table or a name outside
\* the catalogue is dropped; a bare name of several schemas counts for each.
Resolve(ref) ==
  CASE ref.schema = "none" /\ (ref.cte \/ ref.temp) -> {}
    [] ref.schema # "none" -> {o \in Objects : o = <<ref.schema, ref.name>>}
    [] OTHER -> Owners(ref.name)
MatchKind(ref) ==
  CASE ref.schema # "none" -> "qualified"
    [] ref.schema = "none" /\ Cardinality(Owners(ref.name)) = 1 -> "unqualified-resolved"
    [] OTHER -> "ambiguous"

\* Each object once, as its first reference matched it.
ParseCommand(command) ==
  IF command = Garbage THEN {}
  ELSE {[object |-> o, kind |-> MatchKind(command[Min({i \in DOMAIN command : o \in Resolve(command[i])})])] :
          o \in UNION {Resolve(command[i]) : i \in DOMAIN command}}
ParseStatus(command) == CASE command = Garbage -> "failed"
                          [] command # Garbage /\ ParseCommand(command) = {} -> "empty"
                          [] OTHER -> "ok"

\* An entry of the cache: what the request was when it was first captured.
CacheEntry(i) == [request |-> i, day |-> issued[i].day, elapsed |-> issued[i].elapsed,
             status |-> ParseStatus(issued[i].command), tables |-> ParseCommand(issued[i].command)]

-----------------------------------------------------------------------------
\* workload_cache.

\* A missing, unparseable or outdated file is an empty cache.
Load(file) == IF file.state = "ok" THEN file.entries ELSE {}
RequestIds(entries) == {e.request : e \in entries}

\* Existing entries win.
Merge(existing, new) == existing \cup {e \in new : e.request \notin RequestIds(existing)}

\* Mutant: an entry on the last day of its time is dropped.
PruneEarly(entries) == {e \in entries : e.day > captureDay - TtlDays}

Prune(entries) == {e \in entries : e.day >= captureDay - TtlDays}
Saved(entries) == [state |-> "ok", entries |-> entries]
Bound(entries, Pick(_)) == IF entries = {} THEN -1 ELSE Pick({e.day : e \in entries})

-----------------------------------------------------------------------------
\* The ranking: one row per object over the whole cache.

WorstKind(kinds) ==
  CASE "ambiguous" \in kinds -> "ambiguous"
    [] "ambiguous" \notin kinds /\ "qualified" \in kinds -> "qualified"
    [] OTHER -> "unqualified-resolved"

\* Mutant: a request counts for the objects of one name in every schema.
RankByName(entries) ==
  {LET touching == {e \in entries : \E t \in e.tables : t.object[2] = o[2]}
   IN [object |-> o, count |-> Cardinality(touching), elapsed |-> MapThenSumSet(LAMBDA e : e.elapsed, touching),
       kind |-> WorstKind(UNION {{t.kind : t \in e.tables} : e \in touching})] :
     o \in UNION {{t.object : t \in e.tables} : e \in entries}}

RankObjects(entries) ==
  {LET touching == {e \in entries : \E t \in e.tables : t.object = o}
   IN [object |-> o, count |-> Cardinality(touching), elapsed |-> MapThenSumSet(LAMBDA e : e.elapsed, touching),
       kind |-> WorstKind(UNION {{t.kind : t \in {u \in e.tables : u.object = o}} : e \in touching})] :
     o \in UNION {{t.object : t \in e.tables} : e \in entries}}

\* Requests the query returns: those in the buffer, of the look-back.
Returned == {i \in dmv : issued[i].day >= captureDay - LookbackDays}

\* The file this run reads: the one of the output directory all runs share, or
\* that of a directory of its own.
FileRead == IF SharedOutput THEN workloadFile ELSE NoFile

\* The collector of one run, up to the ranking; the cache is written to a temporary
\* file and moved over the old one, so a run that dies leaves the old one whole; a write the
\* disk refuses is only logged.
Collected(cache, new) ==
  /\ consumed' = [rows |-> RankObjects(cache), total |-> Cardinality(cache), seen |-> Cardinality(Returned),
                  parsed |-> [s \in ParseStatuses |-> Cardinality({e \in new : e.status = s})],
                  oldest |-> Bound(cache, Min), newest |-> Bound(cache, Max), day |-> captureDay]
  /\ reported' = stored \cup Returned
Capture ==
  /\ FileRead.state # "undecodable"
  /\ LET held == Load(FileRead)
         new == {CacheEntry(i) : i \in Returned \ RequestIds(held)}
         cache == Prune(Merge(held, new))
     IN /\ Collected(cache, new)
        /\ \/ workloadFile' = Saved(cache) /\ stored' = stored \cup Returned
           \/ UNCHANGED <<workloadFile, stored>>
  /\ UNCHANGED <<captureDay, issued, dmv, damaged>>

\* Bytes that are no text escape load(): the collector fails and the file stays.
CaptureFails == /\ FileRead.state = "undecodable" /\ consumed # Nothing
                /\ consumed' = Nothing /\ reported' = {}
                /\ UNCHANGED <<captureDay, issued, dmv, workloadFile, stored, damaged>>

-----------------------------------------------------------------------------
\* The pool, its clock, and hands on the file.

Submit(c) ==
  /\ Len(issued) < MaxRequests
  /\ issued' = Append(issued, [day |-> captureDay, command |-> c, elapsed |-> 1, running |-> TRUE])
  /\ LET visible == dmv \cup {Len(issued) + 1}
     IN dmv' = IF Cardinality(visible) > BufferSize THEN visible \ {Min(visible)} ELSE visible
  /\ UNCHANGED <<captureDay, workloadFile, consumed, reported, stored, damaged>>
Finish(i) ==
  /\ issued[i].running
  /\ issued' = [issued EXCEPT ![i].running = FALSE, ![i].elapsed = @ + 2]
  /\ UNCHANGED <<captureDay, dmv, workloadFile, consumed, reported, stored, damaged>>
NextDay ==
  /\ captureDay < MaxDay /\ captureDay' = captureDay + 1
  /\ UNCHANGED <<issued, dmv, workloadFile, consumed, reported, stored, damaged>>
Damage ==
  /\ damaged < MaxDamage /\ workloadFile.state = "ok"
  /\ \E s \in {"missing", "unparseable", "old version", "undecodable"} : workloadFile' = [state |-> s, entries |-> {}]
  /\ damaged' = damaged + 1 /\ stored' = {}
  /\ UNCHANGED <<captureDay, issued, dmv, consumed, reported>>

CaptureInit ==
  /\ captureDay = 0 /\ issued = <<>> /\ dmv = {} /\ workloadFile = NoFile
  /\ consumed = Nothing /\ reported = {} /\ stored = {} /\ damaged = 0
CaptureNext ==
  \/ Capture \/ CaptureFails \/ NextDay \/ Damage
  \/ \E c \in Commands : Submit(c)
  \/ \E i \in DOMAIN issued : Finish(i)
CaptureSpec == CaptureInit /\ [][CaptureNext]_capVars

-----------------------------------------------------------------------------
Within == {i \in reported : issued[i].day >= consumed.day - TtlDays}

(* The capture outlives the buffer: whatever rolled out of it, however often   *)
(* runs were repeated or failed to write, the report of a run is about *)
(* every request of the last TtlDays that it or an earlier run captured, each   *)
(* once, and its bounds are theirs.                                             *)
CacheSpansRuns ==
  consumed # Nothing =>
    /\ consumed.total = Cardinality(Within)
    /\ consumed.oldest = IF Within = {} THEN -1 ELSE Min({issued[i].day : i \in Within})
    /\ consumed.newest = IF Within = {} THEN -1 ELSE Max({issued[i].day : i \in Within})

(* The ranking counts, for every table and view of the pool, the distinct       *)
(* requests that name it, directly or by a bare name it may own; a row is       *)
(* called qualified only when some request named it in full, and its elapsed    *)
(* time is never more than those requests took.                                 *)
Names(i, o) ==
  issued[i].command # Garbage
    /\ \E k \in DOMAIN issued[i].command :
         LET ref == issued[i].command[k]
         IN ref.name = o[2] /\ (ref.schema = o[1] \/ (ref.schema = "none" /\ ~ref.cte /\ ~ref.temp))
UsageExact ==
  consumed.total = Cardinality(Within) /\ consumed # Nothing =>
    \A o \in Objects :
      LET users == {i \in Within : Names(i, o)}
          row == {r \in consumed.rows : r.object = o}
      IN /\ (row = {}) = (users = {})
         /\ \A r \in row :
              /\ r.count = Cardinality(users)
              /\ r.elapsed <= MapThenSumSet(LAMBDA i : issued[i].elapsed, users)
              /\ r.kind = "qualified" => \E i \in users : \E k \in DOMAIN issued[i].command :
                   issued[i].command[k].schema = o[1] /\ issued[i].command[k].name = o[2]

\* What a run reports of the requests to a pool: those of every run, ranked by
\* what they read.
CaptureTrue == CacheSpansRuns /\ UsageExact
==============================================================================
