------------------------------- MODULE Stats -------------------------------
(***************************************************************************)
(* The statistics behind the dashboard (Dome/dome-rs/src/stats.rs).        *)
(*                                                                         *)
(* Every call of Stats::record is a process, named by the event it pushes. *)
(* Its steps are the accesses to what others see, in program order: the    *)
(* total, the counter of the action, the ring, the table of clients, the   *)
(* table of rules.  One dashboard reader loads a snapshot counter by       *)
(* counter.  (The atomics are Relaxed; the steps are those of a build for  *)
(* x86-64, where neither additions nor loads overtake each other.)         *)
(***************************************************************************)
EXTENDS EventRing, FiniteSets, FiniteSetsExt, Functions

CONSTANTS
    Classes,    \* the actions recorded
    Ips         \* the clients

Flagged == {"BLOCK", "LOG", "CHALLENGE"}    \* line 92: what the tables count
LoadOrder == <<"total", "ALLOW", "BLOCK", "LOG", "CHALLENGE", "ERROR">>
Counters == {"total", "ALLOW", "BLOCK", "LOG", "CHALLENGE", "ERROR"}

ASSUME ClassesAssumption == Classes \subseteq Counters \ {"total"}
ASSUME EventsAssumption == IsFiniteSet(Events)

VARIABLES
    stage,      \* per record: the step it does next
    class, ip,  \* per record: its action and client, once it has begun
    counter,    \* the six atomics
    topIps,     \* requests per client
    topRules,   \* hits of the one rule
    loads,      \* how many counters the reader has loaded
    snap,       \* what it has loaded
    before,     \* history: per record, those that had ended when it began
    finished,   \* history: the records that had ended when the reader began
    midway      \* history: records seen between their two additions by the reader

ring == <<buf, head, full, answer>>
records == <<stage, class, ip>>
tables == <<topIps, topRules>>
reader == <<loads, snap, finished, midway>>
statsVars == <<ring, records, counter, tables, reader, before>>

Stages == {"idle", "class", "ring", "ips", "rules", "done"}
Ended == {e \in Events : stage[e] = "done"}
Begun == {e \in Events : stage[e] # "idle"}
Midway == {e \in Events : stage[e] = "class"}

StatsInit ==
    /\ Init
    /\ stage = [e \in Events |-> "idle"]
    /\ class \in [Events -> Classes]
    /\ ip \in [Events -> Ips]
    /\ counter = [c \in Counters |-> 0]
    /\ topIps = [i \in Ips |-> 0]
    /\ topRules = 0
    /\ loads = 0
    /\ snap = [c \in Counters |-> 0]
    /\ before = [e \in Events |-> {}]
    /\ finished = {}
    /\ midway = {}

Bump(c) == counter' = [counter EXCEPT ![c] = @ + 1]
Advance(e, s) == stage' = [stage EXCEPT ![e] = s] /\ UNCHANGED <<class, ip>>

CountTotal(e) ==
    /\ stage[e] = "idle"
    /\ Bump("total")
    /\ Advance(e, "class")
    /\ before' = [before EXCEPT ![e] = Ended]
    /\ midway' = IF loads = 0 THEN midway ELSE midway \cup {e}
    /\ UNCHANGED <<ring, tables, loads, snap, finished>>

(* Mutant of CountClass: a plain load and store instead of fetch_add, as   *)
(* if another record had stored in between.                                *)
CountClassTorn(e) ==
    /\ stage[e] = "class"
    /\ counter' = [counter EXCEPT ![class[e]] =
                      IF Cardinality(Midway) > 1 THEN @ ELSE @ + 1]
    /\ Advance(e, "ring")
    /\ UNCHANGED <<ring, tables, reader, before>>

CountClass(e) ==
    /\ stage[e] = "class"
    /\ Bump(class[e])
    /\ Advance(e, "ring")
    /\ UNCHANGED <<ring, tables, reader, before>>

(* Mutant of Push: the tables are updated for every action.                *)
PushThenTables(e) ==
    /\ stage[e] = "ring"
    /\ PushFull(e) \/ PushGrowing(e)
    /\ Advance(e, "ips")
    /\ UNCHANGED <<counter, tables, reader, before>>

Push(e) ==
    /\ stage[e] = "ring"
    /\ PushFull(e) \/ PushGrowing(e)
    /\ Advance(e, IF class[e] \in Flagged THEN "ips" ELSE "done")
    /\ UNCHANGED <<counter, tables, reader, before>>

CountIp(e) ==
    /\ stage[e] = "ips"
    /\ topIps' = [topIps EXCEPT ![ip[e]] = @ + 1]
    /\ Advance(e, "rules")
    /\ UNCHANGED <<ring, counter, topRules, reader, before>>

CountRules(e) ==
    /\ stage[e] = "rules"
    /\ topRules' = topRules + 1
    /\ Advance(e, "done")
    /\ UNCHANGED <<ring, counter, topIps, reader, before>>

(* Mutant of Load: the field of LOG is filled from another counter.        *)
LoadMixedUp ==
    LET c == LoadOrder[loads + 1]
    IN  /\ loads < 6
        /\ loads' = loads + 1
        /\ snap' = [snap EXCEPT ![c] = counter[IF c = "LOG" THEN "ALLOW" ELSE c]]
        /\ IF loads = 0 THEN finished' = Ended /\ midway' = Midway
                        ELSE UNCHANGED <<finished, midway>>
        /\ UNCHANGED <<ring, records, counter, tables, before>>

(* The reader loads the next counter; the first one begins a snapshot.     *)
Load ==
    LET c == LoadOrder[loads + 1]
    IN  /\ loads < 6
        /\ loads' = loads + 1
        /\ snap' = [snap EXCEPT ![c] = counter[c]]
        /\ IF loads = 0 THEN finished' = Ended /\ midway' = Midway
                        ELSE UNCHANGED <<finished, midway>>
        /\ UNCHANGED <<ring, records, counter, tables, before>>

(* snapshot returns; the dashboard will ask again.                         *)
Return ==
    /\ loads = 6
    /\ loads' = 0
    /\ snap' = [c \in Counters |-> 0]
    /\ finished' = {} /\ midway' = {}
    /\ UNCHANGED <<ring, records, counter, tables, before>>

(* The same reader asks for the feed, between two snapshots.               *)
ReadRecent(n) == loads = 0 /\ ReadTail(n) /\ UNCHANGED <<records, counter, tables, reader, before>>

RecordStep(e) == CountTotal(e) \/ CountClass(e) \/ Push(e) \/ CountIp(e) \/ CountRules(e)

StatsNext ==
    \/ \E e \in Events : RecordStep(e)
    \/ Load \/ Return
    \/ \E n \in Limits : ReadRecent(n)

StatsSpec == StatsInit /\ [][StatsNext]_statsVars

-----------------------------------------------------------------------------
CountedIn(c) == {e \in Events : stage[e] \notin {"idle", "class"} /\ class[e] = c}
(* Each counter is the number of records that have reached it, however     *)
(* many run at the same time; together they fall short of the total by the *)
(* records between their two additions.                                    *)
CountersAgree ==
    /\ counter["total"] = Cardinality(Begun)
    /\ \A c \in Counters \ {"total"} : counter[c] = Cardinality(CountedIn(c))

(* A table of clients holds each flagged record once.                      *)
TablesAgree ==
    /\ \A i \in Ips : topIps[i] = Cardinality({e \in Events :
            /\ stage[e] \in {"rules", "done"}
            /\ class[e] \in Flagged /\ ip[e] = i})
    /\ topRules = Cardinality({e \in Ended : class[e] \in Flagged})

Parts == SumFunctionOnSet(snap, Counters \ {"total"})

(* A whole snapshot is not one moment, but what it shows lies between what *)
(* had been counted when it began and what has by its end; its parts miss  *)
(* its total by no more than the records the reader met between their two  *)
(* additions.                                                              *)
SnapshotBracketed ==
    loads = 6 =>
        /\ \A c \in Counters \ {"total"} :
              /\ Cardinality({e \in finished : class[e] = c}) <= snap[c]
              /\ snap[c] <= Cardinality(CountedIn(c))
        /\ Cardinality(finished) <= snap["total"]
        /\ Parts - snap["total"] \in (- Cardinality(midway)) .. Cardinality(midway)

(* The feed may show overlapping requests in any order, since the ring is  *)
(* locked after the event's time is read; but never one that had ended     *)
(* after one that began later.                                             *)
FeedInRealTime ==
    \A i, j \in 1 .. Len(buf) : i < j => Unrolled[j] \notin before[Unrolled[i]]
=============================================================================
