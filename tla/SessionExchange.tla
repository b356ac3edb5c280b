---------------------------- MODULE SessionExchange ----------------------------
(***************************************************************************)
(* Publication of one session's streams into its exchange directory.        *)
(*                                                                         *)
(*   session_authority/producer.py   _exchange_plan, publish_exchange       *)
(*                                                                         *)
(* A publisher checks that its staging directory does not exist, takes the  *)
(* lock of the date, compares what it would publish with what is there,     *)
(* stages its files, moves the new event directories in one by one, then    *)
(* replaces index.json, then exchange.json, then removes what is left of    *)
(* the staging directory.  It may die between any two of these steps; the   *)
(* lock is then released and everything else stays as it is.                *)
(***************************************************************************)
EXTENDS SessionContracts, FiniteSets

CONSTANTS
    Bundles,        \* the sequences of rows that publishers are given
    Publishers,     \* processes that publish
    MaxFaults       \* bound on the deaths and failed writes

ASSUME FaultsAssumption == MaxFaults \in Nat

(* The streams of each bundle that the producer accepts.                    *)
Streams == [rows \in {r \in Bundles : Publishable(r)} |-> StreamsOf(rows)]

StreamsSet == {Streams[rows] : rows \in DOMAIN Streams}

(* A stream is a sequence of rows: what StreamsOf makes of a bundle by      *)
(* appending to two empty streams.                                          *)
ASSUME StreamsAssumption ==
    \A s \in StreamsSet : /\ s.authority \in Seq(ToSet(s.authority))
                         /\ s.context \in Seq(ToSet(s.context))

(* So are the operations of an amendment (a list, contracts.py:498).        *)
ASSUME OperationsAssumption ==
    \A s \in StreamsSet : \A k \in 2 .. Len(s.authority) :
        s.authority[k].payload.operations \in Seq(ToSet(s.authority[k].payload.operations))

(* Null is not a publisher, a bundle or a list of events.                   *)
ASSUME UnsetAssumption ==
    /\ Unset \notin Publishers
    /\ Unset \notin Bundles
    /\ Unset \notin StreamsSet

VARIABLES
    index,      \* what index.json lists: streams, or Unset before the first
    descriptor, \* what exchange.json lists
    placed,     \* the event directories in the exchange directory
    staging,    \* the staging directories, each named after its streams
    holder,     \* the publisher that holds the lock of the date, or Unset
    pub,        \* [Publishers -> what each is doing]
    told,       \* the streams that some caller was told are published
    faults      \* the faults so far

exchangeVars == <<index, descriptor, placed, staging, holder, pub, told, faults>>

(***************************************************************************)
(* Streams and their events.  An event directory is named by the stream and *)
(* the sequence number; its manifest has the event hash.                    *)
(***************************************************************************)
EventsOf(s) ==
    ({"authority"} \X (Prefixes(s.authority) \ {<< >>}))
        \union ({"context"} \X (Prefixes(s.context) \ {<< >>}))

PathOf(event) == <<event[1], Len(event[2])>>

EventBefore(e, f) ==
    \/ e[1] = "authority" /\ f[1] = "context"
    \/ e[1] = f[1] /\ Len(e[2]) < Len(f[2])

(* The event directories to move in.                                        *)
NewEvents(s, listed) == EventsOf(s) \ EventsOf(listed)

Extends(s, listed) ==
    /\ IsPrefix(listed.authority, s.authority)
    /\ IsPrefix(listed.context, s.context)

Exists == index # Unset

(* Mutant: the list published before may be another one.                    *)
CanExtendAnything(s) == descriptor = index /\ EventsOf(index) \subseteq placed

(* What is there agrees with itself and is a prefix of what is proposed.    *)
CanExtend(s) ==
    /\ descriptor = index
    /\ Extends(s, index)
    /\ EventsOf(index) \subseteq placed

Idle == [step |-> "idle", streams |-> EmptyStreams, todo |-> {}]

ExchangeInit ==
    /\ index = Unset
    /\ descriptor = Unset
    /\ placed = {}
    /\ staging = {}
    /\ holder = Unset
    /\ pub = [p \in Publishers |-> Idle]
    /\ told = {}
    /\ faults = 0

At(p, step) == pub[p].step = step

Goto(p, step) == pub' = [pub EXCEPT ![p].step = step]

(* The call ends, with an error or with an answer.                          *)
End(p) == pub' = [pub EXCEPT ![p] = Idle]

Unlock == holder' = Unset

(***************************************************************************)
(* A caller has a bundle the producer accepts and plans its publication.    *)
(***************************************************************************)
Plan(p, rows) ==
    /\ At(p, "idle")
    /\ rows \in DOMAIN Streams
    /\ pub' = [pub EXCEPT ![p] =
                  [step |-> "planned", streams |-> Streams[rows], todo |-> {}]]
    /\ UNCHANGED <<index, descriptor, placed, staging, holder, told, faults>>

(* The staging directory is looked at before the lock is taken.             *)
CheckStaging(p) ==
    /\ At(p, "planned")
    /\ IF pub[p].streams \in staging THEN End(p) ELSE Goto(p, "waiting")
    /\ UNCHANGED <<index, descriptor, placed, staging, holder, told, faults>>

(***************************************************************************)
(* Under the lock.                                                          *)
(***************************************************************************)
Refuse(p) ==
    /\ Exists /\ ~CanExtend(pub[p].streams)
    /\ End(p)
    /\ UNCHANGED <<staging, holder>>

Stage(p) ==
    /\ Exists => CanExtend(pub[p].streams) /\ index # pub[p].streams
    /\ IF pub[p].streams \in staging
       THEN End(p) /\ UNCHANGED <<staging, holder>>
       ELSE /\ staging' = staging \union {pub[p].streams}
            /\ holder' = p
            /\ pub' = [pub EXCEPT ![p] =
                          [step |-> "staged", streams |-> pub[p].streams,
                           todo |-> IF Exists THEN NewEvents(pub[p].streams, index) ELSE {}]]

LockAndCompare(p) ==
    /\ At(p, "waiting") /\ holder = Unset
    /\ Refuse(p) \/ Stage(p)
    /\ UNCHANGED <<index, descriptor, placed, told, faults>>

(* The very same streams are there: nothing to do, and the caller is told.  *)
FindPublished(p) ==
    /\ At(p, "waiting") /\ holder = Unset
    /\ Exists /\ CanExtend(pub[p].streams) /\ index = pub[p].streams
    /\ told' = told \union {pub[p].streams}
    /\ End(p)
    /\ UNCHANGED <<index, descriptor, placed, staging, holder, faults>>

(* The first publication of a date renames the staging directory.           *)
PublishFirst(p) ==
    /\ At(p, "staged") /\ ~Exists
    /\ index' = pub[p].streams
    /\ descriptor' = pub[p].streams
    /\ placed' = EventsOf(pub[p].streams)
    /\ staging' = staging \ {pub[p].streams}
    /\ Goto(p, "done")
    /\ UNCHANGED <<holder, told, faults>>

(* A later one moves one event directory after another, in the order of     *)
(* their paths.  A directory that is in the way stops it; the directories   *)
(* moved before stay.                                                       *)
Move(p, event) ==
    IF \E e \in placed : PathOf(e) = PathOf(event)
    THEN /\ staging' = staging \ {pub[p].streams}
         /\ End(p) /\ Unlock
         /\ UNCHANGED placed
    ELSE /\ placed' = placed \union {event}
         /\ pub' = [pub EXCEPT ![p].todo = @ \ {event}]
         /\ UNCHANGED <<staging, holder>>

MoveEvent(p) ==
    /\ At(p, "staged") /\ Exists
    /\ \E event \in pub[p].todo :
          /\ \A other \in pub[p].todo \ {event} : EventBefore(event, other)
          /\ Move(p, event)
    /\ UNCHANGED <<index, descriptor, told, faults>>

(* Mutant: the index is replaced first.                                     *)
ReplaceIndexFirst(p) ==
    /\ At(p, "staged") /\ Exists
    /\ index' = pub[p].streams
    /\ Goto(p, "indexed")
    /\ UNCHANGED <<descriptor, placed, staging, holder, told, faults>>

ReplaceIndex(p) ==
    /\ At(p, "staged") /\ Exists /\ pub[p].todo = {}
    /\ index' = pub[p].streams
    /\ Goto(p, "indexed")
    /\ UNCHANGED <<descriptor, placed, staging, holder, told, faults>>

ReplaceDescriptor(p) ==
    /\ At(p, "indexed")
    /\ descriptor' = pub[p].streams
    /\ Goto(p, "done")
    /\ UNCHANGED <<index, placed, staging, holder, told, faults>>

(* The rest of the staging directory is removed, the lock released, and the *)
(* caller told.                                                             *)
Finish(p) ==
    /\ At(p, "done")
    /\ staging' = staging \ {pub[p].streams}
    /\ told' = told \union {pub[p].streams}
    /\ End(p) /\ Unlock
    /\ UNCHANGED <<index, descriptor, placed, faults>>

(***************************************************************************)
(* Faults.  A write that fails raises, and the publisher removes its        *)
(* staging directory on the way out; a process that dies removes nothing.   *)
(***************************************************************************)
WriteFails(p) ==
    /\ faults < MaxFaults
    /\ At(p, "staged") \/ At(p, "indexed")
    /\ faults' = faults + 1
    /\ staging' = staging \ {pub[p].streams}
    /\ End(p) /\ Unlock
    /\ UNCHANGED <<index, descriptor, placed, told>>

Die(p) ==
    /\ faults < MaxFaults
    /\ ~At(p, "idle")
    /\ faults' = faults + 1
    /\ holder' = IF holder = p THEN Unset ELSE holder
    /\ End(p)
    /\ UNCHANGED <<index, descriptor, placed, staging, told>>

(* What a publisher does once it has begun, up to its answer.              *)
Work(p) ==
    \/ CheckStaging(p)
    \/ LockAndCompare(p)
    \/ PublishFirst(p)
    \/ MoveEvent(p)
    \/ ReplaceIndex(p)
    \/ ReplaceDescriptor(p)

Answer(p) == FindPublished(p) \/ Finish(p)

(***************************************************************************)
(* Properties of the directory.                                             *)
(***************************************************************************)
AllEvents == UNION {EventsOf(s) : s \in StreamsSet}

ExchangeTypeOK ==
    /\ index \in StreamsSet \union {Unset}
    /\ descriptor \in StreamsSet \union {Unset}
    /\ placed \subseteq AllEvents
    /\ staging \subseteq StreamsSet
    /\ holder \in Publishers \union {Unset}
    /\ pub \in [Publishers ->
                  [step : {"idle", "planned", "waiting", "staged", "indexed", "done"},
                   streams : StreamsSet \union {EmptyStreams},
                   todo : SUBSET AllEvents]]
    /\ told \subseteq StreamsSet
    /\ faults \in 0 .. MaxFaults

(* Whatever a reader of the exchange finds in index.json or exchange.json,  *)
(* at any moment and after any death, every event listed is in its          *)
(* directory, no other event is under the same sequence number, and what a  *)
(* caller was told is published is in both lists.                           *)
ListedIsThere ==
    /\ \A listed \in {index, descriptor} \ {Unset} :
          /\ EventsOf(listed) \subseteq placed
          /\ \A s \in told : Extends(listed, s)
    /\ told # {} => index # Unset /\ descriptor # Unset
    /\ \A e, f \in placed : PathOf(e) = PathOf(f) => e = f

(* No publication changes or drops what an earlier one published: event     *)
(* directories stay and the lists only get longer.                          *)
HistoryOnlyGrows ==
    [][ /\ placed \subseteq placed'
        /\ index # Unset => index' # Unset /\ Extends(index', index)
        /\ descriptor # Unset => descriptor' # Unset /\ Extends(descriptor', descriptor)
      ]_<<index, descriptor, placed>>

(* An idea that any list has called invalid for good stays so in every      *)
(* later list, whatever a later amendment says of it.                       *)
InvalidIdeas ==
    [s \in StreamsSet |->
        LET statuses == Replay(s.authority).statuses
        IN  {i \in DOMAIN statuses : statuses[i] = "hard_invalidation"}]

InvalidationIsFinal ==
    [][ /\ index # Unset => InvalidIdeas[index] \subseteq InvalidIdeas[index']
        /\ descriptor # Unset => InvalidIdeas[descriptor] \subseteq InvalidIdeas[descriptor']
      ]_<<index, descriptor>>
================================================================================
