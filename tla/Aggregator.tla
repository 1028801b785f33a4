------------------------------ MODULE Aggregator ------------------------------
(***************************************************************************)
(* ProfilingAggregator: actors are registered under names; a snapshot asks *)
(* the selected ones for their metrics, one after the other, and then      *)
(* tells all observers.  Registrations, further snapshots, answers and     *)
(* failures of the actors come in any order.                               *)
(*                                                                         *)
(* Each action of the aggregator is one call of process_message.           *)
(***************************************************************************)
EXTENDS Integers, FiniteSets, SequencesExt

CONSTANTS Names,         \* names of actors: numbers, for the order of the BTreeMap
          Addrs,         \* addresses of profiled actors
          Failing,       \* those that may answer with an error, or not at all
          Observers,     \* addresses of observers
          NameLists,     \* the lists of names that are selected
          MaxSnapshots   \* bound: how many SnapshotMetrics are sent

ASSUME NamesAssumption == Names \subseteq Nat /\ NameLists \subseteq Seq(Names)
ASSUME FailingAssumption == Failing \subseteq Addrs
ASSUME BoundAssumption == MaxSnapshots \in Nat

VARIABLES actor_entry_dict,    \* name -> ActorEntry
          observer_set,
          state,               \* "Idle", or "Processing" with its fields:
          snapshot_list,
          requested_index,     \* counted from 1
          request_id,
          request_id_counter,  \* of the ProcessContext
          network,             \* GetMetrics requests and their responses
          snapshots,           \* how many SnapshotMetrics were handled
          \* History, read by the properties only:
          round,               \* how often Processing began
          renewed,             \* names registered since then
          wanted,              \* names selected since then
          report,              \* what was reported last: entries, and to whom
          reports,             \* how many times
          failed               \* whether an actor failed since Processing began

processing == <<state, snapshot_list, requested_index, request_id>>
history == <<round, wanted, report, reports>>
vars == <<actor_entry_dict, observer_set, processing, request_id_counter, network,
          snapshots, renewed, failed, history>>

\* A metric_list is None, Some of an empty list, or what an actor measured in a round.
None  == -1
Empty == 0

Registered == DOMAIN actor_entry_dict

ActorSelections ==
    [kind : {"All"}]
    \cup [kind : {"SelectedNames"}, names : NameLists]
    \cup [kind : {"SelectedAddresses"}, addresses : SUBSET Addrs \ {{}}]

Init ==
    /\ actor_entry_dict = [n \in {} |-> 0]
    /\ observer_set = {}
    /\ state = "Idle"
    /\ snapshot_list = <<>>
    /\ requested_index = 1
    /\ request_id = 0
    /\ request_id_counter = 0
    /\ network = {}
    /\ snapshots = 0
    /\ round = 0
    /\ renewed = {}
    /\ wanted = {}
    /\ report = [entries |-> {}, to |-> {}]
    /\ reports = 0
    /\ failed = FALSE

-------------------------------------------------------------------------------
(* Registrations.                                                          *)

RegisterObserver(o) ==
    /\ observer_set' = observer_set \cup {o}
    /\ UNCHANGED <<actor_entry_dict, processing, request_id_counter, network, snapshots,
                   renewed, failed, history>>

UnregisterObserver(o) ==
    /\ observer_set' = observer_set \ {o}
    /\ UNCHANGED <<actor_entry_dict, processing, request_id_counter, network, snapshots,
                   renewed, failed, history>>

\* names_addresses: of a name that is in the list twice, the last counts.
NamesAddresses ==
    UNION {[names -> Addrs] : names \in {S \in SUBSET Names : S # {} /\ IsFiniteSet(S)}}

\* A name that is registered already gets a new entry, in a snapshot too.
RegisterProfiledActors(names_addresses) ==
    /\ actor_entry_dict' =
           [n \in DOMAIN names_addresses \cup Registered |->
               IF n \in DOMAIN names_addresses
               THEN [addr |-> names_addresses[n], metric_list |-> Empty]
               ELSE actor_entry_dict[n]]
    /\ renewed' = renewed \cup DOMAIN names_addresses
    /\ UNCHANGED <<observer_set, processing, request_id_counter, network, snapshots,
                   failed, history>>

Selected(selection) ==
    CASE selection.kind = "All" -> Registered
      [] selection.kind = "SelectedNames" -> ToSet(selection.names)
      [] selection.kind = "SelectedAddresses" ->
             {n \in Registered : actor_entry_dict[n].addr \in selection.addresses}

\* Mutant of Unregister: a snapshot in progress forgets the names, too.
UnregisterFromSnapshot(selection) ==
    /\ actor_entry_dict' = [n \in Registered \ Selected(selection) |-> actor_entry_dict[n]]
    /\ snapshot_list' = SelectSeq(snapshot_list, LAMBDA n : n \notin Selected(selection))
    /\ UNCHANGED <<observer_set, state, requested_index, request_id, request_id_counter,
                   network, snapshots, renewed, failed, history>>

\* A snapshot in progress keeps its list.
Unregister(selection) ==
    /\ actor_entry_dict' = [n \in Registered \ Selected(selection) |-> actor_entry_dict[n]]
    /\ UNCHANGED <<observer_set, processing, request_id_counter, network, snapshots,
                   renewed, failed, history>>

-------------------------------------------------------------------------------
(* Snapshots.                                                              *)

\* notify_observers: names that are not registered any more are left out, and an entry
\* without a list counts as empty.
Entries(dict, list) ==
    {[name |-> n, metrics |-> IF dict[n].metric_list = None THEN Empty ELSE dict[n].metric_list] :
        n \in ToSet(list) \cap DOMAIN dict}

\* Mutant of AskAt: the request gets the id of the one before it.
AskAtWithLastId(dict, list, i, net) ==
    /\ state' = "Processing"
    /\ snapshot_list' = list
    /\ requested_index' = i
    /\ request_id_counter' = request_id_counter + 1
    /\ request_id' = request_id_counter
    /\ actor_entry_dict' = [dict EXCEPT ![list[i]].metric_list = None]
    /\ network' = net \cup {[kind |-> "GetMetrics", id |-> request_id', addr |-> dict[list[i]].addr]}
    /\ UNCHANGED <<report, reports>>

\* process_next_snapshot_and_notify with the entries dict, the list and the index i, when
\* net is out: ask the next actor that is registered, giving it the list to fill, ...
AskAt(dict, list, i, net) ==
    /\ state' = "Processing"
    /\ snapshot_list' = list
    /\ requested_index' = i
    /\ request_id_counter' = request_id_counter + 1
    /\ request_id' = request_id_counter'
    /\ actor_entry_dict' = [dict EXCEPT ![list[i]].metric_list = None]
    /\ network' = net \cup {[kind |-> "GetMetrics", id |-> request_id', addr |-> dict[list[i]].addr]}
    /\ UNCHANGED <<report, reports>>

\* ... or, when there is none, tell the observers.
FinishSnapshot(dict, list, net) ==
    /\ state' = "Idle"
    /\ snapshot_list' = <<>>
    /\ requested_index' = 1
    /\ request_id' = 0
    /\ actor_entry_dict' = dict
    /\ network' = net
    /\ report' = [entries |-> Entries(dict, list), to |-> observer_set]
    /\ reports' = reports + 1
    /\ UNCHANGED request_id_counter

\* The name at i has its turn: those before it are not registered.
IsNext(dict, list, from, i) ==
    /\ i \in from .. Len(list)
    /\ list[i] \in DOMAIN dict
    /\ \A k \in from .. i - 1 : list[k] \notin DOMAIN dict

ProcessNext(dict, list, from, net) ==
    IF \A i \in from .. Len(list) : list[i] \notin DOMAIN dict
    THEN FinishSnapshot(dict, list, net)
    ELSE \E i \in from .. Len(list) : IsNext(dict, list, from, i) /\ AskAt(dict, list, i, net)

\* The elements of S from the least to the greatest.
Ascending(S) ==
    CHOOSE list \in [1 .. Cardinality(S) -> S] :
        \A i, j \in 1 .. Cardinality(S) : i < j => list[i] < list[j]

\* convert_selection_to_names: names as they were given, or in the order of the BTreeMap.
SelectionToNames(selection) ==
    IF selection.kind = "SelectedNames" THEN selection.names
    ELSE Ascending(Selected(selection))

StartSnapshot(selection) ==
    /\ state = "Idle"
    /\ snapshots < MaxSnapshots
    /\ snapshots' = snapshots + 1
    /\ round' = round + 1
    /\ renewed' = {}
    /\ wanted' = ToSet(SelectionToNames(selection))
    /\ failed' = FALSE
    /\ ProcessNext(actor_entry_dict, SelectionToNames(selection), 1, network)
    /\ UNCHANGED observer_set

\* Mutant of Extended: a snapshot in progress is not extended.
NotExtended(list, names) == list

\* The names that are not in the list yet are added at its end, one after the other.
Extended(list, names) ==
    LET extended[n \in 0 .. Len(names)] ==
            IF n = 0 THEN list
            ELSE IF names[n] \in ToSet(extended[n - 1]) THEN extended[n - 1]
            ELSE Append(extended[n - 1], names[n])
    IN  extended[Len(names)]

\* Mutant of ExtendSnapshot: the next actor is asked at once.
ExtendAndAsk(selection) ==
    /\ state = "Processing"
    /\ snapshots < MaxSnapshots
    /\ snapshots' = snapshots + 1
    /\ wanted' = wanted \cup ToSet(SelectionToNames(selection))
    /\ ProcessNext(actor_entry_dict, Extended(snapshot_list, SelectionToNames(selection)),
                   requested_index, network)
    /\ UNCHANGED <<observer_set, round, renewed, failed>>

ExtendSnapshot(selection) ==
    /\ state = "Processing"
    /\ snapshots < MaxSnapshots
    /\ snapshots' = snapshots + 1
    /\ snapshot_list' = Extended(snapshot_list, SelectionToNames(selection))
    /\ wanted' = wanted \cup ToSet(SelectionToNames(selection))
    /\ UNCHANGED <<actor_entry_dict, observer_set, state, requested_index, request_id,
                   request_id_counter, network, round, renewed, report, reports,
                   failed>>

\* Mutant of Stored: the list that the actor filled is thrown away.
NotStored(name, metrics) == actor_entry_dict

\* The list goes to the entry that has the name now.
Stored(name, metrics) ==
    IF name \in Registered
    THEN [actor_entry_dict EXCEPT ![name].metric_list = metrics]
    ELSE actor_entry_dict

\* Mutant of HandleMetrics: nobody asks the next actor when the name is gone.
HandleMetricsOfRegistered(message) ==
    /\ message.kind = "Metrics"
    /\ IF state = "Processing" /\ message.id = request_id
          /\ snapshot_list[requested_index] \in Registered
       THEN ProcessNext(Stored(snapshot_list[requested_index], message.metrics),
                        snapshot_list, requested_index + 1, network \ {message})
       ELSE /\ network' = network \ {message}
            /\ UNCHANGED <<actor_entry_dict, processing, request_id_counter, report, reports>>
    /\ UNCHANGED <<observer_set, snapshots, round, renewed, wanted, failed>>

HandleMetrics(message) ==
    /\ message.kind = "Metrics"
    /\ IF state = "Processing" /\ message.id = request_id
       THEN ProcessNext(Stored(snapshot_list[requested_index], message.metrics),
                        snapshot_list, requested_index + 1, network \ {message})
       ELSE /\ network' = network \ {message}
            /\ UNCHANGED <<actor_entry_dict, processing, request_id_counter, report, reports>>
    /\ UNCHANGED <<observer_set, snapshots, round, renewed, wanted, failed>>

\* The data of a failed request is looked up as a Response, which it never is (it is the
\* request that comes back): the error has no effect.
HandleError(message) ==
    /\ message.kind = "Error"
    /\ network' = network \ {message}
    /\ UNCHANGED <<actor_entry_dict, observer_set, processing, request_id_counter,
                   snapshots, renewed, failed, history>>

-------------------------------------------------------------------------------
(* The profiled actors, and the channels between.                          *)

IsRequest(message) == message.kind = "GetMetrics"

AnswerMetrics(message) ==
    /\ IsRequest(message)
    /\ network' = (network \ {message})
                  \cup {[kind |-> "Metrics", id |-> message.id, metrics |-> round]}
    /\ UNCHANGED <<actor_entry_dict, observer_set, processing, request_id_counter,
                   snapshots, renewed, failed, history>>

\* The queue of the actor is full or closed, or the actor has disappeared.
AnswerError(message) ==
    /\ IsRequest(message)
    /\ message.addr \in Failing
    /\ network' = (network \ {message}) \cup {[kind |-> "Error", id |-> message.id]}
    /\ failed' = TRUE
    /\ UNCHANGED <<actor_entry_dict, observer_set, processing, request_id_counter,
                   snapshots, renewed, history>>

\* The actor does not answer, or its response finds no room.
AnswerNothing(message) ==
    /\ IsRequest(message)
    /\ message.addr \in Failing
    /\ network' = network \ {message}
    /\ failed' = TRUE
    /\ UNCHANGED <<actor_entry_dict, observer_set, processing, request_id_counter,
                   snapshots, renewed, history>>

-------------------------------------------------------------------------------

MessageStep ==
    \E message \in network :
        \/ AnswerMetrics(message)
        \/ AnswerError(message)
        \/ AnswerNothing(message)
        \/ HandleMetrics(message)
        \/ HandleError(message)

Next ==
    \/ MessageStep
    \/ \E o \in Observers : RegisterObserver(o) \/ UnregisterObserver(o)
    \/ \E names_addresses \in NamesAddresses : RegisterProfiledActors(names_addresses)
    \/ \E selection \in ActorSelections :
        Unregister(selection) \/ StartSnapshot(selection) \/ ExtendSnapshot(selection)

Spec == Init /\ [][Next]_vars

\* Requests and responses are handled at some time.
FairSpec == Spec /\ WF_vars(MessageStep)

-------------------------------------------------------------------------------
(* Properties.                                                             *)

Rounds == 0 .. MaxSnapshots

TypeOK ==
    /\ Registered \subseteq Names
    /\ \A n \in Registered :
        actor_entry_dict[n] \in [addr : Addrs, metric_list : {None} \cup Rounds]
    /\ observer_set \subseteq Observers
    /\ state \in {"Idle", "Processing"}
    /\ snapshot_list \in Seq(Names)
    /\ request_id \in 0 .. request_id_counter
    /\ \A message \in network : message.id \in 1 .. request_id_counter
    /\ snapshots \in 0 .. MaxSnapshots
    /\ round \in 0 .. snapshots
    /\ renewed \subseteq Names /\ wanted \subseteq Names
    /\ report.entries \subseteq [name : Names, metrics : Rounds]
    /\ reports \in 0 .. round
    /\ failed \in BOOLEAN

\* One request is out at a time, it is the one whose id is awaited, and its name can be
\* looked up when the response comes, whatever was unregistered meanwhile.
OneRequestOut ==
    /\ \A m1, m2 \in network : m1 = m2
    /\ \A message \in network : state = "Processing" /\ message.id = request_id
    /\ state = "Processing" => requested_index \in 1 .. Len(snapshot_list)

\* Observers are never told metrics of an earlier snapshot: every list was measured in
\* this one, or is empty because its name was registered in the middle of it.
ReportIsFresh ==
    [][reports' # reports =>
        \A e \in report'.entries :
            e.metrics = round' \/ (e.name \in renewed' /\ e.metrics = Empty)]_vars

\* Every actor that a SnapshotMetrics asked for since the snapshot began, and that is
\* registered at its end, is in the report.
ReportIsComplete ==
    [][reports' # reports =>
        wanted' \cap DOMAIN actor_entry_dict' \subseteq {e.name : e \in report'.entries}]_vars

\* A snapshot ends, unless an actor that it asked failed to send its metrics.
SnapshotEnds == state = "Processing" ~> state = "Idle" \/ failed

-------------------------------------------------------------------------------
(* What documentation says, and the code does not do.                      *)

\* "self::observer actors can be registered and are notified at the end of the snapshot":
\* the snapshot has an end.
ObserversNotified == state = "Processing" ~> state = "Idle"
===============================================================================
