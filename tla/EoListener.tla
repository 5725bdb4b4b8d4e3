------------------------------ MODULE EoListener ------------------------------
(***************************************************************************)
(* The listener that turns logs of the EO contract into messages for the   *)
(* EoServer actor (crates/eo_listener/src/lib.rs), the loop that drives it *)
(* (EoServerWrapper::run in crates/actors/src/eo_server.rs) and the set-up *)
(* that reloads its progress when the node starts (crates/node/src/main.rs)*)
(*                                                                         *)
(* A block is its height, an event is the height of its block: the filters *)
(* are ranges of heights and all the logs of a block come in one reply.    *)
(* There is one stream of events per topic (bridge, settlement).           *)
(***************************************************************************)
EXTENDS Naturals

CONSTANTS Streams,      \* the topics the listener filters on
          MaxBlock,     \* bound: last height of the chain
          MaxFaults,    \* bound: failed or timed out calls of the web3 node
          MaxCrashes,   \* bound: crashes of the node
          None          \* no reply, no file

ASSUME BoundsAreNaturals == /\ MaxBlock \in Nat
                            /\ MaxFaults \in Nat
                            /\ MaxCrashes \in Nat

VARIABLES head,       \* height of the chain
          event,      \* event[s]: blocks with a log of stream s
          filter,     \* bridge_filter, blob_settled_filter
          current,    \* current_bridge_filter_block, current_blob_settlement_filter_block
          processed,  \* bridge_processed_blocks, settled_processed_blocks
          reply,      \* logs received, the block number still awaited
          unsaved,    \* logs were cast to the actor, the file is not written yet
          up,         \* the node runs
          file,       \* the BlocksProcessed file
          store,      \* the BlocksProcessed in the persistence store
          sent,       \* history: blocks whose logs were cast to the EoServer actor
          again,      \* history: blocks whose logs were cast more than once
          faults, crashes

chain == <<head, event>>
memory == <<filter, current, processed, reply, unsaved>>
history == <<sent, again>>
disk == <<file, store>>
vars == <<chain, memory, up, disk, history, faults, crashes>>

Filter == [from: Nat, to: Nat, latest: BOOLEAN]
BlocksProcessed == [current: [Streams -> Nat], processed: [Streams -> SUBSET Nat]]

\* BTreeSet::last of the processed blocks, 0 when there is none
Highest(blocks) == CHOOSE b \in blocks \cup {0} : \A c \in blocks : c <= b

InRange(f, b) == f.from <= b /\ (f.latest \/ b <= f.to)

\* increment_bridge_filter, increment_blob_filter: from the block after the last one
\* processed to the block after the height seen one poll earlier. The variants before
\* it each hold a mistake that a property of this module rules out.
NextFilterUnderflows(s, found) ==
    [from |-> Highest(found) - 1, to |-> current[s] + 1, latest |-> FALSE]
NextFilterFromHead(s, found) ==
    [from |-> head + 1, to |-> current[s] + 1, latest |-> FALSE]
NextFilterRefetches(s, found) ==
    [from |-> Highest(found), to |-> current[s] + 1, latest |-> FALSE]
NextFilterOneBlock(s, found) ==
    [from |-> Highest(found) + 1, to |-> Highest(found) + 1, latest |-> FALSE]
NextFilter(s, found) ==
    [from |-> Highest(found) + 1, to |-> current[s] + 1, latest |-> FALSE]

\* the filters main.rs builds from the blocks it loaded
InitialFilterFromGenesis(from) == [from |-> 0, to |-> 0, latest |-> TRUE]
InitialFilter(from) == [from |-> from, to |-> 0, latest |-> TRUE]

Init ==
    /\ head = 0
    /\ event = [s \in Streams |-> {}]
    /\ filter = [s \in Streams |-> InitialFilter(0)]
    /\ current = [s \in Streams |-> 0]
    /\ processed = [s \in Streams |-> {}]
    /\ reply = None
    /\ unsaved = FALSE
    /\ up = TRUE
    /\ file = None
    /\ store = None
    /\ sent = [s \in Streams |-> {}]
    /\ again = [s \in Streams |-> {}]
    /\ faults = 0
    /\ crashes = 0

(***************************************************************************)
(* The chain: a new block, with logs of the streams in S.                  *)
(***************************************************************************)
Mine(S) ==
    /\ head < MaxBlock
    /\ head' = head + 1
    /\ event' = [s \in Streams |-> IF s \in S THEN event[s] \cup {head + 1} ELSE event[s]]
    /\ UNCHANGED <<memory, up, disk, history, faults, crashes>>

(***************************************************************************)
(* One turn of the loop: EoServer::next selects one of the two log         *)
(* queries, then awaits the block number in process_logs.                  *)
(***************************************************************************)
Idle == up /\ reply = None /\ ~unsaved

LogsOk(s) ==
    /\ Idle
    /\ reply' = [stream |-> s, blocks |-> {b \in event[s] : InRange(filter[s], b)}]
    /\ UNCHANGED <<chain, filter, current, processed, unsaved, up, disk, history, faults, crashes>>

\* log_handler!: a failed query counts as a reply without logs
LogsErr(s) ==
    /\ Idle
    /\ faults < MaxFaults
    /\ reply' = [stream |-> s, blocks |-> {}]
    /\ faults' = faults + 1
    /\ UNCHANGED <<chain, filter, current, processed, unsaved, up, disk, history, crashes>>

AbandonHalfway ==
    /\ up
    /\ reply # None
    /\ faults < MaxFaults
    /\ LET s == reply.stream
           found == processed[s] \cup reply.blocks
       IN  /\ processed' = [processed EXCEPT ![s] = found]
           /\ filter' = [filter EXCEPT ![s] = NextFilter(s, found)]
    /\ reply' = None
    /\ faults' = faults + 1
    /\ UNCHANGED <<chain, current, unsaved, up, disk, history, crashes>>

\* The block number fails or LOG_TIMEOUT cancels the turn: nothing is assigned yet
Abandon ==
    /\ up
    /\ reply # None
    /\ faults < MaxFaults
    /\ reply' = None
    /\ faults' = faults + 1
    /\ UNCHANGED <<chain, filter, current, processed, unsaved, up, disk, history, crashes>>

\* process_logs after the block number, up to the cast in EoServerWrapper::run
ProcessLogs ==
    /\ up
    /\ reply # None
    /\ LET s == reply.stream
           found == processed[s] \cup reply.blocks
       IN  /\ processed' = [processed EXCEPT ![s] = found]
           /\ filter' = [filter EXCEPT ![s] = NextFilter(s, found)]
           /\ current' = [current EXCEPT ![s] = head]
           /\ sent' = [sent EXCEPT ![s] = @ \cup reply.blocks]
           /\ again' = [again EXCEPT ![s] = @ \cup (reply.blocks \cap sent[s])]
    /\ unsaved' = (reply.blocks # {})
    /\ reply' = None
    /\ UNCHANGED <<chain, up, disk, faults, crashes>>

\* save_blocks_processed, then update_blocks_processed_in_persistence, which reads the
\* file and gets the key of the store
SaveBlocksProcessed ==
    /\ up
    /\ unsaved
    /\ file' = [current |-> current, processed |-> processed]
    /\ unsaved' = FALSE
    /\ UNCHANGED <<chain, filter, current, processed, reply, up, store, history, faults, crashes>>

(***************************************************************************)
(* The node stops at any point and starts again from the file.             *)
(***************************************************************************)
Crash ==
    /\ up
    /\ crashes < MaxCrashes
    /\ up' = FALSE
    /\ reply' = None
    /\ unsaved' = FALSE
    /\ crashes' = crashes + 1
    /\ UNCHANGED <<chain, filter, current, processed, disk, history, faults>>

\* load_processed_blocks and setup_eo_server
Loaded == IF file # None THEN file
          ELSE IF store # None THEN store
          ELSE [current |-> [s \in Streams |-> 0], processed |-> [s \in Streams |-> {}]]

SetupEoServer ==
    /\ ~up
    /\ up' = TRUE
    /\ current' = Loaded.current
    /\ processed' = Loaded.processed
    /\ filter' = [s \in Streams |-> InitialFilter(Loaded.current[s])]
    /\ UNCHANGED <<chain, reply, unsaved, disk, history, faults, crashes>>

-----------------------------------------------------------------------------
Listen == \/ \E s \in Streams : LogsOk(s) \/ LogsErr(s)
          \/ Abandon
          \/ ProcessLogs
          \/ SaveBlocksProcessed

Next == (\E S \in SUBSET Streams : Mine(S)) \/ Listen

NextWithRestarts == Next \/ Crash \/ SetupEoServer

\* tokio::select! polls its branches in random order: each query wins again and
\* again. The loop goes on as long as the node runs.
Fairness == /\ \A s \in Streams : SF_vars(LogsOk(s))
            /\ WF_vars(ProcessLogs)
            /\ WF_vars(SaveBlocksProcessed)

Spec == Init /\ [][Next]_vars
FairSpec == Spec /\ Fairness
SpecWithRestarts == Init /\ [][NextWithRestarts]_vars

-----------------------------------------------------------------------------
(***************************************************************************)
(* Properties.                                                             *)
(***************************************************************************)

\* The variables keep the types of the EoServer struct and of BlocksProcessed.
TypeOK ==
    /\ head \in Nat
    /\ event \in [Streams -> SUBSET Nat]
    /\ filter \in [Streams -> Filter]
    /\ current \in [Streams -> Nat]
    /\ processed \in [Streams -> SUBSET Nat]
    /\ reply \in [stream: Streams, blocks: SUBSET Nat] \cup {None}
    /\ unsaved \in BOOLEAN
    /\ up \in BOOLEAN
    /\ file \in BlocksProcessed \cup {None}
    /\ store \in BlocksProcessed \cup {None}
    /\ sent \in [Streams -> SUBSET Nat]
    /\ again \in [Streams -> SUBSET Nat]
    /\ faults \in Nat
    /\ crashes \in Nat

\* A block with logs is processed when a later one is: although
\* increment_bridge_filter moves the range on a count that lags two polls behind the
\* chain, and a failed query passes for an empty one, no event is skipped for good.
NoneSkipped ==
    up => \A s \in Streams : \A b \in event[s] :
             (\E c \in processed[s] : b <= c) => b \in processed[s]

\* The logs of a block are cast to the EoServer actor at most once, whatever
\* overlaps there are between the ranges of successive filters.
CastOnce == \A s \in Streams : again[s] = {}

\* The BlocksProcessed file names only blocks whose logs were cast to the actor,
\* also when the node stops between the cast and the write.
FileIsSound ==
    file # None => \A s \in Streams : file.processed[s] \subseteq sent[s]

\* A block recorded in the file is cast again, after a restart, only when it is the
\* very block the file names as the current one of its filter.
OnlyTheSavedBlockAgain ==
    [][\A s \in Streams : \A b \in again'[s] \ again[s] :
          (file # None /\ b \in file.processed[s]) => b = file.current[s]]_vars

\* Every log of the contract is cast to the actor in the end, in a run without
\* crashes in which the web3 node fails finitely often.
EveryEventIsCast ==
    \A s \in Streams : \A b \in 1..MaxBlock : b \in event[s] ~> b \in sent[s]
=============================================================================
