----------------------------- MODULE BridgeProofs -----------------------------
(* Proofs about EoListener and about Bridge, for every set of streams and every bound: *)
(* the listener's guarantees, carried through the actors to the credits of the accounts. *)
EXTENDS Bridge, TLAPS

USE ZenonT(2), SMTT(60), ZenonT(60)

-----------------------------------------------------------------------------
(* The order of the blocks. *)

\* f lists the blocks of S in the order of their heights.
InOrder(f, S) == Range(f) = S /\ \A i, j \in DOMAIN f : i < j => f[i] < f[j]

\* Every set of blocks up to height h can be listed so. The chain brings the heights one by
\* one, so that this is an invariant and its proof follows the blocks that are mined.
Orderly(h) ==
    \A S \in SUBSET (1..h) : \E n \in 0..h : \E f \in [1..n -> S] : InOrder(f, S)

\* An empty sequence has no members.
LEMMA EmptyRange == Range(<<>>) = {}
BY DEF Range

\* Of no blocks there is one order.
LEMMA OrderlyAtFirst == Orderly(0)
<1> SUFFICES ASSUME NEW S \in SUBSET (1..0)
             PROVE  \E n \in 0..0 : \E f \in [1..n -> S] : InOrder(f, S)
  BY DEF Orderly
<1>1. S = {} /\ 0 \in 0..0 /\ <<>> \in [1..0 -> S] /\ DOMAIN <<>> = {}
  OBVIOUS
<1>2. InOrder(<<>>, S)
  BY <1>1, EmptyRange DEF InOrder
<1> QED
  BY <1>1, <1>2, Zenon

\* With one more block, it comes last.
LEMMA OrderlyNext == ASSUME NEW h \in Nat, Orderly(h) PROVE Orderly(h + 1)
<1> SUFFICES ASSUME NEW T \in SUBSET (1..h + 1)
             PROVE  \E n \in 0..h + 1 : \E f \in [1..n -> T] : InOrder(f, T)
  BY Zenon DEF Orderly
<1> DEFINE m == h + 1
           R == T \ {m}
<1>1. R \in SUBSET (1..h)
  BY SMTT(60)
<1>2. PICK n \in 0..h : \E f \in [1..n -> R] : InOrder(f, R)
  BY <1>1, Zenon DEF Orderly
<1>3. PICK f \in [1..n -> R] : InOrder(f, R)
  BY <1>2, Zenon
<1>4. n \in Nat /\ n \in 0..m /\ n + 1 \in 0..m /\ m \in Nat
  BY SMTT(60)
<1>5. \A b \in R : b < m
  BY <1>1, SMTT(60)
<1> HIDE DEF R, m
<1>6. CASE m \notin T
  <2>1. R = T
    BY <1>6 DEF R
  <2> QED
    BY <1>3, <1>4, <2>1, Zenon DEF m
<1>7. CASE m \in T
  <2> DEFINE g == [i \in 1..n + 1 |-> IF i = n + 1 THEN m ELSE f[i]]
  <2>1. g \in [1..n + 1 -> T] /\ DOMAIN g = 1..n + 1 /\ g[n + 1] = m /\ n + 1 \in 1..n + 1
    BY <1>3, <1>4, <1>7, SMTT(60) DEF R
  <2>2. ASSUME NEW i \in 1..n
        PROVE  i \in 1..n + 1 /\ g[i] = f[i] /\ f[i] \in R
    <3>1. i \in Nat /\ i # n + 1 /\ i \in 1..n + 1
      BY <1>4, SMTT(60)
    <3>2. f[i] \in R
      BY <1>3, Zenon
    <3> QED
      BY <3>1, <3>2
  <2> HIDE DEF g
  <2>3. \A b \in R : \E i \in 1..n : f[i] = b
    BY <1>3 DEF InOrder, Range
  <2>4. \A b \in T : \E i \in 1..n + 1 : g[i] = b
    BY <2>1, <2>2, <2>3 DEF R
  <2>5. Range(g) = T
    BY <2>1, <2>4, Zenon DEF Range
  <2>6. ASSUME NEW i \in 1..n + 1, NEW j \in 1..n + 1, i < j PROVE g[i] < g[j]
    <3>1. i \in 1..n /\ (j = n + 1 \/ j \in 1..n)
      BY <1>4, <2>6, SMTT(60)
    <3>2. j \in 1..n => f[i] < f[j]
      BY <1>3, <2>6, <3>1 DEF InOrder
    <3> QED
      BY <1>5, <2>1, <2>2, <3>1, <3>2
  <2>7. InOrder(g, T)
    BY <2>1, <2>5, <2>6 DEF InOrder
  <2> QED
    BY <1>4, <2>1, <2>7, Zenon DEF m
<1> QED
  BY <1>6, <1>7

\* BTreeSet::last: the highest of a set of heights, or 0 when it is empty.
LEMMA HighestIsLast ==
  ASSUME NEW h \in Nat, Orderly(h), NEW blocks \in SUBSET (1..h)
  PROVE  /\ Highest(blocks) \in Nat
         /\ Highest(blocks) \in blocks \cup {0}
         /\ \A b \in blocks : b <= Highest(blocks)
<1>1. PICK n \in 0..h : \E f \in [1..n -> blocks] : InOrder(f, blocks)
  BY Zenon DEF Orderly
<1>2. PICK f \in [1..n -> blocks] : InOrder(f, blocks)
  BY <1>1, Zenon
<1>3. \A b \in blocks : b \in Nat /\ \E i \in 1..n : f[i] = b
  BY <1>2, SMTT(60) DEF InOrder, Range
<1>4. \E b \in blocks \cup {0} : \A c \in blocks : c <= b
  <2>1. CASE n = 0
    BY <1>3, <2>1
  <2>2. CASE n # 0
    <3>1. n \in 1..n /\ f[n] \in blocks
      BY <2>2, SMTT(60)
    <3>2. \A i \in 1..n : i # n => f[i] < f[n]
      BY <1>2, <3>1 DEF InOrder
    <3>3. ASSUME NEW c \in blocks PROVE c <= f[n]
      <4>1. PICK i \in 1..n : f[i] = c
        BY <1>3
      <4>2. c \in Nat /\ f[n] \in Nat /\ (i = n \/ c < f[n])
        BY <1>3, <3>1, <3>2, <4>1, Zenon
      <4> QED
        BY <4>1, <4>2
    <3> QED
      BY <3>1, <3>3, Zenon
  <2> QED
    BY <2>1, <2>2
<1>5. /\ Highest(blocks) \in blocks \cup {0}
      /\ \A b \in blocks : b <= Highest(blocks)
  BY <1>4, Zenon DEF Highest
<1>6. blocks \cup {0} \subseteq Nat
  BY SMTT(60)
<1> QED
  BY <1>5, <1>6, Zenon

\* parse_bridge_log hands on every event of the cast and no other, in the order of the ids.
LEMMA ParsedEvents ==
  ASSUME NEW h \in 0..MaxBlock, Orderly(h), NEW S \in SUBSET (1..h)
  PROVE  ParseBridgeLog(S) \in Seq(S) /\ InOrder(ParseBridgeLog(S), S)
<1> DEFINE Lists == UNION {[1..n -> S] : n \in 0..MaxBlock}
           f == ParseBridgeLog(S)
<1>1. \E n \in 0..h : \E g \in [1..n -> S] : InOrder(g, S)
  BY Zenon DEF Orderly
<1>2. 0..h \subseteq 0..MaxBlock
  BY BoundsAreNaturals
<1>3. \E g \in Lists : InOrder(g, S)
  BY <1>1, <1>2, Zenon
<1>4. f = CHOOSE g \in Lists : InOrder(g, S)
  BY DEF ParseBridgeLog, InOrder
<1> HIDE DEF Lists, f
<1>5. f \in Lists /\ InOrder(f, S)
  BY <1>3, <1>4, Zenon
<1>6. PICK n \in 0..MaxBlock : f \in [1..n -> S]
  BY <1>5, Zenon DEF Lists
<1>7. f \in Seq(S)
  BY <1>6, BoundsAreNaturals, SMTT(60)
<1> QED
  BY <1>5, <1>7 DEF f

-----------------------------------------------------------------------------
(* The listener by itself. *)

\* The heights the listener holds are heights of blocks with logs.
InChain ==
    /\ Orderly(head)
    /\ \A s \in Streams : \A b \in event[s] : 1 <= b /\ b <= head
    /\ \A s \in Streams : processed[s] \subseteq event[s]
    /\ reply # None => reply.blocks \subseteq event[reply.stream]
    /\ file # None => \A s \in Streams : file.processed[s] \subseteq event[s]
    /\ store # None => \A s \in Streams : store.processed[s] \subseteq event[s]

\* What process_logs computes: the last block among those processed so far and those
\* of the reply, and the filter that starts after it.
LEMMA ProcessLogsFacts ==
  ASSUME TypeOK, InChain, ProcessLogs
  PROVE  \E s \in Streams, found \in SUBSET Nat, last \in Nat :
            /\ s = reply.stream
            /\ found = processed[s] \cup reply.blocks
            /\ reply.blocks \in SUBSET Nat
            /\ found \subseteq event[s]
            /\ last \in found \cup {0}
            /\ \A b \in found : b <= last
            /\ processed' = [processed EXCEPT ![s] = found]
            /\ filter' = [filter EXCEPT ![s] = [from |-> last + 1, to |-> current[s] + 1,
                                                latest |-> FALSE]]
<1> DEFINE s == reply.stream
           found == processed[s] \cup reply.blocks
<1>1. reply \in [stream: Streams, blocks: SUBSET Nat]
  BY DEF ProcessLogs, TypeOK
<1>2. s \in Streams /\ found \in SUBSET Nat /\ found \subseteq event[s]
  BY <1>1 DEF TypeOK, InChain, ProcessLogs
<1>3. head \in Nat /\ Orderly(head) /\ found \in SUBSET (1..head)
  BY <1>2, SMTT(60) DEF TypeOK, InChain
<1>4. /\ Highest(found) \in Nat
      /\ Highest(found) \in found \cup {0}
      /\ \A b \in found : b <= Highest(found)
  <2> HIDE DEF found
  <2> QED
    BY <1>3, HighestIsLast, Zenon
<1>5. /\ processed' = [processed EXCEPT ![s] = found]
      /\ filter' = [filter EXCEPT ![s] = [from |-> Highest(found) + 1,
                                          to |-> current[s] + 1, latest |-> FALSE]]
  BY Zenon DEF ProcessLogs, NextFilter
<1>6. QED
  <2> HIDE DEF found, s
  <2>1. s = reply.stream /\ found = processed[s] \cup reply.blocks
    BY DEF s, found
  <2>2. reply.blocks \in SUBSET Nat
    BY <1>1
  <2>3. QED
    BY <1>2, <1>4, <1>5, <2>1, <2>2, Zenon

\* Init establishes the types and the ranges.
LEMMA TypeInit == Init => TypeOK /\ InChain
<1> SUFFICES ASSUME Init PROVE TypeOK /\ InChain
  OBVIOUS
<1>1. unsaved \in BOOLEAN /\ up \in BOOLEAN
  BY Zenon DEF Init
<1>2. filter \in [Streams -> Filter]
  BY DEF Init, InitialFilter, Filter
<1>3. TypeOK
  BY <1>1, <1>2 DEF Init, TypeOK
<1>4. InChain
  BY OrderlyAtFirst DEF Init, InChain
<1>5. QED
  BY <1>3, <1>4

\* Every step, crashes and restarts included, keeps the types and the ranges.
LEMMA TypeStep == TypeOK /\ InChain /\ [NextWithRestarts]_vars => TypeOK' /\ InChain'
<1> SUFFICES ASSUME TypeOK, InChain, [NextWithRestarts]_vars
             PROVE  TypeOK' /\ InChain'
  OBVIOUS
<1>1. ASSUME NEW S \in SUBSET Streams, Mine(S)
      PROVE  TypeOK' /\ InChain'
  <2>1. TypeOK'
    BY <1>1, SMTT(60) DEF TypeOK, Mine, memory, disk, history
  <2>2. Orderly(head')
    BY <1>1, OrderlyNext DEF TypeOK, InChain, Mine
  <2>3. InChain'
    BY <1>1, <2>2 DEF TypeOK, InChain, Mine, memory, disk, history, BlocksProcessed
  <2>4. QED
    BY <2>1, <2>3
<1>2. ASSUME NEW s \in Streams, LogsOk(s)
      PROVE  TypeOK' /\ InChain'
  BY <1>2 DEF TypeOK, InChain, LogsOk, Idle, chain, disk, history
<1>3. ASSUME NEW s \in Streams, LogsErr(s)
      PROVE  TypeOK' /\ InChain'
  BY <1>3, SMTT(60) DEF TypeOK, InChain, LogsErr, Idle, chain, disk, history
<1>4. CASE Abandon
  BY <1>4, SMTT(60) DEF TypeOK, InChain, Abandon, chain, disk, history
<1>5. CASE ProcessLogs
  <2>1. PICK s \in Streams, found \in SUBSET Nat, last \in Nat :
            /\ s = reply.stream
            /\ found = processed[s] \cup reply.blocks
            /\ reply.blocks \in SUBSET Nat
            /\ found \subseteq event[s]
            /\ last \in found \cup {0}
            /\ \A b \in found : b <= last
            /\ processed' = [processed EXCEPT ![s] = found]
            /\ filter' = [filter EXCEPT ![s] = [from |-> last + 1, to |-> current[s] + 1,
                                                latest |-> FALSE]]
    BY <1>5, ProcessLogsFacts
  <2>2. filter' \in [Streams -> Filter]
    BY <2>1, SMTT(60) DEF TypeOK, Filter
  <2>3. /\ current' \in [Streams -> Nat]
        /\ sent' \in [Streams -> SUBSET Nat]
        /\ again' \in [Streams -> SUBSET Nat]
        /\ processed' \in [Streams -> SUBSET Nat]
        /\ unsaved' \in BOOLEAN
        /\ reply' = None
    BY <1>5, <2>1, ZenonT(60) DEF ProcessLogs, TypeOK
  <2>4. TypeOK'
    BY <1>5, <2>2, <2>3 DEF ProcessLogs, TypeOK, chain, disk
  <2>5. InChain'
    BY <1>5, <2>1, SMTT(60) DEF ProcessLogs, InChain, TypeOK, chain, disk
  <2>6. QED
    BY <2>4, <2>5
<1>6. CASE SaveBlocksProcessed
  BY <1>6, Zenon DEF TypeOK, InChain, SaveBlocksProcessed, chain, history, BlocksProcessed
<1>7. CASE Crash
  <2>1. unsaved' \in BOOLEAN /\ up' \in BOOLEAN
    BY <1>7, Zenon DEF Crash
  <2>2. QED
    BY <1>7, <2>1, SMTT(60) DEF TypeOK, InChain, Crash, chain, disk, history
<1>8. CASE SetupEoServer
  <2>1. Loaded \in BlocksProcessed
    BY DEF Loaded, TypeOK, BlocksProcessed
  <2>2. \A s \in Streams : Loaded.processed[s] \subseteq event[s]
    BY DEF Loaded, InChain
  <2>3. filter' \in [Streams -> Filter]
    BY <1>8, <2>1 DEF SetupEoServer, InitialFilter, Filter, BlocksProcessed
  <2>4. QED
    BY <1>8, <2>1, <2>2, <2>3
       DEF SetupEoServer, TypeOK, InChain, BlocksProcessed, chain, disk, history
<1>9. CASE UNCHANGED vars
  BY <1>9 DEF vars, chain, memory, disk, history, TypeOK, InChain
<1>10. QED
  BY <1>1, <1>2, <1>3, <1>4, <1>5, <1>6, <1>7, <1>8, <1>9
     DEF NextWithRestarts, Next, Listen

\* TypeOK holds in every behaviour, with crashes and restarts of the node anywhere.
THEOREM ListenerTypeOK == SpecWithRestarts => []TypeOK
<1>1. TypeOK /\ InChain /\ [NextWithRestarts]_vars => (TypeOK /\ InChain)'
  BY TypeStep
<1>2. QED
  BY TypeInit, <1>1, PTL DEF SpecWithRestarts

-----------------------------------------------------------------------------
\* While the node runs, the filter of a stream starts above every block processed and
\* leaves no block with logs below it unprocessed, now or when the chain grows.
FilterFollows ==
    \A s \in Streams :
        /\ filter[s].from <= head + 1
        /\ \A b \in processed[s] : b < filter[s].from
        /\ \A b \in event[s] : b < filter[s].from => b \in processed[s]

\* The reply holds blocks of the filter's range, and with a block all those before it.
ReplyIsPrefix ==
    reply # None =>
        LET s == reply.stream
        IN  /\ \A b \in reply.blocks : filter[s].from <= b
            /\ \A b \in event[s], c \in reply.blocks :
                  filter[s].from <= b /\ b <= c => b \in reply.blocks

-----------------------------------------------------------------------------
\* With crashes: what is recorded was cast, and a block recorded in the file is below
\* the filter of its stream unless it is the one the filter was restarted from.
RestartInv ==
    /\ TypeOK /\ InChain
    /\ store = None
    /\ \A s \in Streams : processed[s] \subseteq sent[s]
    /\ FileIsSound
    /\ \A s \in Streams : \A b \in processed[s] : b <= current[s]
    /\ up => \A s \in Streams : \A b \in processed[s] : filter[s].from <= b => b = current[s]
    /\ file # None => \A s \in Streams : \A b \in file.processed[s] : b <= file.current[s]
    /\ (up /\ file # None) =>
          \A s \in Streams : \A b \in file.processed[s] :
              /\ b \in processed[s]
              /\ filter[s].from <= b => b = file.current[s]
    /\ reply # None => up /\ \A b \in reply.blocks : filter[reply.stream].from <= b

\* Init establishes it.
LEMMA RestartInit == Init => RestartInv
<1> SUFFICES ASSUME Init PROVE RestartInv
  OBVIOUS
<1>1. TypeOK /\ InChain
  BY TypeInit
<1>2. QED
  BY <1>1 DEF Init, RestartInv, FileIsSound

\* Every step, crashes and restarts included, keeps it.
LEMMA RestartStep == RestartInv /\ [NextWithRestarts]_vars => RestartInv'
<1> SUFFICES ASSUME RestartInv, [NextWithRestarts]_vars PROVE RestartInv'
  OBVIOUS
<1> USE DEF RestartInv
<1>0. TypeOK' /\ InChain'
  BY TypeStep
<1>1. ASSUME NEW S \in SUBSET Streams, Mine(S)
      PROVE  RestartInv'
  BY <1>0, <1>1 DEF Mine, memory, disk, history, FileIsSound
<1>2. ASSUME NEW s \in Streams, LogsOk(s)
      PROVE  RestartInv'
  BY <1>0, <1>2 DEF LogsOk, Idle, InRange, chain, disk, history, FileIsSound
<1>3. ASSUME NEW s \in Streams, LogsErr(s)
      PROVE  RestartInv'
  BY <1>0, <1>3 DEF LogsErr, Idle, chain, disk, history, FileIsSound
<1>4. CASE Abandon
  BY <1>0, <1>4 DEF Abandon, chain, disk, history, FileIsSound
<1>5. CASE ProcessLogs
  <2>1. PICK s \in Streams, found \in SUBSET Nat, last \in Nat :
            /\ s = reply.stream
            /\ found = processed[s] \cup reply.blocks
            /\ reply.blocks \in SUBSET Nat
            /\ found \subseteq event[s]
            /\ last \in found \cup {0}
            /\ \A b \in found : b <= last
            /\ processed' = [processed EXCEPT ![s] = found]
            /\ filter' = [filter EXCEPT ![s] = [from |-> last + 1, to |-> current[s] + 1,
                                                latest |-> FALSE]]
    BY <1>5, ProcessLogsFacts
  <2>2. /\ reply' = None /\ up' = up /\ file' = file /\ store' = store
        /\ current' = [current EXCEPT ![s] = head]
        /\ sent' = [sent EXCEPT ![s] = @ \cup reply.blocks]
    BY <1>5, <2>1 DEF ProcessLogs, disk
  <2>3. (\A t \in Streams : processed[t] \subseteq sent[t])'
    BY <2>1, <2>2 DEF TypeOK
  <2>4. FileIsSound'
    BY <2>1, <2>2 DEF FileIsSound, TypeOK
  <2>5. (\A t \in Streams : \A b \in processed[t] : b <= current[t])'
    BY <2>1, <2>2 DEF TypeOK, InChain
  <2>6. /\ processed'[s] = found /\ filter'[s].from = last + 1
        /\ \A b \in found : ~(last + 1 <= b)
        /\ \A t \in Streams \ {s} : /\ processed'[t] = processed[t]
                                    /\ filter'[t] = filter[t]
                                    /\ current'[t] = current[t]
    BY <2>1, <2>2, SMTT(60) DEF TypeOK
  <2>7. (up => \A t \in Streams : \A b \in processed[t] :
                  filter[t].from <= b => b = current[t])'
    BY <2>1, <2>2, <2>6, SMTT(60)
  <2>8. ((up /\ file # None) =>
          \A t \in Streams : \A b \in file.processed[t] :
              /\ b \in processed[t]
              /\ filter[t].from <= b => b = file.current[t])'
    BY <2>1, <2>2, <2>6, SMTT(60)
  <2>9. QED
    BY <1>0, <2>2, <2>3, <2>4, <2>5, <2>7, <2>8
<1>6. CASE SaveBlocksProcessed
  BY <1>0, <1>6 DEF SaveBlocksProcessed, chain, history, FileIsSound
<1>7. CASE Crash
  BY <1>0, <1>7 DEF Crash, chain, disk, history, FileIsSound
<1>8. CASE SetupEoServer
  <2>1. CASE file = None
    <3>1. \A s \in Streams : processed'[s] = {}
      BY <1>8, <2>1 DEF SetupEoServer, Loaded
    <3>2. file' = None /\ store' = None /\ reply' = None
      BY <1>8, <2>1 DEF SetupEoServer, disk
    <3>3. QED
      BY <1>0, <3>1, <3>2, ZenonT(60) DEF FileIsSound
  <2>2. CASE file # None
    <3>1. /\ file \in BlocksProcessed /\ Loaded = file
          /\ \A s \in Streams : file.current[s] \in Nat /\ file.processed[s] \subseteq Nat
      BY <2>2 DEF Loaded, TypeOK, BlocksProcessed
    <3>2. /\ processed' = file.processed /\ current' = file.current
          /\ \A s \in Streams : filter'[s].from = file.current[s]
          /\ file' = file /\ store' = store /\ sent' = sent /\ reply' = reply
      BY <1>8, <3>1 DEF SetupEoServer, InitialFilter, disk, history
    <3>3. reply = None
      BY <1>8 DEF SetupEoServer
    <3>4. QED
      BY <1>0, <2>2, <3>1, <3>2, <3>3, SMTT(60) DEF FileIsSound
  <2>3. QED
    BY <2>1, <2>2
<1>9. CASE UNCHANGED vars
  BY <1>0, <1>9 DEF vars, chain, memory, disk, history, FileIsSound
<1>10. QED
  BY <1>1, <1>2, <1>3, <1>4, <1>5, <1>6, <1>7, <1>8, <1>9, ZenonT(30)
     DEF NextWithRestarts, Next, Listen

\* The file never names a block whose logs were not cast, wherever the node crashes.
THEOREM FileNamesOnlyCastBlocks == SpecWithRestarts => []FileIsSound
<1>1. RestartInv => FileIsSound
  BY DEF RestartInv
<1>2. QED
  BY RestartInit, RestartStep, <1>1, PTL DEF SpecWithRestarts

\* After a restart only the block the file names as current may be cast a second time.
THEOREM SavedBlocksAreNotCastAgain == SpecWithRestarts => OnlyTheSavedBlockAgain
<1>1. RestartInv /\ [NextWithRestarts]_vars =>
        [\A s \in Streams : \A b \in again'[s] \ again[s] :
            (file # None /\ b \in file.processed[s]) => b = file.current[s]]_vars
  <2> SUFFICES ASSUME RestartInv, NextWithRestarts,
                      NEW s \in Streams, NEW b \in again'[s] \ again[s],
                      file # None, b \in file.processed[s]
               PROVE  b = file.current[s]
    OBVIOUS
  <2>1. ProcessLogs
    BY ZenonT(60) DEF NextWithRestarts, Next, Listen, Mine, LogsOk, LogsErr, Abandon,
           SaveBlocksProcessed, Crash, SetupEoServer, history
  <2>2. s = reply.stream /\ b \in reply.blocks
    BY <2>1, SMTT(60) DEF ProcessLogs, RestartInv, TypeOK
  <2>3. QED
    BY <2>1, <2>2 DEF RestartInv, ProcessLogs
<1>2. QED
  BY RestartInit, RestartStep, <1>1, PTL DEF SpecWithRestarts, OnlyTheSavedBlockAgain

-----------------------------------------------------------------------------
(* What the listener asks for after a restart. *)

\* The filter leaves no block with a deposit below it unprocessed, from the height it was
\* restarted at; a block processed is below it or not above that height.
FilterResumes ==
    up => /\ \A c \in processed[Deposits] : c < filter[Deposits].from \/ c <= resumed
          /\ \A b \in event[Deposits] :
                resumed <= b /\ b < filter[Deposits].from => b \in processed[Deposits]
          /\ filter[Deposits].from <= head + 1

\* The heights the listener counts to are heights of the chain.
Heights ==
    /\ head <= MaxBlock
    /\ \A s \in Streams : current[s] <= head /\ sent[s] \subseteq event[s]
    /\ file # None => \A s \in Streams : file.current[s] <= head

SkipInv == RestartInv /\ Heights /\ ReplyIsPrefix /\ resumed \in Nat /\ FilterResumes

-----------------------------------------------------------------------------
(* Where a deposit can be. *)

\* Deposits on their way to the list of bridge-ins.
Cast == (UNION Range(logs)) \union (UNION {Range(f) : f \in futures})
Coming == Cast \union Range(new)

BridgeTypes ==
    /\ logs \in Seq(SUBSET Blocks)
    /\ futures \in SUBSET Seq(Blocks)
    /\ new \in Seq(Blocks)
    /\ bridgeIns \in SUBSET Blocks
    /\ applying \in SUBSET bridgeIns
    /\ held \in [Txs -> [Blocks -> Nat] \union {None}]
    /\ credits \in [Blocks -> Nat]
    /\ persisted \in [Blocks -> Nat]
    /\ doubtful \in SUBSET Blocks

\* No copy of an account, in the cache, in the store or held by the batcher, has more than
\* n credits of the deposit.
AtMost(b, n) ==
    /\ credits[b] <= n /\ persisted[b] <= n
    /\ \A t \in Txs : held[t] # None => held[t][b] <= n

\* A deposit that no restart may cast again is cast once: it is behind the filter from then
\* on, it is credited at most once, and not at all while it is on its way.
Once(b) ==
    /\ up /\ b \in sent[Deposits] => b \in processed[Deposits] /\ b < filter[Deposits].from
    /\ AtMost(b, 1)
    /\ b \in applying \/ held[b] # None \/ (b \in Coming /\ b \notin bridgeIns) => AtMost(b, 0)

CreditInv ==
    /\ BridgeTypes
    /\ Coming \union bridgeIns \subseteq sent[Deposits]
    /\ \A b \in Blocks \ sent[Deposits] : AtMost(b, 0)
    /\ \A b \in Blocks : held[b] # None => b \in bridgeIns \ applying
    /\ \A b \in Blocks \ doubtful : Once(b)

\* A deposit in the list of bridge-ins is credited or being applied.
Reached(b) == b \in applying \/ held[b] # None \/ credits[b] > 0

\* The accounts the batcher holds have the credits of the cache, but for deposits whose
\* account was held by two transactions at a time.
Agree(t, b) ==
    held[t] # None /\ UserOf[t] = UserOf[b] => /\ held[t][b] = credits[b]
                                               /\ t # b => held[b] = None

\* Without a crash or a fault nothing is dropped on the way, and only a deposit whose account
\* was held by two transactions at a time is lost from its account.
Intact ==
    /\ sent[Deposits] \subseteq Coming \union bridgeIns
    /\ \A b \in bridgeIns \ overlapped : Reached(b)
    /\ \A t \in Txs, b \in Blocks \ overlapped : Agree(t, b)
NothingLost ==
    /\ crashes = 0 => up /\ doubtful = {}
    /\ crashes = 0 /\ faults = 0 => Intact

BridgeInv == SkipInv /\ CreditInv /\ NothingLost

-----------------------------------------------------------------------------
(* The invariant holds at first, and says what the theorems say. *)

\* A listener and a bridge that have just started.
LEMMA BridgeInvInit == BridgeInit => BridgeInv
<1> SUFFICES ASSUME BridgeInit PROVE BridgeInv
  OBVIOUS
<1>0. Init /\ Deposits \in Streams
  BY DepositsIsAStream DEF BridgeInit
<1>1. RestartInv
  BY <1>0, RestartInit
<1>2. Heights /\ ReplyIsPrefix
  BY <1>0, BoundsAreNaturals DEF Init, Heights, ReplyIsPrefix
<1>3. FilterResumes /\ resumed \in Nat
  BY <1>0, SMTT(60) DEF BridgeInit, Init, FilterResumes, InitialFilter
<1>4. BridgeTypes
  <2>1. <<>> \in Seq(SUBSET Blocks) /\ <<>> \in Seq(Blocks)
    OBVIOUS
  <2> QED
    BY <2>1 DEF BridgeInit, BridgeTypes, NoCredits
<1>5. Coming = {}
  BY EmptyRange DEF BridgeInit, Coming, Cast
<1>6. /\ sent[Deposits] = {} /\ bridgeIns = {} /\ applying = {}
      /\ \A b \in Blocks : credits[b] = 0 /\ persisted[b] = 0
      /\ \A t \in Txs : held[t] = None
  BY <1>0 DEF Init, BridgeInit, NoCredits
<1>7. \A b \in Blocks : AtMost(b, 0) /\ AtMost(b, 1) /\ Once(b)
  BY <1>5, <1>6 DEF Once, AtMost
<1>8. CreditInv
  BY <1>4, <1>5, <1>6, <1>7 DEF CreditInv, Txs
<1>9. NothingLost
  BY <1>0, <1>6 DEF NothingLost, Intact, Agree, BridgeInit, Init
<1> QED
  BY <1>1, <1>2, <1>3, <1>8, <1>9 DEF BridgeInv, SkipInv

\* Between the height the node resumed from and the filter, every block is processed.
LEMMA BridgeInvSkips == BridgeInv => SkippedOnlyBelowRestart
<1> SUFFICES ASSUME BridgeInv, up, NEW b \in event[Deposits], NEW c \in processed[Deposits],
                    b <= c, ~(b < resumed)
             PROVE  b \in processed[Deposits]
  BY ZenonT(30) DEF SkippedOnlyBelowRestart
<1>1. /\ b \in Nat /\ c \in Nat /\ resumed \in Nat /\ filter[Deposits].from \in Nat
      /\ c < filter[Deposits].from \/ c <= resumed
      /\ resumed <= b /\ b < filter[Deposits].from => b \in processed[Deposits]
  BY DepositsIsAStream DEF BridgeInv, SkipInv, RestartInv, TypeOK, InChain, Filter, FilterResumes
<1>2. CASE c < filter[Deposits].from
  BY <1>1, <1>2
<1>3. CASE c <= resumed
  <2>1. b = c
    BY <1>1, <1>3
  <2> QED
    BY <2>1, ZenonT(30)
<1> QED
  BY <1>1, <1>2, <1>3, ZenonT(30)

\* A credit stands for a log that was sent, and one that no restart made doubtful came once.
LEMMA BridgeInvReal == BridgeInv => DepositsAreReal
<1> SUFFICES ASSUME BridgeInv, NEW b \in Blocks
             PROVE  /\ credits[b] > 0 => b \in event[Deposits]
                    /\ credits[b] > 1 => b \in doubtful
  BY DEF DepositsAreReal
<1>1. credits[b] \in Nat
  BY DEF BridgeInv, CreditInv, BridgeTypes
<1>2. sent[Deposits] \subseteq event[Deposits]
  BY DepositsIsAStream DEF BridgeInv, SkipInv, Heights
<1>3. b \notin doubtful => credits[b] <= 1
  BY DEF BridgeInv, CreditInv, Once, AtMost
<1>4. b \notin sent[Deposits] => credits[b] <= 0
  BY DEF BridgeInv, CreditInv, AtMost
<1> QED
  BY <1>1, <1>2, <1>3, <1>4

\* The file names blocks whose logs were sent; without a fault those are credited or coming.
LEMMA BridgeInvCredited == BridgeInv => SavedIsCredited
<1> SUFFICES ASSUME BridgeInv, NEW b \in Blocks, file # None,
                    b \in file.processed[Deposits], crashes = 0, faults = 0,
                    b \notin overlapped
             PROVE  \/ credits[b] = 1 \/ held[b] # None
                    \/ b \in applying \union Range(new) \union UNION Range(logs)
                    \/ \E f \in futures : b \in Range(f)
  BY DEF SavedIsCredited
<1>1. b \in sent[Deposits]
  BY DepositsIsAStream DEF BridgeInv, SkipInv, RestartInv, FileIsSound
<1>2. doubtful = {} /\ (b \in Coming \/ Reached(b))
  BY <1>1 DEF BridgeInv, NothingLost, Intact
<1>3. credits[b] \in Nat /\ credits[b] <= 1
  BY <1>2 DEF BridgeInv, CreditInv, BridgeTypes, Once, AtMost
<1>4. credits[b] > 0 => credits[b] = 1
  BY <1>3
<1> QED
  BY <1>2, <1>4 DEF Coming, Cast, Reached

-----------------------------------------------------------------------------
(* Sequences. *)

\* What is appended to a channel joins what is in it.
LEMMA AppendRange ==
  ASSUME NEW S, NEW s \in Seq(S), NEW e \in S
  PROVE  Append(s, e) \in Seq(S) /\ Range(Append(s, e)) = Range(s) \union {e}
<1>1. /\ Append(s, e) \in Seq(S)
      /\ DOMAIN Append(s, e) = 1..Len(s) + 1 /\ DOMAIN s = 1..Len(s) /\ Len(s) \in Nat
      /\ \A i \in 1..Len(s) : Append(s, e)[i] = s[i]
      /\ Append(s, e)[Len(s) + 1] = e
  OBVIOUS
<1> QED
  BY <1>1, SMTT(60) DEF Range

\* What is taken from a channel leaves the rest in it.
LEMMA TailRange ==
  ASSUME NEW S, NEW s \in Seq(S), s # <<>>
  PROVE  /\ Tail(s) \in Seq(S) /\ Head(s) \in S
         /\ Range(s) = Range(Tail(s)) \union {Head(s)}
<1>1. /\ Tail(s) \in Seq(S) /\ Head(s) = s[1] /\ Head(s) \in S
      /\ Len(s) \in Nat /\ Len(s) > 0
      /\ DOMAIN Tail(s) = 1..Len(s) - 1 /\ DOMAIN s = 1..Len(s)
      /\ \A i \in 1..Len(s) - 1 : Tail(s)[i] = s[i + 1]
  OBVIOUS
<1>2. ASSUME NEW i \in 1..Len(s) PROVE s[i] \in Range(Tail(s)) \union {Head(s)}
  <2>1. CASE i = 1
    BY <1>1, <2>1
  <2>2. CASE i # 1
    <3>1. i - 1 \in 1..Len(s) - 1 /\ Tail(s)[i - 1] = s[i]
      BY <1>1, <2>2, SMTT(60)
    <3> QED
      BY <1>1, <3>1, ZenonT(30) DEF Range
  <2> QED
    BY <2>1, <2>2
<1>3. Range(Tail(s)) \subseteq Range(s)
  BY <1>1, SMTT(60) DEF Range
<1>4. Head(s) \in Range(s)
  BY <1>1, SMTT(60) DEF Range
<1> QED
  BY <1>1, <1>2, <1>3, <1>4, SMTT(60) DEF Range

\* A sequence put after another joins what is in it.
LEMMA ConcatRange ==
  ASSUME NEW S, NEW s \in Seq(S), NEW t \in Seq(S)
  PROVE  s \o t \in Seq(S) /\ Range(s \o t) = Range(s) \union Range(t)
<1>1. /\ s \o t \in Seq(S) /\ Len(s) \in Nat /\ Len(t) \in Nat
      /\ DOMAIN (s \o t) = 1..Len(s) + Len(t)
      /\ DOMAIN s = 1..Len(s) /\ DOMAIN t = 1..Len(t)
      /\ \A i \in 1..Len(s) + Len(t) :
           (s \o t)[i] = IF i <= Len(s) THEN s[i] ELSE t[i - Len(s)]
  OBVIOUS
<1>2. ASSUME NEW i \in 1..Len(s) + Len(t) PROVE (s \o t)[i] \in Range(s) \union Range(t)
  <2>1. CASE i <= Len(s)
    BY <1>1, <2>1, SMTT(60) DEF Range
  <2>2. CASE ~(i <= Len(s))
    <3>1. i - Len(s) \in 1..Len(t) /\ (s \o t)[i] = t[i - Len(s)]
      BY <1>1, <2>2
    <3> QED
      BY <1>1, <3>1 DEF Range
  <2> QED
    BY <2>1, <2>2
<1>3. ASSUME NEW i \in 1..Len(s) PROVE s[i] \in Range(s \o t)
  <2>1. i \in 1..Len(s) + Len(t) /\ (s \o t)[i] = s[i]
    BY <1>1
  <2> QED
    BY <1>1, <2>1 DEF Range
<1>4. ASSUME NEW i \in 1..Len(t) PROVE t[i] \in Range(s \o t)
  <2>1. i + Len(s) \in 1..Len(s) + Len(t) /\ ~(i + Len(s) <= Len(s)) /\ i + Len(s) - Len(s) = i
    BY <1>1
  <2>2. (s \o t)[i + Len(s)] = t[i]
    BY <1>1, <2>1
  <2> QED
    BY <1>1, <2>1, <2>2 DEF Range
<1> QED
  BY <1>1, <1>2, <1>3, <1>4, SMTT(60) DEF Range

\* What is left of a channel was in it.
LEMMA PrefixRange ==
  ASSUME NEW S, NEW s \in Seq(S), NEW n \in 0..Len(s) - 1
  PROVE  SubSeq(s, 1, n) \in Seq(S) /\ Range(SubSeq(s, 1, n)) \subseteq Range(s)
<1>1. /\ Len(s) \in Nat /\ DOMAIN s = 1..Len(s)
      /\ SubSeq(s, 1, n) \in Seq(S) /\ DOMAIN SubSeq(s, 1, n) = 1..n
      /\ \A i \in 1..n : SubSeq(s, 1, n)[i] = s[i]
  OBVIOUS
<1> QED
  BY <1>1, SMTT(60) DEF Range

-----------------------------------------------------------------------------
(* The listener within the bridge. *)

\* The steps of the actors leave the listener alone; a fault of an actor is counted with
\* those of the web3 node.
ListenerIdle == UNCHANGED <<chain, memory, up, disk, history, crashes>> /\ faults' \in {faults, faults + 1}

\* The steps of the node and of the chain, one by one.
LEMMA BridgeSteps ==
  ASSUME [BridgeNext]_bridgeVars
  PROVE  \/ Chain \/ (\E s \in Streams : LogsOk(s) /\ UNCHANGED bridge) \/ CastLogs
         \/ Save \/ Fails \/ NodeCrash \/ NodeStart
         \/ /\ ListenerIdle /\ UNCHANGED restarts
            /\ \/ Deposit \/ (\E t \in Txs : Apply(t)) \/ (\E u \in Users : PutAccount(u))
               \/ UNCHANGED bridgeVars
<1>1. ASSUME Deposit PROVE ListenerIdle /\ UNCHANGED restarts
  <2>1. CASE HandleLog
    BY <2>1 DEF HandleLog, ListenerIdle
  <2>2. CASE NewBridgeIn
    BY <2>2 DEF NewBridgeIn, ListenerIdle, vars
  <2>3. CASE \E f \in futures : HandleBridgeEvent(f)
    BY <2>3 DEF HandleBridgeEvent, ListenerIdle
  <2> QED
    BY <1>1, <2>1, <2>2, <2>3 DEF Deposit
<1>2. ASSUME NEW t \in Txs, Apply(t) PROVE ListenerIdle /\ UNCHANGED restarts
  BY <1>2 DEF Apply, ReadAccount, WriteAccount, ListenerIdle, vars
<1>4. ASSUME NEW u \in Users, PutAccount(u) PROVE ListenerIdle /\ UNCHANGED restarts
  BY <1>4 DEF PutAccount, ListenerIdle
<1>3. ASSUME UNCHANGED bridgeVars PROVE ListenerIdle /\ UNCHANGED restarts
  BY <1>3 DEF bridgeVars, bridge, ListenerIdle, vars
<1> QED
  BY <1>1, <1>2, <1>3, <1>4 DEF BridgeNext, Poll

\* Seen by the listener, a step of the node is one of its own or nothing.
LEMMA ListenerSteps ==
  ASSUME [BridgeNext]_bridgeVars PROVE NextWithRestarts \/ ListenerIdle
<1>1. CASE Chain
  BY <1>1 DEF Chain, NextWithRestarts, Next
<1>2. CASE \E s \in Streams : LogsOk(s) /\ UNCHANGED bridge
  BY <1>2 DEF NextWithRestarts, Next, Listen
<1>3. CASE CastLogs
  BY <1>3 DEF CastLogs, NextWithRestarts, Next, Listen
<1>4. CASE Save
  BY <1>4 DEF Save, NextWithRestarts, Next, Listen
<1>5. CASE Fails
  BY <1>5 DEF Fails, NextWithRestarts, Next, Listen
<1>6. CASE NodeCrash
  BY <1>6 DEF NodeCrash, NextWithRestarts
<1>7. CASE NodeStart
  BY <1>7 DEF NodeStart, NextWithRestarts
<1> QED
  BY <1>1, <1>2, <1>3, <1>4, <1>5, <1>6, <1>7, BridgeSteps

-----------------------------------------------------------------------------
(* What each step does to the deposits on their way. *)

\* The logs the listener casts, and no others, join the deposits on their way.
LEMMA CastLogsComing ==
  ASSUME SkipInv, BridgeTypes, CastLogs
  PROVE  /\ BridgeTypes'
         /\ reply.stream = Deposits => reply.blocks \subseteq Blocks
         /\ Coming' = Coming \union (IF reply.stream = Deposits THEN reply.blocks ELSE {})
<1>1. /\ UNCHANGED <<futures, new, bridgeIns, applying, held, credits, persisted, overlapped, doubtful>>
      /\ logs' = IF reply.blocks = {} \/ reply.stream # Deposits THEN logs
                 ELSE Append(logs, reply.blocks)
      /\ reply # None
  BY ZenonT(30) DEF CastLogs, accounts, restarts, ProcessLogs
<1>2. reply.stream = Deposits => reply.blocks \subseteq Blocks
  <2> SUFFICES ASSUME reply.stream = Deposits, NEW b \in reply.blocks PROVE b \in Blocks
    OBVIOUS
  <2>1. b \in Nat /\ 1 <= b /\ b <= head /\ head <= MaxBlock /\ head \in Nat
    BY <1>1, DepositsIsAStream, ZenonT(30) DEF SkipInv, RestartInv, TypeOK, InChain, Heights
  <2> QED
    BY <2>1, BoundsAreNaturals DEF Blocks
<1>3. CASE reply.blocks = {} \/ reply.stream # Deposits
  <2>1. logs' = logs
    BY <1>1, <1>3, ZenonT(30)
  <2> QED
    BY <1>1, <1>2, <1>3, <2>1 DEF BridgeTypes, Coming, Cast
<1>4. CASE ~(reply.blocks = {} \/ reply.stream # Deposits)
  <2>1. logs' = Append(logs, reply.blocks) /\ logs \in Seq(SUBSET Blocks)
    BY <1>1, <1>4 DEF BridgeTypes
  <2>2. logs' \in Seq(SUBSET Blocks) /\ Range(logs') = Range(logs) \union {reply.blocks}
    BY <1>2, <1>4, <2>1, AppendRange, SMTT(60)
  <2>3. Coming' = Coming \union reply.blocks
    BY <1>1, <2>2, ZenonT(60) DEF Coming, Cast
  <2> QED
    BY <1>1, <1>2, <1>4, <2>2, <2>3 DEF BridgeTypes
<1> QED
  BY <1>3, <1>4

\* The actor moves a log on, or drops it and counts a fault.
LEMMA HandleLogComing ==
  ASSUME SkipInv, CreditInv, HandleLog
  PROVE  /\ BridgeTypes'
         /\ Coming' \subseteq Coming
         /\ faults' = faults \/ faults' = faults + 1
         /\ Coming' = Coming \/ faults' = faults + 1
<1> DEFINE B == Head(logs)
<1>0. BridgeTypes
  BY DEF CreditInv
<1>1. /\ UNCHANGED <<new, bridgeIns, applying, held, credits, persisted, overlapped, doubtful>>
      /\ logs # <<>> /\ logs' = Tail(logs) /\ logs \in Seq(SUBSET Blocks)
  BY <1>0 DEF HandleLog, accounts, restarts, BridgeTypes
<1>2. /\ logs' \in Seq(SUBSET Blocks) /\ B \in SUBSET Blocks
      /\ Range(logs) = Range(logs') \union {B}
  BY <1>1, TailRange
<1> HIDE DEF B
<1>3. ParseBridgeLog(B) \in Seq(Blocks) /\ Range(ParseBridgeLog(B)) = B
  <2>1. B \subseteq event[Deposits]
    <3>1. B \subseteq sent[Deposits]
      BY <1>2, ZenonT(60) DEF CreditInv, Coming, Cast
    <3> QED
      BY <3>1, DepositsIsAStream DEF SkipInv, Heights
  <2>2. head \in 0..MaxBlock /\ Orderly(head) /\ B \in SUBSET (1..head)
    BY <2>1, DepositsIsAStream, SMTT(60) DEF SkipInv, RestartInv, Heights, TypeOK, InChain
  <2>3. ParseBridgeLog(B) \in Seq(B) /\ Range(ParseBridgeLog(B)) = B
    BY <2>2, ParsedEvents, Zenon DEF InOrder
  <2> QED
    BY <1>2, <2>3, SMTT(60)
<1>4. CASE futures' = futures \union {ParseBridgeLog(B)} /\ faults' = faults
  <2>1. BridgeTypes'
    BY <1>0, <1>1, <1>2, <1>3, <1>4 DEF BridgeTypes
  <2>2. Cast' = Cast
    BY <1>2, <1>3, <1>4, SMTT(60) DEF Cast
  <2> QED
    BY <1>1, <1>4, <2>1, <2>2 DEF Coming
<1>5. CASE futures' = futures /\ faults' = faults + 1
  BY <1>0, <1>1, <1>2, <1>5 DEF BridgeTypes, Coming, Cast
<1> QED
  BY <1>4, <1>5 DEF HandleLog, B

\* The future of a log moves its events on, or drops them and counts a fault.
LEMMA HandleBridgeEventComing ==
  ASSUME BridgeTypes, NEW f \in futures, HandleBridgeEvent(f)
  PROVE  /\ BridgeTypes'
         /\ Coming' \subseteq Coming
         /\ faults' = faults \/ faults' = faults + 1
         /\ Coming' = Coming \/ faults' = faults + 1
<1>1. /\ UNCHANGED <<logs, bridgeIns, applying, held, credits, persisted, overlapped, doubtful>>
      /\ futures' = futures \ {f}
      /\ f \in Seq(Blocks) /\ new \in Seq(Blocks)
  BY DEF HandleBridgeEvent, accounts, restarts, BridgeTypes
<1>2. (UNION {Range(g) : g \in futures}) = (UNION {Range(g) : g \in futures'}) \union Range(f)
  BY <1>1
<1>3. CASE new' = new \o f /\ faults' = faults
  <2>1. new' \in Seq(Blocks) /\ Range(new') = Range(new) \union Range(f)
    BY <1>1, <1>3, ConcatRange, SMTT(60)
  <2>2. BridgeTypes'
    BY <1>1, <2>1 DEF BridgeTypes
  <2> QED
    BY <1>1, <1>2, <1>3, <2>1, <2>2 DEF Coming, Cast
<1>4. ASSUME faults' = faults + 1, NEW n \in 0..Len(f) - 1, new' = new \o SubSeq(f, 1, n)
      PROVE  BridgeTypes' /\ Coming' \subseteq Coming
  <2>0. n \in 0..Len(f)
    BY <1>1
  <2>1. SubSeq(f, 1, n) \in Seq(Blocks) /\ Range(SubSeq(f, 1, n)) \subseteq Range(f)
    BY <1>1, <2>0, PrefixRange
  <2> DEFINE g == SubSeq(f, 1, n)
  <2> HIDE DEF g
  <2>2. new' \in Seq(Blocks) /\ Range(new') \subseteq Range(new) \union Range(f)
    <3>1. new' = new \o g /\ g \in Seq(Blocks) /\ Range(g) \subseteq Range(f)
      BY <1>4, <2>1 DEF g
    <3>2. new \o g \in Seq(Blocks) /\ Range(new \o g) = Range(new) \union Range(g)
      BY <1>1, <3>1, ConcatRange, SMTT(60)
    <3> QED
      BY <3>1, <3>2
  <2>3. BridgeTypes'
    BY <1>1, <2>2 DEF BridgeTypes
  <2> QED
    BY <1>1, <1>2, <2>2, <2>3 DEF Coming, Cast
<1> QED
  BY <1>3, <1>4 DEF HandleBridgeEvent

\* The deposit at the head of the queue is taken off it and was on its way.
LEMMA NewBridgeInComing ==
  ASSUME BridgeTypes, NewBridgeIn
  PROVE  /\ BridgeTypes'
         /\ Head(new) \in Coming
         /\ Coming = Coming' \union {Head(new)}
<1>1. /\ UNCHANGED <<logs, futures, held, credits, persisted, overlapped, doubtful>>
      /\ new # <<>> /\ new' = Tail(new) /\ new \in Seq(Blocks)
      /\ applying' = IF Head(new) \in bridgeIns THEN applying
                     ELSE applying \union {Head(new)}
      /\ bridgeIns' = bridgeIns \union {Head(new)}
  BY DEF NewBridgeIn, accounts, restarts, BridgeTypes
<1>2. /\ new' \in Seq(Blocks) /\ Head(new) \in Blocks
      /\ Range(new) = Range(new') \union {Head(new)}
  BY <1>1, TailRange
<1>3. BridgeTypes'
  BY <1>1, <1>2 DEF BridgeTypes
<1> QED
  BY <1>1, <1>2, <1>3 DEF Coming, Cast

-----------------------------------------------------------------------------
(* How often a deposit is credited: CreditInv is preserved. *)

\* Steps that only move deposits on, or drop them.
LEMMA CreditFrame ==
  ASSUME CreditInv, BridgeTypes', Coming' \subseteq Coming,
         UNCHANGED <<bridgeIns, applying, held, credits, persisted, overlapped, doubtful>>,
         up' => up, sent'[Deposits] = sent[Deposits],
         up' => /\ processed'[Deposits] = processed[Deposits]
                /\ filter'[Deposits].from = filter[Deposits].from
  PROVE  CreditInv'
<1>1. ASSUME NEW b, NEW n PROVE AtMost(b, n)' = AtMost(b, n)
  BY Zenon DEF AtMost
<1>2. ASSUME NEW b \in Blocks \ doubtful, Once(b) PROVE Once(b)'
  BY <1>1, <1>2 DEF Once
<1> QED
  BY <1>1, <1>2 DEF CreditInv

\* What the batcher reads and writes of a deposit other than its own it found in the cache.
LEMMA AtMostKept ==
  ASSUME BridgeTypes, NEW b \in Blocks, NEW n \in Nat, AtMost(b, n),
         \/ UNCHANGED <<held, credits, persisted>>
         \/ \E t \in Txs : ReadAccount(t) \/ (t # b /\ WriteAccount(t))
         \/ \E u \in Users : PutAccount(u)
         \/ NodeCrash
  PROVE  AtMost(b, n)'
<1>1. /\ credits[b] \in Nat /\ persisted[b] \in Nat /\ credits[b] <= n /\ persisted[b] <= n
      /\ \A x \in Txs : held[x] # None => held[x][b] <= n
      /\ held \in [Txs -> [Blocks -> Nat] \union {None}]
  BY DEF BridgeTypes, AtMost
<1>2. CASE UNCHANGED <<held, credits, persisted>>
  BY <1>2, Zenon DEF AtMost
<1>3. ASSUME NEW t \in Txs, ReadAccount(t) PROVE AtMost(b, n)'
  <2>1. PICK a : /\ held' = [held EXCEPT ![t] = a] /\ UNCHANGED <<credits, persisted>>
                 /\ a = Account(UserOf[t], credits) \/ a = NoCredits
    BY <1>3, Zenon DEF ReadAccount
  <2>2. a[b] <= n
    BY <1>1, <2>1, SMTT(60) DEF Account, NoCredits
  <2> QED
    BY <1>1, <2>1, <2>2 DEF AtMost
<1>4. ASSUME NEW t \in Txs, t # b, WriteAccount(t) PROVE AtMost(b, n)'
  <2>1. /\ held' = [held EXCEPT ![t] = None] /\ persisted' = persisted
        /\ held[t] # None /\ held[t] \in [Blocks -> Nat]
        /\ credits'[b] = IF UserOf[b] # UserOf[t] THEN credits[b] ELSE held[t][b] + 0
    BY <1>1, <1>4 DEF WriteAccount
  <2>2. credits'[b] <= n
    BY <1>1, <2>1
  <2> QED
    BY <1>1, <2>1, <2>2 DEF AtMost
<1>5. ASSUME NEW u \in Users, PutAccount(u) PROVE AtMost(b, n)'
  <2>1. /\ UNCHANGED <<held, credits>>
        /\ persisted'[b] = persisted[b] \/ persisted'[b] = credits[b]
    BY <1>5 DEF PutAccount
  <2> QED
    BY <1>1, <2>1 DEF AtMost
<1>6. CASE NodeCrash
  <2>1. credits' = persisted /\ persisted' = persisted /\ \A x \in Txs : held'[x] = None
    BY <1>6 DEF NodeCrash
  <2> QED
    BY <1>1, <2>1 DEF AtMost
<1> QED
  BY <1>2, <1>3, <1>4, <1>5, <1>6

\* The steps of the batcher leave what is on its way to it, and deal with accounts.
LEMMA ApplyTypes ==
  ASSUME BridgeTypes, NEW t \in Txs, Apply(t)
  PROVE  /\ BridgeTypes' /\ Coming' = Coming
         /\ UNCHANGED <<bridgeIns, doubtful, up, sent, processed, filter, crashes>>
         /\ \A x \in Txs \ {t} : held'[x] = held[x]
<1>1. CASE ReadAccount(t)
  <2>1. PICK a : /\ held' = [held EXCEPT ![t] = a]
                 /\ a = Account(UserOf[t], credits) \/ a = NoCredits
    BY <1>1, Zenon DEF ReadAccount
  <2>2. a \in [Blocks -> Nat]
    BY <2>1, SMTT(60) DEF Account, NoCredits, BridgeTypes
  <2>3. /\ UNCHANGED <<logs, futures, new, bridgeIns, credits, persisted, doubtful, up, sent,
                       processed, filter, crashes>>
        /\ applying' = applying \ {t}
    BY <1>1 DEF ReadAccount, restarts, memory, history
  <2>4. BridgeTypes'
    BY <2>1, <2>2, <2>3, SMTT(60) DEF BridgeTypes
  <2> QED
    BY <2>1, <2>3, <2>4 DEF BridgeTypes, Coming, Cast
<1>2. CASE WriteAccount(t)
  <2>1. /\ UNCHANGED <<logs, futures, new, bridgeIns, applying, persisted, doubtful, up, sent,
                       processed, filter, crashes>>
        /\ held' = [held EXCEPT ![t] = None] /\ held[t] # None
        /\ credits' = [b \in Blocks |-> IF UserOf[b] # UserOf[t] THEN credits[b]
                                        ELSE held[t][b] + IF b = t THEN 1 ELSE 0]
    BY <1>2 DEF WriteAccount, transit, restarts, vars, memory, history
  <2>2. held[t] \in [Blocks -> Nat]
    BY <2>1 DEF BridgeTypes
  <2>3. credits' \in [Blocks -> Nat]
    BY <2>1, <2>2, SMTT(60) DEF BridgeTypes
  <2>4. BridgeTypes'
    BY <2>1, <2>3, SMTT(60) DEF BridgeTypes
  <2> QED
    BY <2>1, <2>4 DEF BridgeTypes, Coming, Cast
<1> QED
  BY <1>1, <1>2 DEF Apply

\* A deposit is credited with the write that ends its application.
LEMMA CreditApply ==
  ASSUME CreditInv, NEW t \in Txs, Apply(t) PROVE CreditInv'
<1>0. BridgeTypes /\ Blocks \subseteq Txs /\ Blocks \intersect Sends = {}
  BY TransactionsHaveUsers DEF CreditInv, Txs
<1>1. /\ BridgeTypes' /\ Coming' = Coming
      /\ UNCHANGED <<bridgeIns, doubtful, up, sent, processed, filter>>
      /\ \A x \in Txs \ {t} : held'[x] = held[x]
  BY <1>0, ApplyTypes
<1>2. \A b \in Blocks : held[b] # None => b \in bridgeIns /\ b \notin applying
  BY DEF CreditInv
<1>3. bridgeIns \subseteq sent[Deposits] /\ applying \subseteq bridgeIns
  BY <1>0 DEF CreditInv, BridgeTypes
<1>4. CASE ReadAccount(t)
  <2>1. applying' = applying \ {t} /\ held[t] = None /\ (t \in Blocks => t \in applying)
    BY <1>0, <1>4 DEF ReadAccount
  <2>2. \A b \in Blocks, n \in Nat : AtMost(b, n) => AtMost(b, n)'
    BY <1>0, <1>4, AtMostKept
  <2>3. ASSUME NEW b \in Blocks \ doubtful PROVE Once(b)'
    <3>1. Once(b)
      BY DEF CreditInv
    <3>2. b \in applying' \/ held'[b] # None => b \in applying \/ held[b] # None
      BY <1>0, <1>1, <2>1
    <3> QED
      BY <1>1, <2>2, <3>1, <3>2 DEF Once
  <2>4. \A b \in Blocks \ sent'[Deposits] : AtMost(b, 0)'
    BY <1>1, <2>2 DEF CreditInv
  <2>5. \A b \in Blocks : held'[b] # None => b \in bridgeIns' \ applying'
    BY <1>0, <1>1, <1>2, <1>3, <2>1
  <2> QED
    BY <1>1, <2>3, <2>4, <2>5 DEF CreditInv
<1>5. CASE WriteAccount(t)
  <2>1. /\ applying' = applying /\ held[t] # None /\ held'[t] = None
        /\ held' = [held EXCEPT ![t] = None] /\ persisted' = persisted
        /\ t \in Blocks => credits'[t] = held[t][t] + 1
    BY <1>0, <1>5 DEF WriteAccount, transit, BridgeTypes
  <2>2. \A b \in Blocks \ {t}, n \in Nat : AtMost(b, n) => AtMost(b, n)'
    BY <1>0, <1>5, AtMostKept
  <2>3. ASSUME t \in Blocks \ doubtful PROVE AtMost(t, 1)'
    <3>1. AtMost(t, 0)
      BY <2>1, <2>3 DEF CreditInv, Once
    <3>2. /\ persisted[t] \in Nat /\ persisted[t] <= 0 /\ held[t][t] \in Nat /\ held[t][t] <= 0
          /\ \A x \in Txs : held[x] # None => held[x][t] \in Nat /\ held[x][t] <= 0
      BY <1>0, <2>1, <2>3, <3>1, SMTT(60) DEF AtMost, BridgeTypes
    <3>3. credits'[t] <= 1 /\ persisted'[t] <= 1
      BY <2>1, <2>3, <3>2, SMTT(60)
    <3>4. \A x \in Txs : held'[x] # None => held'[x][t] <= 1
      BY <1>1, <2>1, <3>2, SMTT(60)
    <3> QED
      BY <3>3, <3>4 DEF AtMost
  <2>4. ASSUME NEW b \in Blocks \ doubtful PROVE Once(b)'
    <3>1. Once(b)
      BY DEF CreditInv
    <3>2. CASE b # t
      <4>1. held'[b] = held[b] /\ (AtMost(b, 1) => AtMost(b, 1)') /\ (AtMost(b, 0) => AtMost(b, 0)')
        BY <1>0, <1>1, <2>2, <3>2
      <4> QED
        BY <1>1, <2>1, <3>1, <4>1 DEF Once
    <3>3. CASE b = t
      <4>1. b \notin applying /\ b \in bridgeIns
        BY <1>2, <2>1, <3>3
      <4> QED
        BY <1>1, <2>1, <2>3, <3>1, <3>3, <4>1 DEF Once
    <3> QED
      BY <3>2, <3>3
  <2>5. \A b \in Blocks \ sent'[Deposits] : AtMost(b, 0)'
    <3> SUFFICES ASSUME NEW b \in Blocks \ sent[Deposits] PROVE AtMost(b, 0)'
      BY <1>1
    <3>1. b # t /\ AtMost(b, 0)
      BY <1>2, <1>3, <2>1 DEF CreditInv
    <3> QED
      BY <2>2, <3>1
  <2>6. \A b \in Blocks : held'[b] # None => b \in bridgeIns' \ applying'
    BY <1>0, <1>1, <1>2, <2>1
  <2> QED
    BY <1>1, <2>4, <2>5, <2>6 DEF CreditInv
<1> QED
  BY <1>4, <1>5 DEF Apply

\* The logs that are cast were not cast before: they lie from the filter's first block on.
LEMMA CreditCast == ASSUME SkipInv, CreditInv, CastLogs PROVE CreditInv'
<1> DEFINE D == Deposits
<1>1. ProcessLogs /\ UNCHANGED <<bridgeIns, applying, held, credits, persisted, overlapped, doubtful>>
  BY DEF CastLogs, accounts, restarts
<1>2. BridgeTypes /\ TypeOK /\ InChain /\ D \in Streams
  BY DepositsIsAStream, ZenonT(30) DEF CreditInv, SkipInv, RestartInv
<1>3. /\ BridgeTypes'
      /\ reply.stream = D => reply.blocks \subseteq Blocks
      /\ Coming' = Coming \union (IF reply.stream = D THEN reply.blocks ELSE {})
  BY <1>2, CastLogsComing
<1>4. PICK s \in Streams, found \in SUBSET Nat, last \in Nat :
          /\ s = reply.stream
          /\ found = processed[s] \cup reply.blocks
          /\ \A b \in found : b <= last
          /\ processed' = [processed EXCEPT ![s] = found]
          /\ filter' = [filter EXCEPT ![s] = [from |-> last + 1, to |-> current[s] + 1,
                                              latest |-> FALSE]]
  BY <1>1, <1>2, ProcessLogsFacts, Zenon
<1>5. /\ up /\ up' /\ reply # None
      /\ sent' = [sent EXCEPT ![s] = @ \cup reply.blocks]
  BY <1>1, <1>4 DEF ProcessLogs
<1>8. ASSUME NEW b, NEW n PROVE AtMost(b, n)' = AtMost(b, n)
  BY <1>1, Zenon DEF AtMost
<1>6. CASE s # D
  <2>1. /\ processed'[D] = processed[D] /\ filter'[D] = filter[D] /\ sent'[D] = sent[D]
        /\ Coming' = Coming
    BY <1>2, <1>3, <1>4, <1>5, <1>6 DEF TypeOK
  <2> QED
    BY <1>1, <1>3, <1>5, <2>1, CreditFrame, ZenonT(30)
<1>7. CASE s = D
  <2>1. /\ processed'[D] = processed[D] \cup reply.blocks
        /\ filter'[D].from = last + 1
        /\ sent'[D] = sent[D] \cup reply.blocks
        /\ Coming' = Coming \cup reply.blocks
        /\ reply.blocks \subseteq Blocks
        /\ \A b \in processed[D] \cup reply.blocks : b <= last /\ b \in Nat
    BY <1>2, <1>3, <1>4, <1>5, <1>7 DEF TypeOK
  <2>2. \A b \in reply.blocks : filter[D].from <= b /\ filter[D].from \in Nat /\ b \in Nat
    BY <1>2, <1>4, <1>5, <1>7 DEF SkipInv, RestartInv, TypeOK, Filter
  <2>3. ASSUME NEW b \in Blocks \ doubtful PROVE Once(b)'
    <3>1. Once(b) /\ b \in Blocks
      BY DEF CreditInv
    <3>2. b \in sent'[D] => b \in processed'[D] /\ b < filter'[D].from
      BY <1>5, <2>1, <3>1, SMTT(60) DEF Once
    <3>3. ASSUME b \in reply.blocks PROVE AtMost(b, 0)
      <4>1. b \notin sent[D]
        BY <1>5, <2>2, <3>1, <3>3 DEF Once
      <4> QED
        BY <3>1, <4>1 DEF CreditInv
    <3> QED
      BY <1>1, <1>8, <2>1, <3>1, <3>2, <3>3, ZenonT(30) DEF Once
  <2> QED
    BY <1>1, <1>3, <1>8, <2>1, <2>3 DEF CreditInv
<1> QED
  BY <1>6, <1>7

\* Every step keeps what is known of the credits.
LEMMA CreditStep == SkipInv /\ CreditInv /\ [BridgeNext]_bridgeVars => CreditInv'
<1> SUFFICES ASSUME SkipInv, CreditInv, [BridgeNext]_bridgeVars PROVE CreditInv'
  OBVIOUS
<1>0. BridgeTypes
  BY DEF CreditInv
<1>1. ASSUME UNCHANGED bridge, UNCHANGED <<up, sent, processed, filter>> PROVE CreditInv'
  <2>1. UNCHANGED <<logs, futures, new, bridgeIns, applying, held, credits, persisted, overlapped,
                    doubtful>>
    BY <1>1 DEF bridge, transit, accounts, restarts
  <2>2. BridgeTypes' /\ Coming' = Coming
    BY <1>0, <2>1 DEF BridgeTypes, Coming, Cast
  <2> QED
    BY <1>1, <2>1, <2>2, CreditFrame
<1>2. CASE Chain
  BY <1>1, <1>2 DEF Chain, Mine, memory, history
<1>3. CASE \E s \in Streams : LogsOk(s) /\ UNCHANGED bridge
  BY <1>1, <1>3 DEF LogsOk, history
<1>4. CASE CastLogs
  BY <1>4, CreditCast
<1>5. CASE Save
  BY <1>1, <1>5 DEF Save, SaveBlocksProcessed, history
<1>6. CASE Fails
  BY <1>1, <1>6 DEF Fails, LogsErr, Abandon, history
<1>7. CASE NodeCrash
  <2> USE <1>7
  <2>1. /\ logs' = <<>> /\ futures' = {} /\ new' = <<>> /\ bridgeIns' = {} /\ applying' = {}
        /\ credits' = persisted /\ held' = [t \in Txs |-> None] /\ up' = FALSE
        /\ UNCHANGED <<persisted, doubtful, sent>>
    BY DEF NodeCrash, Crash, restarts, history
  <2>2. BridgeTypes
    BY DEF CreditInv
  <2>3. BridgeTypes'
    BY <2>1, <2>2, SMTT(60) DEF BridgeTypes
  <2>4. Coming' = {}
    BY <2>1, EmptyRange DEF Coming, Cast
  <2>5. \A b \in Blocks, n \in Nat : AtMost(b, n) => AtMost(b, n)'
    BY <2>2, AtMostKept
  <2>6. \A b \in Blocks : held'[b] = None
    BY <2>1 DEF Txs
  <2>7. ASSUME NEW b \in Blocks \ doubtful PROVE Once(b)'
    <3>1. AtMost(b, 1)
      BY DEF CreditInv, Once
    <3> QED
      BY <2>1, <2>4, <2>5, <2>6, <3>1 DEF Once
  <2>8. \A b \in Blocks \ sent'[Deposits] : AtMost(b, 0)'
    BY <2>1, <2>5 DEF CreditInv
  <2> QED
    BY <2>1, <2>3, <2>4, <2>6, <2>7, <2>8 DEF CreditInv
<1>8. CASE NodeStart
  <2> USE <1>8
  <2> DEFINE D == Deposits
  <2>1. /\ UNCHANGED <<logs, futures, new, bridgeIns, applying, held, credits, persisted, sent>>
        /\ doubtful' = doubtful \union {b \in Blocks : b \notin Loaded.processed[D] \/ b = Loaded.current[D]}
        /\ processed' = Loaded.processed
        /\ filter' = [s \in Streams |-> InitialFilter(Loaded.current[s])]
    BY DEF NodeStart, SetupEoServer, history, transit, accounts
  <2>9. ASSUME NEW b, NEW n PROVE AtMost(b, n)' = AtMost(b, n)
    BY <2>1, Zenon DEF AtMost
  <2>2. D \in Streams /\ TypeOK /\ store = None
    BY DepositsIsAStream DEF SkipInv, RestartInv
  <2>3. filter'[D].from = Loaded.current[D]
    BY <2>1, <2>2, ZenonT(30) DEF InitialFilter
  <2>4. /\ Loaded.current[D] \in Nat /\ Loaded.processed[D] \subseteq Nat
        /\ \A b \in Loaded.processed[D] : b <= Loaded.current[D]
    <3>1. CASE file # None
      BY <2>2, <3>1, ZenonT(30) DEF Loaded, SkipInv, RestartInv, TypeOK, BlocksProcessed
    <3>2. CASE file = None
      BY <2>2, <3>2, ZenonT(30) DEF Loaded
    <3> QED
      BY <3>1, <3>2
  <2>5. BridgeTypes' /\ Coming' = Coming
    BY <2>1 DEF CreditInv, BridgeTypes, Coming, Cast
  <2>6. ASSUME NEW b \in Blocks \ doubtful' PROVE Once(b)'
    <3>1. Once(b) /\ b \in Loaded.processed[D] /\ b # Loaded.current[D]
      BY <2>1, ZenonT(30) DEF CreditInv
    <3>2. b \in processed'[D] /\ b < filter'[D].from
      BY <2>1, <2>3, <2>4, <3>1
    <3> QED
      BY <2>1, <2>5, <2>9, <3>1, <3>2 DEF Once
  <2> QED
    BY <2>1, <2>5, <2>6, <2>9, ZenonT(30) DEF CreditInv
<1>9. CASE HandleLog
  <2>1. UNCHANGED <<bridgeIns, applying, held, credits, persisted, overlapped, doubtful, up, sent, processed, filter>>
    BY <1>9 DEF HandleLog, accounts, restarts, memory, history
  <2> QED
    BY <1>0, <1>9, <2>1, HandleLogComing, CreditFrame
<1>10. ASSUME NEW f \in futures, HandleBridgeEvent(f) PROVE CreditInv'
  <2>1. UNCHANGED <<bridgeIns, applying, held, credits, persisted, overlapped, doubtful, up, sent, processed, filter>>
    BY <1>10 DEF HandleBridgeEvent, accounts, restarts, memory, history
  <2> QED
    BY <1>0, <1>10, <2>1, HandleBridgeEventComing, CreditFrame
<1>11. CASE NewBridgeIn
  <2> USE <1>11
  <2> DEFINE h == Head(new)
  <2>1. /\ UNCHANGED <<held, credits, persisted, overlapped, doubtful, up, sent, processed, filter>>
        /\ applying' = IF h \in bridgeIns THEN applying ELSE applying \union {h}
        /\ bridgeIns' = bridgeIns \union {h}
    BY DEF NewBridgeIn, accounts, restarts, vars, memory, history
  <2>2. BridgeTypes' /\ h \in Coming /\ Coming = Coming' \union {h} /\ BridgeTypes
    BY NewBridgeInComing DEF CreditInv
  <2> HIDE DEF h
  <2>3. CASE h \in bridgeIns
    <3>1. bridgeIns' = bridgeIns /\ applying' = applying
      BY <2>1, <2>3
    <3> QED
      BY <2>1, <2>2, <3>1, CreditFrame
  <2>4. CASE h \notin bridgeIns
    <3>1. ASSUME NEW b, NEW n PROVE AtMost(b, n)' = AtMost(b, n)
      BY <2>1, Zenon DEF AtMost
    <3>2. ASSUME NEW b \in Blocks \ doubtful PROVE Once(b)'
      <4>1. Once(b)
        BY DEF CreditInv
      <4> QED
        BY <2>1, <2>2, <2>4, <3>1, <4>1 DEF Once
    <3>3. \A b \in Blocks : held'[b] # None => b \in bridgeIns' \ applying'
      BY <2>1, <2>4 DEF CreditInv
    <3> QED
      BY <2>1, <2>2, <2>4, <3>1, <3>2, <3>3 DEF CreditInv
  <2> QED
    BY <2>3, <2>4
<1>12. ASSUME NEW t \in Txs, Apply(t) PROVE CreditInv'
  BY <1>12, CreditApply
<1>13. ASSUME NEW u \in Users, PutAccount(u) PROVE CreditInv'
  <2>1. /\ UNCHANGED <<logs, futures, new, bridgeIns, applying, held, credits, doubtful, up, sent,
                       processed, filter>>
        /\ \/ persisted' = persisted
           \/ persisted' = [b \in Blocks |-> IF UserOf[b] = u THEN credits[b] ELSE persisted[b]]
    BY <1>13, Zenon DEF PutAccount, transit, restarts, memory, history
  <2>2. BridgeTypes' /\ Coming' = Coming
    BY <1>0, <2>1 DEF BridgeTypes, Coming, Cast
  <2>3. \A b \in Blocks, n \in Nat : AtMost(b, n) => AtMost(b, n)'
    BY <1>0, <1>13, AtMostKept
  <2>4. ASSUME NEW b \in Blocks \ doubtful PROVE Once(b)'
    <3>1. Once(b)
      BY DEF CreditInv
    <3> QED
      BY <2>1, <2>2, <2>3, <3>1 DEF Once
  <2> QED
    BY <2>1, <2>2, <2>3, <2>4 DEF CreditInv
<1>14. CASE UNCHANGED bridgeVars
  BY <1>1, <1>14 DEF bridgeVars, vars, memory, history
<1> QED
  BY <1>2, <1>3, <1>4, <1>5, <1>6, <1>7, <1>8, <1>9, <1>10, <1>11, <1>12, <1>13, <1>14,
     BridgeSteps DEF Deposit

-----------------------------------------------------------------------------
(* Nothing is dropped in a run without crashes and faults. *)

\* Without a fault, what the batcher writes drops no credit of a deposit whose account no
\* other transaction held.
LEMMA ApplyIntact ==
  ASSUME CreditInv, faults \in Nat, NEW t \in Txs, Apply(t)
  PROVE  /\ faults' = faults \/ faults' = faults + 1
         /\ faults' = faults /\ Intact => Intact'
<1>0. /\ BridgeTypes /\ Blocks \subseteq Txs
      /\ bridgeIns \subseteq Blocks /\ applying \subseteq bridgeIns
  BY DEF CreditInv, BridgeTypes, Txs
<1>1. /\ Coming' = Coming /\ bridgeIns' = bridgeIns /\ sent' = sent
      /\ \A x \in Txs \ {t} : held'[x] = held[x]
  BY <1>0, ApplyTypes
<1>2. CASE ReadAccount(t)
  <2>1. /\ held[t] = None /\ credits' = credits /\ applying' = applying \ {t}
        /\ faults' = faults \/ faults' = faults + 1
        /\ faults' = faults + 1 \/ held' = [held EXCEPT ![t] = Account(UserOf[t], credits)]
        /\ overlapped' = IF Rivals(t) = {} THEN overlapped
                         ELSE overlapped \union (Blocks \intersect (Rivals(t) \union {t}))
    BY <1>2, Zenon DEF ReadAccount
  <2> SUFFICES ASSUME faults' = faults, Intact PROVE Intact'
    BY <2>1
  <2>2. held' = [held EXCEPT ![t] = Account(UserOf[t], credits)]
    BY <2>1
  <2>3. /\ held'[t] # None
        /\ \A b \in Blocks : UserOf[b] = UserOf[t] => held'[t][b] = credits[b]
    <3>1. Account(UserOf[t], credits) \in [Blocks -> Nat]
      BY <1>0 DEF Account, BridgeTypes
    <3>2. held'[t] = Account(UserOf[t], credits)
      BY <1>0, <2>2 DEF BridgeTypes
    <3> QED
      BY <3>1, <3>2, NoneIsNoAccount DEF Account
  <2>4. ASSUME NEW b \in Blocks \ overlapped'
        PROVE  /\ b \notin overlapped
               /\ b = t => Rivals(t) = {}
               /\ b \notin Rivals(t)
    BY <2>1, <2>4
  <2>5. ASSUME NEW b \in bridgeIns \ overlapped' PROVE Reached(b)'
    <3>1. b \in Blocks \ overlapped /\ Reached(b)
      BY <1>0, <2>4, <2>5 DEF Intact
    <3> QED
      BY <1>0, <1>1, <2>1, <2>3, <3>1, ZenonT(60) DEF Reached
  <2>6. ASSUME NEW x \in Txs, NEW b \in Blocks \ overlapped', held'[x] # None, UserOf[x] = UserOf[b]
        PROVE  held'[x][b] = credits[b] /\ (x # b => held'[b] = None)
    <3>1. CASE x = t
      <4>1. x # b => held[b] = None
        BY <1>0, <2>4, <2>6, <3>1 DEF Rivals
      <4> QED
        BY <1>0, <1>1, <2>3, <2>6, <3>1, <4>1
    <3>2. CASE x # t
      <4>1. held'[x] = held[x] /\ Agree(x, b)
        BY <1>1, <2>4, <2>6, <3>2 DEF Intact
      <4>2. b # t
        BY <2>4, <2>6, <3>2, <4>1 DEF Rivals
      <4> QED
        BY <1>0, <1>1, <2>6, <4>1, <4>2 DEF Agree
    <3> QED
      BY <3>1, <3>2
  <2> QED
    BY <1>1, <2>1, <2>5, <2>6, SMTT(60) DEF Intact, Agree
<1>3. CASE WriteAccount(t)
  <2>1. /\ held[t] # None /\ held' = [held EXCEPT ![t] = None] /\ applying' = applying
        /\ faults' = faults /\ overlapped' = overlapped
        /\ credits' = [b \in Blocks |-> IF UserOf[b] # UserOf[t] THEN credits[b]
                                        ELSE held[t][b] + IF b = t THEN 1 ELSE 0]
    BY <1>3 DEF WriteAccount, vars, transit
  <2> SUFFICES ASSUME Intact PROVE Intact'
    BY <2>1
  <2>2. /\ held'[t] = None /\ held[t] \in [Blocks -> Nat] /\ credits \in [Blocks -> Nat]
        /\ \A b \in Blocks : credits'[b] = IF UserOf[b] # UserOf[t] THEN credits[b]
                                           ELSE held[t][b] + IF b = t THEN 1 ELSE 0
    BY <1>0, <2>1 DEF BridgeTypes
  <2>3. ASSUME NEW b \in Blocks \ overlapped, b # t PROVE credits'[b] = credits[b]
    <3>1. UserOf[b] = UserOf[t] => held[t][b] = credits[b]
      BY <2>1, <2>3 DEF Intact, Agree
    <3> QED
      BY <2>2, <2>3, <3>1, SMTT(60)
  <2>4. t \in Blocks => credits'[t] > 0
    BY <2>2
  <2>5. ASSUME NEW b \in bridgeIns \ overlapped PROVE Reached(b)'
    <3>1. b \in Blocks /\ Reached(b)
      BY <1>0, <2>5 DEF Intact
    <3>2. CASE b = t
      BY <2>4, <3>1, <3>2 DEF Reached
    <3>3. CASE b # t
      <4>1. held'[b] = held[b] /\ credits'[b] = credits[b]
        BY <1>0, <1>1, <2>3, <2>5, <3>1, <3>3
      <4> QED
        BY <2>1, <3>1, <4>1 DEF Reached
    <3> QED
      BY <3>2, <3>3
  <2>6. ASSUME NEW x \in Txs, NEW b \in Blocks \ overlapped, held'[x] # None, UserOf[x] = UserOf[b]
        PROVE  held'[x][b] = credits'[b] /\ (x # b => held'[b] = None)
    <3>1. x # t /\ held'[x] = held[x] /\ Agree(x, b)
      BY <1>1, <2>2, <2>6 DEF Intact
    <3>2. CASE b = t
      BY <2>1, <2>6, <3>1, <3>2 DEF Agree
    <3>3. CASE b # t
      <4>1. held'[b] = held[b] /\ credits'[b] = credits[b]
        BY <1>0, <1>1, <2>3, <2>6, <3>3
      <4> QED
        BY <2>6, <3>1, <4>1 DEF Agree
    <3> QED
      BY <3>2, <3>3
  <2> QED
    BY <1>1, <2>1, <2>5, <2>6, ZenonT(60) DEF Intact, Agree
<1> QED
  BY <1>2, <1>3 DEF Apply

\* Without a fault or a crash no step loses a deposit that is on its way.
LEMMA LostStep == SkipInv /\ CreditInv /\ NothingLost /\ [BridgeNext]_bridgeVars => NothingLost'
<1> SUFFICES ASSUME SkipInv, CreditInv, NothingLost, [BridgeNext]_bridgeVars PROVE NothingLost'
  OBVIOUS
<1> DEFINE D == Deposits
<1>0. BridgeTypes /\ crashes \in Nat /\ faults \in Nat /\ D \in Streams /\ TypeOK
  BY DepositsIsAStream, ZenonT(30) DEF CreditInv, SkipInv, RestartInv, TypeOK
<1>1. ASSUME UNCHANGED <<up, doubtful, crashes>>, faults' = faults \/ faults' = faults + 1,
             faults' = faults /\ Intact => Intact'
      PROVE  NothingLost'
  <2>1. faults' = 0 => faults = 0 /\ faults' = faults
    BY <1>0, <1>1
  <2> QED
    BY <1>1, <2>1 DEF NothingLost
<1>2. ASSUME UNCHANGED <<up, doubtful, crashes, bridgeIns, applying, held, credits, overlapped>>,
             faults' = faults \/ faults' = faults + 1,
             faults' = faults /\ Intact => sent'[D] \subseteq Coming' \union bridgeIns
      PROVE  NothingLost'
  <2>1. ASSUME NEW t, NEW b PROVE Agree(t, b)' = Agree(t, b) /\ Reached(b)' = Reached(b)
    BY <1>2, Zenon DEF Agree, Reached
  <2>2. faults' = faults /\ Intact => Intact'
    BY <1>2, <2>1 DEF Intact
  <2> QED
    BY <1>1, <1>2, <2>2
<1>3. ASSUME UNCHANGED bridge, UNCHANGED <<up, sent, crashes>>,
             faults' = faults \/ faults' = faults + 1
      PROVE  NothingLost'
  <2>1. UNCHANGED <<logs, futures, new, bridgeIns, applying, held, credits, overlapped, doubtful>>
    BY <1>3 DEF bridge, transit, accounts, restarts
  <2>2. Coming' = Coming
    BY <2>1 DEF Coming, Cast
  <2> QED
    BY <1>2, <1>3, <2>1, <2>2 DEF Intact
<1>4. CASE Chain
  BY <1>3, <1>4 DEF Chain, Mine, history
<1>5. CASE \E s \in Streams : LogsOk(s) /\ UNCHANGED bridge
  BY <1>3, <1>5 DEF LogsOk, history
<1>6. CASE CastLogs
  <2>1. /\ UNCHANGED <<up, bridgeIns, applying, held, credits, overlapped, doubtful, crashes, faults>>
        /\ sent' = [sent EXCEPT ![reply.stream] = @ \cup reply.blocks]
        /\ reply # None
    BY <1>6, ZenonT(30) DEF CastLogs, ProcessLogs, accounts, restarts
  <2>2. Coming' = Coming \union (IF reply.stream = D THEN reply.blocks ELSE {})
    BY <1>0, <1>6, CastLogsComing
  <2>3. sent'[D] = sent[D] \union (IF reply.stream = D THEN reply.blocks ELSE {})
    BY <1>0, <2>1 DEF TypeOK
  <2> QED
    BY <1>2, <2>1, <2>2, <2>3 DEF Intact
<1>7. CASE Save
  BY <1>3, <1>7 DEF Save, SaveBlocksProcessed, history
<1>8. CASE Fails
  BY <1>3, <1>8 DEF Fails, LogsErr, Abandon, history
<1>9. CASE NodeCrash
  BY <1>0, <1>9 DEF NodeCrash, Crash, NothingLost
<1>10. CASE NodeStart
  <2>1. ~up /\ crashes' = crashes
    BY <1>10 DEF NodeStart, SetupEoServer
  <2> QED
    BY <2>1 DEF NothingLost
<1>11. CASE HandleLog
  <2>1. UNCHANGED <<bridgeIns, applying, held, credits, overlapped, doubtful, up, sent, crashes>>
    BY <1>11, ZenonT(60) DEF HandleLog, accounts, restarts, history
  <2>2. /\ faults' = faults \/ faults' = faults + 1
        /\ Coming' = Coming \/ faults' = faults + 1
    BY <1>0, <1>11, HandleLogComing
  <2> QED
    BY <1>0, <1>2, <2>1, <2>2 DEF Intact
<1>12. ASSUME NEW f \in futures, HandleBridgeEvent(f) PROVE NothingLost'
  <2>1. UNCHANGED <<bridgeIns, applying, held, credits, overlapped, doubtful, up, sent, crashes>>
    BY <1>12 DEF HandleBridgeEvent, accounts, restarts, history
  <2>2. /\ faults' = faults \/ faults' = faults + 1
        /\ Coming' = Coming \/ faults' = faults + 1
    BY <1>0, <1>12, HandleBridgeEventComing
  <2> QED
    BY <1>0, <1>2, <2>1, <2>2 DEF Intact
<1>13. CASE NewBridgeIn
  <2> DEFINE h == Head(new)
  <2>1. /\ UNCHANGED <<held, credits, overlapped, doubtful, up, sent, crashes, faults>>
        /\ applying' = IF h \in bridgeIns THEN applying ELSE applying \union {h}
        /\ bridgeIns' = bridgeIns \union {h}
    BY <1>13 DEF NewBridgeIn, accounts, restarts, vars, history
  <2>2. Coming = Coming' \union {h}
    BY <1>0, <1>13, NewBridgeInComing
  <2> HIDE DEF h
  <2>3. ASSUME Intact, NEW b \in bridgeIns' \ overlapped' PROVE Reached(b)'
    <3>1. CASE b \in bridgeIns
      BY <2>1, <2>3, <3>1 DEF Intact, Reached
    <3>2. CASE b \notin bridgeIns
      BY <2>1, <2>3, <3>2 DEF Reached
    <3> QED
      BY <3>1, <3>2
  <2>4. ASSUME NEW t, NEW b PROVE Agree(t, b)' = Agree(t, b)
    BY <2>1, Zenon DEF Agree
  <2>5. Intact => Intact'
    BY <2>1, <2>2, <2>3, <2>4 DEF Intact
  <2> QED
    BY <1>1, <2>1, <2>5
<1>14. ASSUME NEW t \in Txs, Apply(t) PROVE NothingLost'
  <2>1. /\ UNCHANGED <<bridgeIns, doubtful, up, sent, crashes>> /\ Coming' = Coming
        /\ faults' = faults \/ faults' = faults + 1
        /\ faults' = faults /\ Intact => Intact'
    BY <1>0, <1>14, ApplyTypes, ApplyIntact
  <2> QED
    BY <1>1, <2>1
<1>15. ASSUME NEW u \in Users, PutAccount(u) PROVE NothingLost'
  <2>1. /\ UNCHANGED <<logs, futures, new, bridgeIns, applying, held, credits, overlapped, doubtful,
                       up, sent, crashes>>
        /\ faults' = faults \/ faults' = faults + 1
    BY <1>15 DEF PutAccount, transit, restarts, history
  <2>2. Coming' = Coming
    BY <2>1 DEF Coming, Cast
  <2> QED
    BY <1>2, <2>1, <2>2 DEF Intact
<1>16. CASE UNCHANGED bridgeVars
  BY <1>3, <1>16 DEF bridgeVars, vars, history
<1> QED
  BY <1>4, <1>5, <1>6, <1>7, <1>8, <1>9, <1>10, <1>11, <1>12, <1>13, <1>14, <1>15, <1>16,
     BridgeSteps, ZenonT(60) DEF Deposit

-----------------------------------------------------------------------------
(* What the filter asks for after a restart: SkipInv is preserved. *)

\* The steps of the bridge keep the invariant of the listener.
LEMMA BridgeRestartStep == RestartInv /\ [BridgeNext]_bridgeVars => RestartInv'
<1> SUFFICES ASSUME RestartInv, [BridgeNext]_bridgeVars PROVE RestartInv'
  OBVIOUS
<1>1. CASE NextWithRestarts
  BY <1>1, RestartStep
<1>2. CASE ListenerIdle
  <2>1. UNCHANGED <<head, event, filter, current, processed, reply, unsaved, up, file, store,
                    sent, again, crashes>> /\ faults' \in {faults, faults + 1}
    BY <1>2, ZenonT(60) DEF ListenerIdle, chain, memory, disk, history
  <2>2. TypeOK'
    BY <2>1, SMTT(60) DEF RestartInv, TypeOK
  <2>3. InChain' /\ FileIsSound'
    BY <2>1, Zenon DEF RestartInv, InChain, FileIsSound
  <2> QED
    BY <2>1, <2>2, <2>3, Zenon DEF RestartInv
<1> QED
  BY <1>1, <1>2, ListenerSteps

\* Every step keeps the blocks from the resumed height to the filter processed.
LEMMA SkipStep == SkipInv /\ [BridgeNext]_bridgeVars => SkipInv'
<1> SUFFICES ASSUME SkipInv, [BridgeNext]_bridgeVars PROVE SkipInv'
  OBVIOUS
<1>1. RestartInv /\ Heights /\ ReplyIsPrefix /\ resumed \in Nat /\ FilterResumes
  BY DEF SkipInv
<1>2. TypeOK /\ InChain
  BY <1>1 DEF RestartInv
<1>3. RestartInv'
  BY <1>1, BridgeRestartStep
<1> DEFINE D == Deposits
<1>d. D \in Streams
  BY DepositsIsAStream
<1>4. ASSUME NEW S \in SUBSET Streams, Mine(S), UNCHANGED bridge
      PROVE  SkipInv'
  <2>1. /\ UNCHANGED <<filter, current, processed, reply, unsaved, up, file, sent, resumed>>
        /\ head' = head + 1 /\ head < MaxBlock
    BY <1>4 DEF Mine, memory, disk, history, bridge, restarts
  <2>2. \A s \in Streams : event'[s] = event[s] \/ event'[s] = event[s] \cup {head + 1}
    BY <1>2, <1>4 DEF Mine, TypeOK
  <2>3. Heights'
    BY <1>1, <1>2, <2>1, <2>2, BoundsAreNaturals DEF Heights, TypeOK, BlocksProcessed
  <2>h. head \in Nat
    BY <1>2, ZenonT(60) DEF TypeOK
  <2>4. ReplyIsPrefix'
    <3> SUFFICES ASSUME reply # None,
                        NEW b \in event'[reply.stream], NEW c \in reply.blocks,
                        filter[reply.stream].from <= b, b <= c
                 PROVE  b \in reply.blocks
      BY <1>1, <2>1 DEF ReplyIsPrefix
    <3>1. reply.stream \in Streams /\ c \in Nat /\ c <= head
      BY <1>2 DEF TypeOK, InChain
    <3>2. b \in event[reply.stream] \/ b = head + 1
      BY <2>2, <3>1, ZenonT(60)
    <3>3. b # head + 1
      BY <2>h, <3>1
    <3> QED
      BY <1>1, <3>2, <3>3 DEF ReplyIsPrefix
  <2>5. FilterResumes'
    <3> SUFFICES ASSUME up
                 PROVE  /\ \A b \in event'[D] :
                              resumed <= b /\ b < filter[D].from => b \in processed[D]
                        /\ filter[D].from <= head + 1 + 1
      BY <1>1, <2>1 DEF FilterResumes
    <3>1. filter[D].from \in Nat /\ filter[D].from <= head + 1
      BY <1>1, <1>2, <1>d DEF FilterResumes, TypeOK, Filter
    <3>2. ASSUME NEW b \in event'[D], resumed <= b, b < filter[D].from
          PROVE  b \in processed[D]
      <4>1. b \in event[D] \/ b = head + 1
        BY <1>d, <2>2, SMTT(60)
      <4>2. b # head + 1
        BY <2>h, <3>1, <3>2
      <4> QED
        BY <1>1, <3>2, <4>1, <4>2 DEF FilterResumes
    <3> QED
      BY <2>h, <3>1, <3>2
  <2> QED
    BY <1>1, <1>3, <2>1, <2>3, <2>4, <2>5 DEF SkipInv
<1>5. ASSUME NEW s \in Streams, LogsOk(s) \/ LogsErr(s), UNCHANGED bridge
      PROVE  SkipInv'
  <2>1. UNCHANGED <<head, event, filter, current, processed, unsaved, up, file, sent, resumed>>
    BY <1>5, ZenonT(60) DEF LogsOk, LogsErr, chain, disk, history, bridge, restarts
  <2>2. ReplyIsPrefix'
    BY <1>2, <1>5, <2>1, SMTT(60) DEF ReplyIsPrefix, LogsOk, LogsErr, InRange, TypeOK, Filter
  <2>3. Heights' /\ FilterResumes' /\ resumed' \in Nat
    BY <1>1, <2>1, ZenonT(30) DEF Heights, FilterResumes
  <2> QED
    BY <1>3, <2>2, <2>3 DEF SkipInv
<1>6. CASE Abandon /\ UNCHANGED bridge
  <2>1. /\ UNCHANGED <<head, event, filter, current, processed, unsaved, up, file, sent, resumed>>
        /\ reply' = None
    BY <1>6, ZenonT(60) DEF Abandon, chain, disk, history, bridge, restarts
  <2> QED
    BY <1>1, <1>3, <2>1 DEF SkipInv, Heights, FilterResumes, ReplyIsPrefix
<1>7. CASE Save
  <2>1. /\ UNCHANGED <<head, event, filter, current, processed, reply, up, sent, resumed>>
        /\ file' = [current |-> current, processed |-> processed]
    BY <1>7 DEF Save, SaveBlocksProcessed, chain, history, bridge, restarts
  <2>2. Heights'
    BY <1>1, <2>1 DEF Heights
  <2>3. FilterResumes' /\ ReplyIsPrefix'
    BY <1>1, <2>1 DEF FilterResumes, ReplyIsPrefix
  <2> QED
    BY <1>1, <1>3, <2>1, <2>2, <2>3 DEF SkipInv
<1>8. CASE CastLogs
  <2>0. ProcessLogs /\ resumed' = resumed
    BY <1>8 DEF CastLogs, restarts
  <2>1. PICK s \in Streams, found \in SUBSET Nat, last \in Nat :
            /\ s = reply.stream
            /\ found = processed[s] \cup reply.blocks
            /\ reply.blocks \in SUBSET Nat
            /\ found \subseteq event[s]
            /\ last \in found \cup {0}
            /\ \A b \in found : b <= last
            /\ processed' = [processed EXCEPT ![s] = found]
            /\ filter' = [filter EXCEPT ![s] = [from |-> last + 1, to |-> current[s] + 1,
                                                latest |-> FALSE]]
    BY <1>2, <2>0, ProcessLogsFacts
  <2>2. /\ reply # None /\ reply' = None /\ up' = up /\ event' = event /\ head' = head
        /\ file' = file /\ up
        /\ current' = [current EXCEPT ![s] = head]
        /\ sent' = [sent EXCEPT ![s] = @ \cup reply.blocks]
    BY <2>0, <2>1 DEF ProcessLogs, chain, disk
  <2>3. ReplyIsPrefix'
    BY <2>2, ZenonT(60) DEF ReplyIsPrefix
  <2>4. Heights'
    BY <1>1, <1>2, <2>1, <2>2, SMTT(60) DEF Heights, TypeOK
  <2>5. CASE s = D
    <3> DEFINE from == filter[D].from
    <3>1. /\ head \in Nat /\ from \in Nat /\ event[D] \subseteq Nat /\ resumed \in Nat
          /\ \A b \in event[D] : 1 <= b /\ b <= head
          /\ \A b \in event[D] : resumed <= b /\ b < from => b \in processed[D]
          /\ \A c \in processed[D] : c < from \/ c <= resumed
          /\ \A b \in event[D], c \in reply.blocks : from <= b /\ b <= c => b \in reply.blocks
      BY <1>1, <1>2, <1>d, <2>1, <2>2, <2>5
         DEF FilterResumes, ReplyIsPrefix, InChain, TypeOK, Filter
    <3>2. processed'[D] = found /\ filter'[D].from = last + 1
      BY <1>2, <2>1, <2>5, <1>d DEF TypeOK
    <3> HIDE DEF from
    <3>3. ASSUME NEW b \in event[D], resumed <= b, b < last + 1 PROVE b \in found
      <4>1. CASE last = 0
        BY <3>1, <3>3, <4>1, SMTT(60)
      <4>2. CASE last \in processed[D]
        BY <2>1, <2>5, <3>1, <3>3, <4>2, SMTT(60)
      <4>3. CASE last \in reply.blocks
        BY <2>1, <2>5, <3>1, <3>3, <4>3, SMTT(60)
      <4>4. QED
        BY <2>1, <2>5, <4>1, <4>2, <4>3, ZenonT(30)
    <3>4. \A c \in found : c < last + 1
      BY <2>1
    <3>5. last + 1 <= head + 1
      BY <2>1, <2>5, <3>1, SMTT(60)
    <3>6. FilterResumes'
      BY <2>0, <2>2, <3>2, <3>3, <3>4, <3>5, ZenonT(30) DEF FilterResumes
    <3> QED
      BY <1>1, <1>3, <2>0, <2>3, <2>4, <3>6 DEF SkipInv
  <2>6. CASE s # D
    <3>1. processed'[D] = processed[D] /\ filter'[D] = filter[D]
      BY <1>2, <2>1, <2>6, <1>d DEF TypeOK
    <3>2. FilterResumes'
      BY <1>1, <2>0, <2>2, <3>1 DEF FilterResumes
    <3> QED
      BY <1>1, <1>3, <2>0, <2>3, <2>4, <3>2 DEF SkipInv
  <2> QED
    BY <2>5, <2>6
<1>9. CASE NodeCrash
  <2>1. /\ UNCHANGED <<head, event, filter, current, processed, file, sent, resumed>>
        /\ reply' = None /\ up' = FALSE
    BY <1>9 DEF NodeCrash, Crash, chain, disk, history, restarts
  <2> QED
    BY <1>1, <1>3, <2>1 DEF SkipInv, Heights, FilterResumes, ReplyIsPrefix
<1>10. CASE NodeStart
  <2>1. /\ UNCHANGED <<head, event, file, reply, sent>> /\ ~up
        /\ current' = Loaded.current /\ processed' = Loaded.processed
        /\ filter' = [s \in Streams |-> InitialFilter(Loaded.current[s])]
        /\ resumed' = Loaded.current[D]
    BY <1>10 DEF NodeStart, SetupEoServer, chain, disk, history
  <2>2. reply = None
    BY <1>1, <2>1 DEF RestartInv
  <2>3. Loaded \in BlocksProcessed
    BY <1>2 DEF Loaded, TypeOK, BlocksProcessed
  <2>4. /\ \A s \in Streams : Loaded.current[s] <= head
        /\ \A b \in Loaded.processed[D] : b <= Loaded.current[D]
    <3>1. CASE file # None
      BY <1>1, <1>d, <3>1, ZenonT(30) DEF Loaded, Heights, RestartInv
    <3>2. CASE file = None
      BY <1>1, <1>2, <1>d, <3>2 DEF Loaded, RestartInv, TypeOK
    <3> QED
      BY <3>1, <3>2
  <2>5. filter'[D].from = Loaded.current[D] /\ Loaded.current[D] \in Nat
    BY <1>d, <2>1, <2>3, ZenonT(60) DEF InitialFilter, BlocksProcessed
  <2>6. FilterResumes'
    BY <1>2, <1>d, <2>1, <2>3, <2>4, <2>5 DEF FilterResumes, TypeOK, BlocksProcessed
  <2>7. Heights' /\ ReplyIsPrefix'
    BY <1>1, <2>1, <2>2, <2>4, ZenonT(60) DEF Heights, ReplyIsPrefix
  <2> QED
    BY <1>3, <2>1, <2>5, <2>6, <2>7 DEF SkipInv
<1>11. CASE ListenerIdle /\ UNCHANGED restarts
  <2>1. UNCHANGED <<head, event, filter, current, processed, reply, up, file, sent, resumed>>
    BY <1>11 DEF ListenerIdle, chain, memory, disk, history, restarts
  <2> QED
    BY <1>1, <1>3, <2>1, ZenonT(30) DEF SkipInv, Heights, FilterResumes, ReplyIsPrefix
<1> QED
  BY <1>4, <1>5, <1>6, <1>7, <1>8, <1>9, <1>10, <1>11, BridgeSteps DEF Chain, Fails

-----------------------------------------------------------------------------
(* The theorems. *)

\* The inductive invariant: what the listener asks for after a restart, where the deposits
\* are and how often each was credited, and that only a crash, a fault or a second
\* transaction that holds the account drops one.
THEOREM BridgeInvariant == BridgeSpec => []BridgeInv
<1>1. BridgeInv /\ [BridgeNext]_bridgeVars => BridgeInv'
  BY SkipStep, CreditStep, LostStep DEF BridgeInv
<1> QED
  BY BridgeInvInit, <1>1, PTL DEF BridgeSpec

\* After any number of restarts, a block with a deposit that is not processed although a
\* later one is lies below the height the last restart took from the file: for every chain
\* and every number of crashes and of faults of the web3 node and of the actors.
THEOREM BridgeSkipsOnlyBelowRestart == BridgeSpec => []SkippedOnlyBelowRestart
  BY BridgeInvSkips, BridgeInvariant, PTL

\* Whatever is delivered, dropped or repeated between the listener and the accounts: a credit
\* goes back to a log of the contract, and a second credit of a deposit to a restart that
\* loaded a file in which its block is missing or is the current one.
THEOREM BridgeDepositsAreReal == BridgeSpec => []DepositsAreReal
  BY BridgeInvReal, BridgeInvariant, PTL

\* As long as the node has not crashed and no call has failed, every deposit of a block the
\* file names as processed is credited exactly once, in one of the mailboxes on the way or
\* held by the batcher, unless another transaction held its account at the same time: the
\* batcher reads an account and writes it in two steps, and nothing orders two deposits of
\* one user.
THEOREM BridgeSavedIsCredited == BridgeSpec => []SavedIsCredited
  BY BridgeInvCredited, BridgeInvariant, PTL
-----------------------------------------------------------------------------
(* The listener of a node that does not crash. *)

\* The inductive invariant of a node that does not crash.
SteadyInv ==
    /\ TypeOK /\ InChain
    /\ up
    /\ FilterFollows
    /\ ReplyIsPrefix
    /\ \A s \in Streams : sent[s] = processed[s]
    /\ CastOnce

\* Init establishes it.
LEMMA SteadyInit == Init => SteadyInv
<1> SUFFICES ASSUME Init PROVE SteadyInv
  OBVIOUS
<1>1. TypeOK /\ InChain
  BY TypeInit
<1>2. up
  BY Zenon DEF Init
<1>3. FilterFollows
  <2>1. head = 0 /\ \A s \in Streams : /\ filter[s].from = 0
                                       /\ processed[s] = {} /\ event[s] = {}
    BY DEF Init, InitialFilter
  <2>2. 0 <= 0 + 1
    OBVIOUS
  <2>3. QED
    BY <2>1, <2>2, Zenon DEF FilterFollows
<1>4. ReplyIsPrefix
  BY DEF Init, ReplyIsPrefix
<1>5. (\A s \in Streams : sent[s] = processed[s]) /\ CastOnce
  BY DEF Init, CastOnce
<1>6. QED
  BY <1>1, <1>2, <1>3, <1>4, <1>5 DEF SteadyInv

\* Every step of the listener and of the chain keeps it.
LEMMA SteadyStep == SteadyInv /\ [Next]_vars => SteadyInv'
<1> SUFFICES ASSUME SteadyInv, [Next]_vars PROVE SteadyInv'
  OBVIOUS
<1> USE DEF SteadyInv
<1>0. TypeOK' /\ InChain'
  BY TypeStep DEF NextWithRestarts
<1>1. ASSUME NEW S \in SUBSET Streams, Mine(S)
      PROVE  SteadyInv'
  <2>1. \A s \in Streams : event'[s] = event[s] \/ event'[s] = event[s] \cup {head + 1}
    BY <1>1 DEF Mine, TypeOK
  <2>2. \A s \in Streams : \A b \in processed[s] : b <= head
    BY ZenonT(60) DEF InChain
  <2>3. FilterFollows'
    BY <1>1, <2>1, <2>2, SMTT(60) DEF FilterFollows, Mine, memory, TypeOK, Filter, InChain
  <2>4. ReplyIsPrefix'
    BY <1>1, <2>1, SMTT(60) DEF ReplyIsPrefix, Mine, memory, TypeOK, Filter, InChain
  <2>5. QED
    BY <1>0, <1>1, <2>3, <2>4 DEF Mine, memory, history, CastOnce
<1>2. ASSUME NEW s \in Streams, LogsOk(s)
      PROVE  SteadyInv'
  <2>1. ReplyIsPrefix'
    BY <1>2, SMTT(60) DEF ReplyIsPrefix, LogsOk, InRange, chain, TypeOK, Filter
  <2>2. QED
    BY <1>0, <1>2, <2>1, ZenonT(60) DEF FilterFollows, LogsOk, chain, history, CastOnce
<1>3. ASSUME NEW s \in Streams, LogsErr(s)
      PROVE  SteadyInv'
  BY <1>0, <1>3 DEF ReplyIsPrefix, FilterFollows, LogsErr, chain, history, CastOnce
<1>4. CASE Abandon
  BY <1>0, <1>4 DEF ReplyIsPrefix, FilterFollows, Abandon, chain, history, CastOnce
<1>5. CASE ProcessLogs
  <2>1. PICK s \in Streams, found \in SUBSET Nat, last \in Nat :
            /\ s = reply.stream
            /\ found = processed[s] \cup reply.blocks
            /\ reply.blocks \in SUBSET Nat
            /\ found \subseteq event[s]
            /\ last \in found \cup {0}
            /\ \A b \in found : b <= last
            /\ processed' = [processed EXCEPT ![s] = found]
            /\ filter' = [filter EXCEPT ![s] = [from |-> last + 1, to |-> current[s] + 1,
                                                latest |-> FALSE]]
    BY <1>5, ProcessLogsFacts
  <2>2. reply # None /\ reply' = None /\ up' = up /\ event' = event /\ head' = head
    BY <1>5 DEF ProcessLogs, chain
  <2>3. ReplyIsPrefix'
    BY <2>2 DEF ReplyIsPrefix
  <2> DEFINE from == filter[s].from
  <2>a. /\ head \in Nat /\ from \in Nat /\ event[s] \subseteq Nat
        /\ \A b \in event[s] : 1 <= b /\ b <= head
        /\ \A b \in event[s] : b < from => b \in processed[s]
        /\ \A b \in processed[s] : b < from
        /\ \A b \in event[s], c \in reply.blocks : from <= b /\ b <= c => b \in reply.blocks
    BY <2>1, <2>2, ZenonT(60) DEF FilterFollows, ReplyIsPrefix, InChain, TypeOK, Filter
  <2>4. /\ \A b \in event[s] : b < last + 1 => b \in found
        /\ \A b \in found : b < last + 1
        /\ last + 1 <= head + 1
    <3> HIDE DEF from
    <3>1. ASSUME NEW b \in event[s], b < last + 1 PROVE b \in found
      <4>1. CASE last = 0
        BY <2>a, <3>1, <4>1, SMTT(60)
      <4>2. CASE last \in processed[s]
        BY <2>1, <2>a, <3>1, <4>2, SMTT(60)
      <4>3. CASE last \in reply.blocks
        BY <2>1, <2>a, <3>1, <4>3, SMTT(60)
      <4>4. QED
        BY <2>1, <4>1, <4>2, <4>3
    <3>2. QED
      BY <2>1, <2>a, <3>1, SMTT(60)
  <2>5. FilterFollows'
    BY <2>1, <2>2, <2>4 DEF FilterFollows, TypeOK
  <2>6. \A t \in Streams : sent'[t] = processed'[t]
    BY <1>5, <2>1, ZenonT(60) DEF ProcessLogs, TypeOK
  <2>7. reply.blocks \cap sent[s] = {}
    BY <2>1, <2>2, SMTT(60) DEF FilterFollows, ReplyIsPrefix, TypeOK, Filter
  <2>8. CastOnce'
    BY <1>5, <2>1, <2>7, ZenonT(60) DEF ProcessLogs, CastOnce, TypeOK
  <2>9. QED
    BY <1>0, <2>2, <2>3, <2>5, <2>6, <2>8
<1>6. CASE SaveBlocksProcessed
  BY <1>0, <1>6
     DEF ReplyIsPrefix, FilterFollows, SaveBlocksProcessed, chain, history, CastOnce
<1>7. CASE UNCHANGED vars
  BY <1>0, <1>7
     DEF vars, chain, memory, history, ReplyIsPrefix, FilterFollows, CastOnce
<1>8. QED
  BY <1>1, <1>2, <1>3, <1>4, <1>5, <1>6, <1>7 DEF Next, Listen

\* As long as the node does not crash, no block with logs is skipped by the moving
\* filter, whatever calls of the web3 node fail.
THEOREM NoEventIsSkipped == Spec => []NoneSkipped
<1>1. SteadyInv => NoneSkipped
  BY SMTT(60) DEF SteadyInv, FilterFollows, NoneSkipped, TypeOK, Filter, InChain
<1>2. QED
  BY SteadyInit, SteadyStep, <1>1, PTL DEF Spec

\* As long as the node does not crash, no log is cast twice to the EoServer actor.
THEOREM LogsAreCastOnce == Spec => []CastOnce
<1>1. SteadyInv => CastOnce
  BY DEF SteadyInv
<1>2. QED
  BY SteadyInit, SteadyStep, <1>1, PTL DEF Spec
=============================================================================
