--------------------------- MODULE CallStepsProofs ---------------------------
(***************************************************************************)
(* The steps of Calls: each keeps the types, keeps that the outputs of a   *)
(* call take nothing and let nobody spend without the rights the validator *)
(* looked for, and is a step of ProgramLedger or none, whatever the calls, *)
(* their instructions and the accounts. What an operation does to the      *)
(* accounts it reads is taken from RulesHold, which CallsProofs proves.    *)
(***************************************************************************)
EXTENDS CallsLedger, TLAPS

USE ZenonT(2), SMTT(60), ZenonT(60)

-----------------------------------------------------------------------------
(* What an operation of the batcher leaves of the accounts it reads. *)

\* Two tokens that let the same spenders spend, and the updates that may change them.
SamePermits(t, u) == u.allowance = t.allowance /\ u.approvals = t.approvals
TouchesPermits(updates) ==
    \E f \in DOMAIN updates : updates[f].field \in {"Approvals", "Allowance"}

\* What is left of a token and of an account.
Unmoved(t, u) == u.balance >= t.balance /\ \A i \in Ids : t.ids[i] > 0 => u.ids[i] > 0
Heir(x, y) == y \in Account /\ y.self = x.self /\ y.owner = x.owner /\ y.program = x.program
KeepsHoldings(x, y, token) ==
    Holds(x, token) => Holds(y, token) /\ Unmoved(x.programs[token], y.programs[token])
KeepsPermits(x, y, token) ==
    Holds(x, token) => Holds(y, token) /\ SamePermits(x.programs[token], y.programs[token])

IsOperation(o) ==
    IsTransfer(o) \/ IsBurn(o) \/ IsDistribution(o) \/ IsUpdate(o) \/ o.is = "Program"

\* What was read for o is, if anything, the account of the address asked for.
Found(call, o, read) ==
    \A n \in 1..Len(Reads(call, o)) :
        read[n] # None => read[n] \in Account /\ read[n].self = Reads(call, o)[n].name

\* Where o may take from the n-th account it reads, and of which token it may change the
\* permits.
MayTake(o, n, k) == n = 1 /\ o.is \in {"Transfer", "Burn"} /\ k = o.token
MayPermit(call, o, k) ==
    \/ o.is = "Distribution" /\ k = Resolve(call, o.program)
    \/ o.is = "Token" /\ k = Resolve(call, o.token) /\ TouchesPermits(o.fields)

\* y is what may become of x, the n-th account read for o.
Becomes(call, o, n, x, y) ==
    /\ y \in Account /\ y.self = Reads(call, o)[n].name /\ Reads(call, o)[n].buffered
    /\ x = None => y.owner = y.self \/ y.self = call.to
    /\ x # None =>
         /\ Heir(x, y)
         /\ \A k \in Addresses : /\ ~MayTake(o, n, k) => KeepsHoldings(x, y, k)
                                 /\ ~MayPermit(call, o, k) => KeepsPermits(x, y, k)

\* The accounts an operation succeeds with are what may become of the first ones it read.
OperationsBecome ==
    \A call, o, read :
        /\ call.to \in Addresses /\ call.from \in Addresses
        /\ IsOperation(o) /\ Found(call, o, read) /\ ApplyOperation(call, o, read).is = "ok"
        => LET value == ApplyOperation(call, o, read).value
           IN /\ value = <<value[1]>> \/ value = <<value[1], value[2]>>
              /\ \A n \in DOMAIN value : /\ n \in 1..Len(Reads(call, o))
                                        /\ Becomes(call, o, n, read[n], value[n])

OperationSet(call) ==
    UNION {Range(OperationsOf(call.instructions[i])) : i \in DOMAIN call.instructions}

\* The instruction an operation that takes or permits comes from.
ComesFrom(o, i) ==
    /\ o.is \in {"Transfer", "Burn"} => i = o
    /\ o.is = "Token" => i.is = "Update" /\ \E u \in DOMAIN i.updates : i.updates[u] = o

\* The operations of a call are those of its instructions.
OperationsCome ==
    \A call : IsCall(call) =>
        /\ Operations(call) \in Seq(OperationSet(call))
        /\ \A o \in OperationSet(call) :
              /\ IsOperation(o)
              /\ \E i \in DOMAIN call.instructions : ComesFrom(o, call.instructions[i])

\* A call is performed from operation to operation, until one fails.
PerformStep(call, accounts, result, n) ==
    IF result.is = "ok"
    THEN Perform(call, Operations(call)[n], accounts, result.value)
    ELSE result
OperationsPerform ==
    \A call, accounts : Len(Operations(call)) \in Nat =>
        LET performing == Performing(call, accounts)
        IN /\ performing[0] = Ok(accounts)
           /\ \A n \in 1..Len(Operations(call)) :
                 performing[n] = PerformStep(call, accounts, performing[n - 1], n)
           /\ \A n \in 0..Len(Operations(call)) :
                 performing[n].is # "ok" => Performed(call, accounts) = performing[n]

RulesHold == OperationsBecome /\ OperationsCome /\ OperationsPerform

\* What two changes in turn do not take from a token, both together do not take.
LEMMA UnmovedTwice ==
  ASSUME NEW t \in Token, NEW u \in Token, NEW v \in Token, Unmoved(t, u), Unmoved(u, v)
  PROVE  Unmoved(t, v)
<1>1. \A w \in {t, u, v} : w.balance \in Nat
  BY InstructionConstants, SMTT(60) DEF Token, Uint
<1> QED
  BY <1>1 DEF Unmoved

\* The accounts get_account and create_program make have the types of accounts.
LEMMA FreshFacts ==
  ASSUME NEW a \in Addresses, NEW owner \in Addresses, NEW metadata \in Data
  PROVE  /\ FreshUser(a) \in Account /\ FreshUser(a).self = a /\ FreshUser(a).owner = a
         /\ FreshProgram(a, owner, metadata) \in Account
         /\ FreshProgram(a, owner, metadata).self = a
<1>1. Empty(Keys) \in Data /\ Empty(Addresses) \in Maps(Addresses, Token)
  BY DEF Empty, Data, Maps
<1>2. FreshUser(a) \in Account /\ FreshUser(a).self = a /\ FreshUser(a).owner = a
  BY <1>1 DEF FreshUser, Account
<1>3. \A x \in Account :
        LET y == [x EXCEPT !.program = TRUE, !.owner = owner, !.metadata = metadata]
        IN y \in Account /\ y.self = x.self
  BY Zenon DEF Account
<1> QED
  BY <1>2, <1>3, Zenon DEF FreshProgram

\* A name stands for an address unless it is the namespace.
LEMMA NamesFacts ==
  ASSUME NEW call, call.to \in Addresses, NEW name \in Names
  PROVE  /\ name \notin {This, Namespace} => name \in Addresses /\ Resolve(call, name) = name
         /\ name = This => Resolve(call, name) = call.to
         /\ Resolve(call, name) = Namespace <=> name = Namespace
         /\ name # Namespace => Resolve(call, name) \in Addresses
  BY InstructionConstants DEF Names, Resolve

\* An address has in the buffer what it had, or the last of the accounts added for it.
LEMMA BufferFacts ==
  ASSUME NEW buffer, NEW value, value = <<value[1]>> \/ value = <<value[1], value[2]>>,
         NEW a \in Addresses
  PROVE  \/ AddToBuffer(buffer, value)[a] = buffer[a]
         \/ \E n \in DOMAIN value : value[n].self = a /\ AddToBuffer(buffer, value)[a] = value[n]
<1> DEFINE Of == {n \in DOMAIN value : value[n].self = a}
           latest == CHOOSE n \in Of : \A m \in Of : m <= n
<1>1. AddToBuffer(buffer, value)[a] = IF Of = {} THEN buffer[a] ELSE value[latest]
  BY DEF AddToBuffer
<1>2. Of \subseteq {1, 2}
  <2>1. CASE value = <<value[1]>>
    <3>1. DOMAIN value = {1}
      BY <2>1
    <3> QED
      BY <3>1
  <2>2. CASE value = <<value[1], value[2]>>
    <3>1. DOMAIN value = {1, 2}
      BY <2>2
    <3> QED
      BY <3>1
  <2> QED
    BY <2>1, <2>2
<1>3. Of # {} => \E n \in Of : \A m \in Of : m <= n
  <2> HIDE DEF Of
  <2>1. CASE 2 \in Of
    BY <2>1, <1>2, SMTT(60)
  <2>2. CASE 2 \notin Of
    BY <2>2, <1>2, SMTT(60)
  <2> QED
    BY <2>1, <2>2
<1>4. Of # {} => latest \in Of
  BY <1>3
<1> HIDE DEF latest
<1> QED
  BY <1>1, <1>4

-----------------------------------------------------------------------------
(* Types. *)

IsJob(j) == j = [at |-> j.at, accounts |-> j.accounts, read |-> j.read, rest |-> j.rest,
                 buffer |-> j.buffer]
IsBuffer(b) == DOMAIN b = Addresses /\ \A a \in Addresses : IsAccountOf(b[a], a)

\* What was read so far for o is, where it is an account, the one of the address asked for.
ReadFor(call, o, read) ==
    /\ read \in Seq(Range(read)) /\ Len(read) <= Len(Reads(call, o))
    /\ \A n \in 1..Len(read) : IsAccountOf(read[n], Reads(call, o)[n].name)

\* Instructions are for calls, a registration has none.
RightKind(call, at) ==
    /\ at \in {"checking", "counting", "applying"} => call.type = "Call"
    /\ at = "registering" => call.type = "RegisterProgram"

JobOK(call, j) ==
    /\ IsJob(j) /\ IsBuffer(j.buffer) /\ RightKind(call, j.at)
    /\ j.at = "counting" /\ j.read # <<>> =>
          j.read[1] \in Account /\ j.read[1].self = call.to
    /\ j.at = "applying" =>
          /\ j.rest \in Seq(OperationSet(call))
          /\ j.rest # <<>> => ReadFor(call, Head(j.rest), j.read)

TypeInv ==
    /\ IsBuffer(cache)
    /\ DOMAIN job = DOMAIN Calls /\ \A c \in DOMAIN Calls : JobOK(Calls[c], job[c])
    /\ told \in [DOMAIN Calls -> {"none", "applied", "failed"}]
    /\ alive \in BOOLEAN
    /\ late \in 0..MaxLate

\* A call that comes to a stage with nothing in hand is of the right type for it.
LEMMA JobFacts ==
  ASSUME NEW call, NEW at, RightKind(call, at)
  PROVE  /\ JobOK(call, Job(at)) /\ Job(at).at = at /\ Job(at).accounts = <<>>
         /\ Job(at).read = <<>> /\ Job(at).rest = <<>> /\ Job(at).buffer = Empty(Addresses)
<1>1. IsJob(Job(at)) /\ Job(at).at = at /\ Job(at).read = <<>> /\ Job(at).rest = <<>>
        /\ Job(at).accounts = <<>> /\ Job(at).buffer = Empty(Addresses)
  BY DEF IsJob, Job
<1>2. IsBuffer(Empty(Addresses))
  BY DEF IsBuffer, Empty, IsAccountOf
<1>3. <<>> \in Seq(OperationSet(call))
  OBVIOUS
<1> HIDE DEF Job
<1> QED
  BY <1>1, <1>2, <1>3 DEF JobOK

\* A step of one call leaves the others where they are.
LEMMA GoesFacts ==
  ASSUME TypeInv, NEW c \in DOMAIN Calls, NEW to, Goes(c, to)
  PROVE  /\ DOMAIN job' = DOMAIN Calls /\ job'[c] = to
         /\ \A d \in DOMAIN Calls : d # c => job'[d] = job[d]
  BY DEF TypeInv, Goes

\* What is read under a name is the account of that name, or none.
LEMMA ReadFacts ==
  ASSUME TypeInv, NEW stage, NEW name, NEW answer, Read(stage, name, answer)
  PROVE  IsAccountOf(answer, name) /\ late' \in 0..MaxLate
<1>1. late' \in 0..MaxLate
  BY CallsConstants, SMTT(60) DEF TypeInv, Read
<1>2. IsAccountOf(answer, name)
  BY SMTT(60) DEF TypeInv, Read, IsBuffer, IsAccountOf
<1> QED
  BY <1>1, <1>2

\* A call that fails is told so.
LEMMA FailsFacts ==
  ASSUME TypeInv, NEW c \in DOMAIN Calls, Fails(c)
  PROVE  Goes(c, Job("failed")) /\ told' \in [DOMAIN Calls -> {"none", "applied", "failed"}]
  BY DEF TypeInv, Fails

\* A step that gives one call a job of the right type keeps the types.
LEMMA TypesKept ==
  ASSUME TypeInv, NEW c \in DOMAIN Calls, NEW to, Goes(c, to), JobOK(Calls[c], to),
         IsBuffer(cache'), told' \in [DOMAIN Calls -> {"none", "applied", "failed"}],
         alive' \in BOOLEAN, late' \in 0..MaxLate
  PROVE  TypeInv'
<1>1. \A d \in DOMAIN Calls : JobOK(Calls[d], job'[d])
  BY GoesFacts DEF TypeInv
<1> QED
  BY <1>1, GoesFacts DEF TypeInv
\* What an operation leaves in the buffer are accounts under their addresses.
LEMMA BufferTypes ==
  ASSUME RulesHold, NEW call, call.to \in Addresses, call.from \in Addresses,
         NEW o, IsOperation(o), NEW read, Found(call, o, read),
         ApplyOperation(call, o, read).is = "ok", NEW buffer, IsBuffer(buffer)
  PROVE  IsBuffer(AddToBuffer(buffer, ApplyOperation(call, o, read).value))
<1> DEFINE value == ApplyOperation(call, o, read).value
<1>1. /\ value = <<value[1]>> \/ value = <<value[1], value[2]>>
      /\ \A n \in DOMAIN value : value[n] \in Account
  BY DEF RulesHold, OperationsBecome, Becomes
<1> HIDE DEF value
<1>2. DOMAIN AddToBuffer(buffer, value) = Addresses
  BY DEF AddToBuffer
<1>3. \A a \in Addresses : IsAccountOf(AddToBuffer(buffer, value)[a], a)
  BY <1>1, BufferFacts, SMTT(60) DEF IsBuffer, IsAccountOf
<1> QED
  BY <1>2, <1>3 DEF IsBuffer, value

\* The next operation, and those after it, are operations of the call.
LEMMA HeadFacts ==
  ASSUME RulesHold, NEW call, IsCall(call), NEW rest \in Seq(OperationSet(call)), rest # <<>>
  PROVE  /\ Head(rest) \in OperationSet(call) /\ IsOperation(Head(rest))
         /\ Tail(rest) \in Seq(OperationSet(call)) /\ Head(rest) = rest[1]
<1>1. \A S : \A r \in Seq(S) : r # <<>> => Head(r) \in S /\ Tail(r) \in Seq(S) /\ Head(r) = r[1]
  OBVIOUS
<1>2. Head(rest) \in OperationSet(call) /\ Tail(rest) \in Seq(OperationSet(call)) /\ Head(rest) = rest[1]
  BY <1>1
<1> QED
  BY <1>2 DEF RulesHold, OperationsCome

\* The lists of reads are short sequences.
LEMMA ReadsFacts ==
  ASSUME NEW call, NEW o, IsOperation(o)
  PROVE  Len(Reads(call, o)) \in 1..3
<1>1. o.is \in {"Transfer", "Burn", "Distribution", "Program", "Token", "ProgramUpdate"}
  BY DEF IsOperation, IsTransfer, IsBurn, IsDistribution, IsUpdate
<1> QED
  BY <1>1 DEF Reads

\* A list with one more element is a list.
LEMMA AppendIsList ==
  ASSUME NEW r, r \in Seq(Range(r)), NEW e
  PROVE  Append(r, e) \in Seq(Range(Append(r, e)))
<1> DEFINE S == Range(r)
           T == S \union {e}
           s == Append(r, e)
<1> HIDE DEF S
<1>1. r \in Seq(S)
  BY DEF S
<1>2. r \in Seq(T)
  BY <1>1, SMTT(60)
<1>3. s \in Seq(T)
  BY <1>2
<1> HIDE DEF T, s
<1>4. Len(s) \in Nat /\ s \in [1..Len(s) -> T]
  BY <1>3
<1>5. s \in [1..Len(s) -> Range(s)]
  BY <1>4 DEF Range
<1>6. \A X : \A n \in Nat : [1..n -> X] \subseteq Seq(X)
  OBVIOUS
<1>7. s \in Seq(Range(s))
  BY <1>4, <1>5, <1>6
<1> QED
  BY <1>7 DEF s

\* Before its first read an operation has read what it may.
LEMMA NothingRead ==
  ASSUME RulesHold, NEW call, IsCall(call), NEW rest \in Seq(OperationSet(call)), rest # <<>>
  PROVE  ReadFor(call, Head(rest), <<>>)
<1>1. IsOperation(Head(rest))
  BY HeadFacts
<1>2. <<>> \in Seq(Range(<<>>)) /\ Len(<<>>) = 0
  OBVIOUS
<1> QED
  BY <1>1, <1>2, ReadsFacts DEF ReadFor

\* A call that comes to be written carries the buffer.
LEMMA WritingFacts ==
  ASSUME NEW call, NEW b, IsBuffer(b)
  PROVE  LET k == [Job("writing") EXCEPT !.buffer = b]
         IN JobOK(call, k) /\ k.at = "writing" /\ k.buffer = b
<1> DEFINE j == Job("writing")
           k == [j EXCEPT !.buffer = b]
<1>1. IsJob(j) /\ j.at = "writing"
  BY JobFacts DEF JobOK, RightKind
<1> HIDE DEF j
<1>2. IsJob(k) /\ k.at = "writing" /\ k.buffer = b
  BY <1>1 DEF IsJob
<1> HIDE DEF k
<1>3. JobOK(call, k)
  BY <1>2 DEF JobOK, RightKind
<1> QED
  BY <1>2, <1>3 DEF j, k

\* What a registration writes: the program anew, and the deployer.
LEMMA RegistrationBuffer ==
  ASSUME NEW call, IsCall(call), call.type = "RegisterProgram",
         NEW answer, answer # None, IsAccountOf(answer, call.from)
  PROVE  LET b == AddToBuffer(Empty(Addresses),
                    <<FreshProgram(call.to, call.from, call.metadata),
                      [answer EXCEPT !.nonce = @ + 1]>>)
         IN /\ IsBuffer(b)
            /\ \A a \in Addresses : b[a] # None =>
                  a = call.to \/ (a = call.from /\ b[a].owner = answer.owner)
<1> DEFINE x == FreshProgram(call.to, call.from, call.metadata)
           y == [answer EXCEPT !.nonce = @ + 1]
           value == <<x, y>>
           b == AddToBuffer(Empty(Addresses), value)
<1>1. x \in Account /\ x.self = call.to
  BY FreshFacts DEF IsCall
<1>2. y \in Account /\ y.self = call.from /\ y.owner = answer.owner
  BY SMTT(60) DEF IsAccountOf, Account
<1> HIDE DEF x, y
<1>3. value = <<value[1], value[2]>> /\ DOMAIN value = {1, 2} /\ value[1] = x /\ value[2] = y
  OBVIOUS
<1> HIDE DEF value
<1>4. DOMAIN b = Addresses
  BY DEF AddToBuffer
<1>5. \A a \in Addresses : \/ b[a] = Empty(Addresses)[a]
                           \/ \E n \in DOMAIN value : value[n].self = a /\ b[a] = value[n]
  BY <1>3, BufferFacts, SMTT(60)
<1> HIDE DEF b
<1>6. \A a \in Addresses : b[a] = None \/ (b[a] = x /\ a = call.to) \/ (b[a] = y /\ a = call.from)
  BY <1>1, <1>2, <1>3, <1>5, ZenonT(60) DEF Empty
<1>7. /\ IsBuffer(b)
      /\ \A a \in Addresses : b[a] # None =>
            a = call.to \/ (a = call.from /\ b[a].owner = answer.owner)
  BY <1>1, <1>2, <1>4, <1>6 DEF IsBuffer, IsAccountOf
<1> QED
  BY <1>7 DEF b, value, x, y

\* The types at the start.
LEMMA TypeInvInit ==
  Init => TypeInv
<1> SUFFICES ASSUME Init PROVE TypeInv
  OBVIOUS
<1>1. IsBuffer(cache)
  BY CallsConstants DEF Init, IsBuffer, IsAccountOf
<1>2. \A c \in DOMAIN Calls : JobOK(Calls[c], Job("idle"))
  BY JobFacts DEF RightKind
<1> QED
  BY <1>1, <1>2, CallsConstants DEF Init, TypeInv

\* Every step keeps the types, whatever is read late.
LEMMA TypeInvStep ==
  ASSUME RulesHold, TypeInv, [Next]_vars
  PROVE  TypeInv'
<1>1. CASE UNCHANGED vars
  BY <1>1 DEF vars, TypeInv, IsBuffer, JobOK
<1>2. ASSUME NEW c \in DOMAIN Calls, Submit(c)
      PROVE  TypeInv'
  <2> USE <1>2
  <2> DEFINE at == IF Calls[c].type = "Call" THEN "checking" ELSE "registering"
  <2>1. Goes(c, Job(at)) /\ UNCHANGED <<cache, told, alive, late>>
    BY DEF Submit
  <2>2. RightKind(Calls[c], at)
    BY CallsConstants DEF RightKind, IsCall
  <2> QED
    BY <2>1, <2>2, JobFacts, TypesKept DEF TypeInv, IsBuffer
<1>3. ASSUME NEW c \in DOMAIN Calls, PendingCall(c)
      PROVE  TypeInv'
  <2> USE <1>3
  <2>1. PICK name, answer, accounts :
          /\ Read("checking", name, answer)
          /\ Goes(c, [job[c] EXCEPT !.accounts = accounts])
          /\ job[c].at = "checking"
          /\ UNCHANGED <<cache, told, alive>>
    BY Zenon DEF PendingCall
  <2>2. JobOK(Calls[c], [job[c] EXCEPT !.accounts = accounts])
    <3>1. JobOK(Calls[c], job[c])
      BY DEF TypeInv
    <3> DEFINE j == job[c]
               k == [j EXCEPT !.accounts = accounts]
    <3> HIDE DEF j
    <3>2. IsJob(j)
      BY <3>1 DEF JobOK, j
    <3>3. IsJob(k) /\ k.at = j.at /\ k.read = j.read /\ k.rest = j.rest /\ k.buffer = j.buffer
      BY <3>2, SMTT(60) DEF IsJob
    <3> HIDE DEF k
    <3>4. JobOK(Calls[c], k)
      BY <3>1, <3>3 DEF JobOK, j
    <3> QED
      BY <3>4 DEF j, k
  <2>3. late' \in 0..MaxLate
    BY <2>1, ReadFacts
  <2> QED
    BY <2>1, <2>2, <2>3, TypesKept DEF TypeInv, IsBuffer
<1>4. ASSUME NEW c \in DOMAIN Calls, Validate(c)
      PROVE  TypeInv'
  <2> USE <1>4
  <2>1. /\ Goes(c, Job("counting")) \/ Goes(c, Job("failed"))
        /\ job[c].at = "checking"
        /\ told' \in [DOMAIN Calls -> {"none", "applied", "failed"}]
        /\ UNCHANGED <<cache, alive, late>>
    BY FailsFacts DEF Validate, TypeInv
  <2>2. RightKind(Calls[c], "counting") /\ RightKind(Calls[c], "failed")
    BY <2>1 DEF TypeInv, JobOK, RightKind
  <2>3. JobOK(Calls[c], Job("counting")) /\ JobOK(Calls[c], Job("failed"))
    BY <2>2, JobFacts, Zenon
  <2> QED
    BY <2>1, <2>3, TypesKept DEF TypeInv, IsBuffer
<1>5. ASSUME NEW c \in DOMAIN Calls, ReadCalled(c)
      PROVE  TypeInv'
  <2> USE <1>5
  <2>1. PICK answer : /\ Read("counting", Calls[c].to, answer)
                      /\ IF answer = None
                         THEN Fails(c)
                         ELSE Goes(c, [job[c] EXCEPT !.read = <<answer>>]) /\ UNCHANGED told
                      /\ UNCHANGED <<cache, alive>>
                      /\ job[c].at = "counting"
    BY DEF ReadCalled
  <2>2. late' \in 0..MaxLate /\ IsAccountOf(answer, Calls[c].to)
    BY <2>1, ReadFacts
  <2>3. CASE answer = None
    BY <2>1, <2>2, <2>3, FailsFacts, JobFacts, TypesKept, ZenonT(60) DEF TypeInv, IsBuffer, RightKind
  <2>4. CASE answer # None
    <3> DEFINE j == job[c]
               k == [j EXCEPT !.read = <<answer>>]
    <3>1. JobOK(Calls[c], j) /\ j.at = "counting"
      BY <2>1 DEF TypeInv
    <3>2. Goes(c, k) /\ UNCHANGED told
      BY <2>1, <2>4
    <3> HIDE DEF j
    <3>3. IsJob(k) /\ k.at = j.at /\ k.read = <<answer>> /\ k.rest = j.rest /\ k.buffer = j.buffer
      BY <3>1, SMTT(60) DEF IsJob, JobOK
    <3> HIDE DEF k
    <3>4. k.read[1] = answer
      BY <3>3
    <3>5. JobOK(Calls[c], k)
      BY <2>2, <2>4, <3>1, <3>3, <3>4 DEF JobOK, IsAccountOf
    <3> QED
      BY <2>1, <2>2, <3>2, <3>5, TypesKept DEF TypeInv, IsBuffer
  <2> QED
    BY <2>3, <2>4
<1>6. ASSUME NEW c \in DOMAIN Calls, IncrementNonce(c)
      PROVE  TypeInv'
  <2> USE <1>6
  <2> DEFINE x == job[c].read[1]
             y == [x EXCEPT !.nonce = @ + 1]
             k == [Job("applying") EXCEPT !.rest = Operations(Calls[c])]
  <2>1. /\ Goes(c, k) /\ cache' = [cache EXCEPT ![x.self] = y]
        /\ UNCHANGED <<told, alive, late>>
        /\ job[c].at = "counting" /\ job[c].read # <<>>
    BY DEF IncrementNonce
  <2>2. x \in Account /\ x.self = Calls[c].to /\ IsCall(Calls[c]) /\ RightKind(Calls[c], "counting")
    BY <2>1, CallsConstants DEF TypeInv, JobOK
  <2> HIDE DEF x
  <2>3. y \in Account /\ y.self = x.self
    BY <2>2, SMTT(60) DEF Account
  <2> HIDE DEF y
  <2>4. IsBuffer(cache')
    BY <2>1, <2>3 DEF TypeInv, IsBuffer, IsAccountOf
  <2>5. JobOK(Calls[c], k)
    <3> DEFINE j == Job("applying")
               ops == Operations(Calls[c])
    <3>1. JobOK(Calls[c], j) /\ j.at = "applying" /\ j.read = <<>>
      BY <2>2, JobFacts, ZenonT(60) DEF RightKind
    <3>2. ops \in Seq(OperationSet(Calls[c]))
      BY <2>2 DEF RulesHold, OperationsCome
    <3> HIDE DEF j, ops
    <3>3. IsJob(j) /\ k = [j EXCEPT !.rest = ops]
      BY <3>1 DEF JobOK, j, ops
    <3> HIDE DEF k
    <3>4. IsJob(k) /\ k.at = "applying" /\ k.read = <<>> /\ k.rest = ops /\ k.buffer = j.buffer
      BY <3>1, <3>3 DEF IsJob
    <3>6. ops # <<>> => ReadFor(Calls[c], Head(ops), <<>>)
      BY <2>2, <3>2, NothingRead
    <3> QED
      BY <3>1, <3>2, <3>4, <3>6 DEF JobOK
  <2> QED
    BY <2>1, <2>4, <2>5, TypesKept, Zenon DEF TypeInv
<1>7. ASSUME NEW c \in DOMAIN Calls, ReadNext(c)
      PROVE  TypeInv'
  <2> USE <1>7
  <2> DEFINE j == job[c]
             o == Operation(c)
             n == Len(j.read) + 1
             name == Reads(Calls[c], o)[n].name
  <2>1. PICK answer :
          /\ \/ Read("applying", name, answer)
             \/ UNCHANGED late /\ name \in Addresses /\ answer = j.buffer[name]
          /\ Goes(c, [j EXCEPT !.read = Append(@, answer)])
          /\ UNCHANGED <<cache, told, alive>>
          /\ j.at = "applying" /\ j.rest # <<>> /\ Len(j.read) < Len(Reads(Calls[c], o))
    BY Zenon DEF ReadNext
  <2>2. JobOK(Calls[c], j) /\ IsCall(Calls[c])
    BY CallsConstants DEF TypeInv
  <2>3. late' \in 0..MaxLate /\ IsAccountOf(answer, name)
    BY <2>1, <2>2, ReadFacts DEF TypeInv, JobOK, IsBuffer
  <2>4. ReadFor(Calls[c], o, j.read) /\ o = Head(j.rest)
    BY <2>1, <2>2, ZenonT(30) DEF JobOK, Operation
  <2> DEFINE r == j.read
             s == Append(r, answer)
             k == [j EXCEPT !.read = s]
  <2>5. r \in Seq(Range(r)) /\ Len(r) < Len(Reads(Calls[c], o)) /\ n = Len(r) + 1
    BY <2>1, <2>4, Zenon DEF ReadFor
  <2>6. Len(Reads(Calls[c], o)) \in Nat
    <3>1. j.rest \in Seq(OperationSet(Calls[c]))
      BY <2>1, <2>2 DEF JobOK
    <3>2. IsOperation(o)
      BY <2>1, <2>2, <2>4, <3>1, HeadFacts, ZenonT(30)
    <3> HIDE DEF o
    <3> QED
      BY <3>2, ReadsFacts
  <2> DEFINE L == Len(Reads(Calls[c], o))
  <2>7. \A m \in 1..Len(r) : IsAccountOf(r[m], Reads(Calls[c], o)[m].name)
    BY <2>4 DEF ReadFor
  <2> HIDE DEF j, o, r, L
  <2>8. /\ Len(s) = n /\ Len(r) \in Nat
        /\ \A m \in 1..Len(r) : s[m] = r[m]
        /\ s[n] = answer
    BY <2>5
  <2>9. s \in Seq(Range(s))
    BY <2>5, AppendIsList
  <2> HIDE DEF s
  <2>10. ReadFor(Calls[c], o, s)
    <3>1. Len(s) <= Len(Reads(Calls[c], o))
      BY <2>5, <2>6, <2>8
    <3>2. \A m \in 1..Len(s) : m = n \/ m \in 1..Len(r)
      BY <2>8 DEF n, r
    <3> HIDE DEF n
    <3>3. \A m \in 1..Len(s) : IsAccountOf(s[m], Reads(Calls[c], o)[m].name)
      BY <2>3, <2>7, <2>8, <3>2
    <3> QED
      BY <2>9, <3>1, <3>3 DEF ReadFor
  <2>11. JobOK(Calls[c], k)
    <3>1. IsJob(k) /\ k.at = j.at /\ k.read = s /\ k.rest = j.rest /\ k.buffer = j.buffer
      BY <2>2, SMTT(60) DEF JobOK, IsJob
    <3> HIDE DEF k
    <3> QED
      BY <2>1, <2>2, <2>4, <2>10, <3>1 DEF JobOK
  <2>12. Goes(c, k)
    BY <2>1 DEF s, r
  <2> HIDE DEF k
  <2> QED
    BY <2>1, <2>3, <2>11, <2>12, TypesKept DEF TypeInv, IsBuffer
<1>8. ASSUME NEW c \in DOMAIN Calls, ApplyNext(c)
      PROVE  TypeInv'
  <2> USE <1>8
  <2> DEFINE call == Calls[c]
             j == job[c]
             o == Head(j.rest)
             result == ApplyOperation(call, o, j.read)
             k == [j EXCEPT !.read = <<>>, !.rest = Tail(@), !.buffer = AddToBuffer(@, result.value)]
  <2>1. /\ j.at = "applying" /\ j.rest # <<>> /\ Len(j.read) = Len(Reads(call, o))
        /\ UNCHANGED <<cache, late>>
    BY DEF ApplyNext, Operation
  <2>2. \/ result.is = "ok" /\ Goes(c, k) /\ UNCHANGED <<told, alive>>
        \/ Fails(c) /\ UNCHANGED alive
        \/ Goes(c, Job("lost")) /\ alive' = FALSE /\ UNCHANGED told
    BY Zenon DEF ApplyNext, Operation
  <2>3. /\ JobOK(call, j) /\ IsCall(call) /\ IsBuffer(cache') /\ late' \in 0..MaxLate
        /\ told \in [DOMAIN Calls -> {"none", "applied", "failed"}] /\ alive \in BOOLEAN
    BY <2>1, CallsConstants DEF TypeInv, IsBuffer
  <2>4. CASE result.is = "ok" /\ Goes(c, k) /\ UNCHANGED <<told, alive>>
    <3>1. j.rest \in Seq(OperationSet(call)) /\ ReadFor(call, o, j.read) /\ IsJob(j) /\ IsBuffer(j.buffer)
      BY <2>1, <2>3 DEF JobOK
    <3>2. Tail(j.rest) \in Seq(OperationSet(call)) /\ IsOperation(o)
      BY <2>1, <2>3, <3>1, HeadFacts
    <3>3. Found(call, o, j.read)
      BY <2>1, <3>1 DEF ReadFor, Found, IsAccountOf
    <3>4. IsBuffer(AddToBuffer(j.buffer, result.value))
      BY <2>3, <2>4, <3>1, <3>2, <3>3, BufferTypes DEF IsCall
    <3>5. Tail(j.rest) # <<>> => ReadFor(call, Head(Tail(j.rest)), <<>>)
      BY <2>3, <3>2, NothingRead, Zenon
    <3> DEFINE b == AddToBuffer(j.buffer, result.value)
    <3> HIDE DEF j, result, b
    <3>6. k = [j EXCEPT !.read = <<>>, !.rest = Tail(j.rest), !.buffer = b]
      BY DEF b
    <3> HIDE DEF k
    <3>7. /\ IsJob(k) /\ k.at = j.at /\ k.read = <<>> /\ k.rest = Tail(j.rest)
          /\ k.buffer = b
      BY <3>1, <3>6, Zenon DEF IsJob
    <3>9. RightKind(call, j.at)
      BY <2>3 DEF JobOK
    <3>8. JobOK(call, k)
      BY <2>1, <3>2, <3>4, <3>5, <3>7, <3>9 DEF JobOK, b
    <3> QED
      BY <2>3, <2>4, <3>8, TypesKept
  <2>5. CASE Fails(c) /\ UNCHANGED alive
    BY <2>3, <2>5, FailsFacts, JobFacts, TypesKept DEF RightKind
  <2>6. CASE Goes(c, Job("lost")) /\ alive' = FALSE /\ UNCHANGED told
    BY <2>3, <2>6, JobFacts, TypesKept, Zenon DEF RightKind
  <2> QED
    BY <2>2, <2>4, <2>5, <2>6, Zenon
<1>9. ASSUME NEW c \in DOMAIN Calls, AllApplied(c)
      PROVE  TypeInv'
  <2> USE <1>9
  <2> DEFINE b == job[c].buffer
             k == [Job("writing") EXCEPT !.buffer = b]
  <2>1. Goes(c, k) /\ UNCHANGED <<cache, told, alive, late>>
    BY DEF AllApplied
  <2>2. IsBuffer(b)
    BY DEF TypeInv, JobOK
  <2>3. JobOK(Calls[c], k)
    BY <2>2, WritingFacts
  <2> QED
    BY <2>1, <2>3, TypesKept DEF TypeInv, IsBuffer
<1>10. ASSUME NEW c \in DOMAIN Calls, NEW a \in Addresses, WriteAccount(c, a)
      PROVE  TypeInv'
  <2> USE <1>10
  <2> DEFINE j == job[c]
             k == [j EXCEPT !.buffer = Without(@, a)]
  <2>1. /\ Goes(c, k) /\ cache' = [cache EXCEPT ![a] = j.buffer[a]]
        /\ UNCHANGED <<told, alive, late>> /\ j.at = "writing"
    BY DEF WriteAccount
  <2>2. JobOK(Calls[c], j) /\ IsBuffer(cache)
    BY DEF TypeInv
  <2>3. IsBuffer(cache')
    BY <2>1, <2>2 DEF JobOK, IsBuffer
  <2>4. JobOK(Calls[c], k)
    <3> HIDE DEF j
    <3>1. IsJob(k) /\ k.at = j.at /\ k.buffer = Without(j.buffer, a)
      BY <2>2 DEF JobOK, IsJob
    <3>2. IsBuffer(Without(j.buffer, a))
      BY <2>2 DEF JobOK, IsBuffer, Without, IsAccountOf
    <3> HIDE DEF k
    <3> QED
      BY <2>1, <3>1, <3>2 DEF JobOK, RightKind
  <2> QED
    BY <2>1, <2>3, <2>4, TypesKept, Zenon DEF TypeInv
<1>11. ASSUME NEW c \in DOMAIN Calls, AnswerCall(c)
      PROVE  TypeInv'
  <2> USE <1>11
  <2>1. PICK answer :
          /\ Read("answering", Calls[c].from, answer)
          /\ told' = [told EXCEPT ![c] = IF answer = None THEN "failed" ELSE "applied"]
          /\ Goes(c, Job("applied"))
          /\ UNCHANGED <<cache, alive>>
    BY Zenon DEF AnswerCall
  <2>2. late' \in 0..MaxLate
    BY <2>1, ReadFacts
  <2>3. told' \in [DOMAIN Calls -> {"none", "applied", "failed"}]
    BY <2>1 DEF TypeInv
  <2> QED
    BY <2>1, <2>2, <2>3, JobFacts, TypesKept DEF TypeInv, IsBuffer, RightKind
<1>12. ASSUME NEW c \in DOMAIN Calls, RegisterProgram(c)
      PROVE  TypeInv'
  <2> USE <1>12
  <2> DEFINE call == Calls[c]
             Value(answer) == <<FreshProgram(call.to, call.from, call.metadata),
                                [answer EXCEPT !.nonce = @ + 1]>>
             b(answer) == AddToBuffer(Empty(Addresses), Value(answer))
  <2>1. PICK answer :
          /\ Read("registering", call.from, answer)
          /\ IF answer = None \/ ~call.wellFormed
             THEN Fails(c)
             ELSE Goes(c, [Job("writing") EXCEPT !.buffer = b(answer)]) /\ UNCHANGED told
          /\ UNCHANGED <<cache, alive>>
    BY Zenon DEF RegisterProgram, Job
  <2>2. late' \in 0..MaxLate /\ IsAccountOf(answer, call.from)
    BY <2>1, ReadFacts
  <2>5. call.type = "RegisterProgram"
    BY DEF TypeInv, JobOK, RightKind, RegisterProgram
  <2>3. CASE answer = None \/ ~call.wellFormed
    BY <2>1, <2>2, <2>3, FailsFacts, JobFacts, TypesKept, ZenonT(60) DEF TypeInv, IsBuffer, RightKind
  <2>4. CASE ~(answer = None \/ ~call.wellFormed)
    <3>1. IsBuffer(b(answer))
      BY <2>2, <2>4, <2>5, RegistrationBuffer, CallsConstants
    <3>2. Goes(c, [Job("writing") EXCEPT !.buffer = b(answer)]) /\ UNCHANGED told
      BY <2>1, <2>4
    <3> HIDE DEF b
    <3>3. JobOK(call, [Job("writing") EXCEPT !.buffer = b(answer)])
      BY <3>1, WritingFacts
    <3> QED
      BY <2>1, <2>2, <3>2, <3>3, TypesKept DEF TypeInv, IsBuffer
  <2> QED
    BY <2>3, <2>4
<1>13. ASSUME NEW c \in DOMAIN Calls, AnswerRegistration(c)
      PROVE  TypeInv'
  <2> USE <1>13
  <2>1. /\ told' = [told EXCEPT ![c] = "applied"]
        /\ Goes(c, Job("applied"))
        /\ UNCHANGED <<cache, alive, late>>
    BY DEF AnswerRegistration
  <2>2. told' \in [DOMAIN Calls -> {"none", "applied", "failed"}]
    BY <2>1 DEF TypeInv
  <2> QED
    BY <2>1, <2>2, JobFacts, TypesKept DEF TypeInv, IsBuffer, RightKind
<1> QED
  BY <1>1, <1>2, <1>3, <1>4, <1>5, <1>6, <1>7, <1>8, <1>9, <1>10, <1>11, <1>12, <1>13, ZenonT(60) DEF Next, Step

\* The invariant has the types that are checked.
LEMMA TypeInvTypes ==
  TypeInv => TypeOK
  BY DEF TypeInv, TypeOK, JobOK, IsBuffer

-----------------------------------------------------------------------------
(* What a call may do to the accounts, from its validation to its last write. *)

\* The operations that take, or change who may spend, are allowed by accounts k.
Allowed(call, o, k) ==
    LET a == Reads(call, o)[1].name
    IN a \in Addresses /\ k[a] # None =>
         /\ o.is \in {"Transfer", "Burn"} /\ Holds(k[a], o.token) =>
               \E s \in SpendersOf(call) : Lets(k[a], o.token, s)
         /\ o.is = "Token" /\ TouchesPermits(o.fields) => k[a].owner = call.from

\* y takes from x, or changes who may spend of x, only what the call has the right to.
Kept(call, x, y) ==
    /\ y.owner = x.owner
    /\ \A token \in Addresses : Holds(x, token) =>
          /\ Holds(y, token)
          /\ \/ Unmoved(x.programs[token], y.programs[token])
             \/ \E s \in SpendersOf(call) : Lets(x, token, s)
          /\ \/ SamePermits(x.programs[token], y.programs[token])
             \/ x.owner = call.from \/ GivenTo(call, x.self, token)

\* The account a read that looks into buffer b first gives.
Current(b, k, a) == IF a \in Addresses THEN IF b[a] # None THEN b[a] ELSE k[a] ELSE None

\* What holds of a call at each stage, given accounts k.
StageInv(call, j, k) ==
    /\ j.at = "checking" =>
          /\ DOMAIN j.accounts \subseteq GetAccountsInvolved(call)
          /\ \A n \in DOMAIN j.accounts : j.accounts[n] # None =>
                Resolve(call, n) \in Addresses /\ j.accounts[n] = k[Resolve(call, n)]
    /\ j.at \in {"counting", "applying"} => \A o \in Range(Operations(call)) : Allowed(call, o, k)
    /\ j.at = "counting" /\ j.read # <<>> => j.read[1] = k[call.to]
    /\ j.at = "applying" =>
          /\ j.rest \in Seq(Range(Operations(call)))
          /\ j.rest # <<>> => \A n \in 1..Len(j.read) :
                LET r == Reads(call, Head(j.rest))[n]
                IN r.buffered => j.read[n] = Current(j.buffer, k, r.name)
    /\ j.at \in {"applying", "writing"} => \A a \in Addresses : j.buffer[a] # None =>
          /\ a \in Touched(call)
          /\ call.type = "Call" /\ k[a] # None => Kept(call, k[a], j.buffer[a])

\* The accounts of callers are their own.
SelfOwned(b) == \A c \in DOMAIN Calls :
    LET u == Calls[c].from IN b[u] # None => b[u].owner = u

Isolated == \A c, d \in DOMAIN Calls :
    c # d /\ UnderWay(c) /\ UnderWay(d) =>
        (Touched(Calls[c]) \intersect Touched(Calls[d])) \subseteq {Namespace}

CallsInv ==
    /\ TypeInv /\ Isolated
    /\ SelfOwned(cache) /\ \A c \in DOMAIN Calls : SelfOwned(job[c].buffer)
    /\ \A c \in DOMAIN Calls : StageInv(Calls[c], job[c], cache)

\* Of a call between two operations: what is left of it, what allows it, and its buffer.
LEMMA ApplyingStage ==
  ASSUME NEW call, NEW j, NEW k, j.at = "applying", j.read = <<>>,
         j.rest \in Seq(Range(Operations(call))),
         \A o \in Range(Operations(call)) : Allowed(call, o, k),
         \A a \in Addresses : j.buffer[a] # None =>
            a \in Touched(call) /\ (k[a] # None => Kept(call, k[a], j.buffer[a]))
  PROVE  StageInv(call, j, k)
<1>1. 1..Len(j.read) = {}
  OBVIOUS
<1> QED
  BY <1>1, Zenon DEF StageInv

\* The names of a call, and the reads of its operations, are among what it touches.
LEMMA TouchedFacts ==
  ASSUME NEW call, IsCall(call)
  PROVE  /\ call.from \in Touched(call) /\ call.to \in Touched(call)
         /\ \A n \in GetAccountsInvolved(call) : Resolve(call, n) \in Touched(call)
         /\ \A o \in Range(Operations(call)) :
              \A n \in DOMAIN Reads(call, o) : Reads(call, o)[n].name \in Touched(call)
<1>1. \A n \in GetAccountsInvolved(call) : Resolve(call, n) \in Touched(call)
  BY DEF Touched
<1>2. /\ call.from \in GetAccountsInvolved(call) /\ call.to \in GetAccountsInvolved(call)
      /\ Resolve(call, call.from) = call.from /\ Resolve(call, call.to) = call.to
  BY InstructionConstants DEF GetAccountsInvolved, Resolve, IsCall
<1>3. \A o \in Range(Operations(call)) :
        \A n \in DOMAIN Reads(call, o) : Reads(call, o)[n].name \in Touched(call)
  BY SMTT(60) DEF Touched, Range
<1> QED
  BY <1>1, <1>2, <1>3

\* Balances and ids are naturals.
LEMMA TokenNumbers ==
  ASSUME NEW t \in Token
  PROVE  t.balance \in Nat /\ \A i \in Ids : t.ids[i] \in Nat
  BY InstructionConstants, SMTT(60) DEF Token, Uint

\* A token that is held is a token.
LEMMA HeldToken ==
  ASSUME NEW x \in Account, NEW token \in Addresses, Holds(x, token)
  PROVE  x.programs[token] \in Token
  BY DEF Account, Maps, Holds

\* An account that nothing was applied to is kept.
LEMMA KeptAtFirst ==
  ASSUME NEW call, NEW x \in Account
  PROVE  Kept(call, x, x)
<1>1. ASSUME NEW token \in Addresses, Holds(x, token)
      PROVE  /\ Unmoved(x.programs[token], x.programs[token])
             /\ SamePermits(x.programs[token], x.programs[token])
  BY <1>1, HeldToken, TokenNumbers DEF Unmoved, SamePermits
<1> QED
  BY <1>1 DEF Kept

\* What an operation of the call makes of an account it was allowed to change so far.
LEMMA KeptNext ==
  ASSUME NEW call, IsCall(call), NEW o \in Range(Operations(call)), IsOperation(o),
         NEW k, IsBuffer(k), Allowed(call, o, k), NEW a \in Addresses, k[a] # None,
         NEW x, x \in Account, Kept(call, k[a], x),
         NEW n \in DOMAIN Reads(call, o), NEW y, Becomes(call, o, n, x, y), y.self = a
  PROVE  Kept(call, k[a], y)
<1> DEFINE z == k[a]
<1>1. /\ z \in Account /\ z.self = a /\ y \in Account /\ x # None
  BY NoneIsNoValue DEF IsBuffer, IsAccountOf, Becomes
<1>2. /\ y.owner = x.owner
      /\ \A t \in Addresses : /\ ~MayTake(o, n, t) => KeepsHoldings(x, y, t)
                              /\ ~MayPermit(call, o, t) => KeepsPermits(x, y, t)
      /\ Reads(call, o)[n].name = a /\ Reads(call, o)[n].buffered
  BY <1>1 DEF Becomes, Heir
<1>3. ASSUME NEW t \in Addresses, MayTake(o, n, t), Holds(z, t)
      PROVE  (\E s \in SpendersOf(call) : Lets(z, t, s)) /\ ~MayPermit(call, o, t)
  BY <1>2, <1>3 DEF MayTake, MayPermit, Allowed
<1>4. ASSUME NEW t \in Addresses, MayPermit(call, o, t)
      PROVE  z.owner = call.from \/ GivenTo(call, a, t)
  <2>1. CASE o.is = "Distribution" /\ t = Resolve(call, o.program)
    <3> DEFINE R(name, b) == [name |-> Resolve(call, name), buffered |-> b]
    <3>1. Reads(call, o) = <<R(o.to, TRUE), R(o.program, FALSE)>>
      BY <2>1, ZenonT(30) DEF Reads
    <3>2. n \in {1, 2} /\ Reads(call, o)[1] = R(o.to, TRUE) /\ Reads(call, o)[2] = R(o.program, FALSE)
      BY <3>1, SMTT(60)
    <3>3. n = 1 /\ Resolve(call, o.to) = a
      BY <1>2, <3>2, SMTT(60)
    <3>4. PICK m \in DOMAIN Operations(call) : Operations(call)[m] = o
      BY DEF Range
    <3>5. GivenTo(call, a, t)
      BY <2>1, <3>3, <3>4 DEF GivenTo
    <3> QED
      BY <3>5
  <2>2. CASE o.is = "Token" /\ t = Resolve(call, o.token) /\ TouchesPermits(o.fields)
    <3> DEFINE R(name, b) == [name |-> Resolve(call, name), buffered |-> b]
    <3>1. Reads(call, o) = <<R(o.account, TRUE), R(o.token, FALSE)>>
      BY <2>2, ZenonT(30) DEF Reads
    <3>2. n \in {1, 2} /\ Reads(call, o)[2] = R(o.token, FALSE)
      BY <3>1
    <3>3. n = 1
      BY <1>2, <3>2
    <3> QED
      BY <1>2, <2>2, <3>3 DEF Allowed
  <2> QED
    BY <1>4, <2>1, <2>2 DEF MayPermit
<1>5. ASSUME NEW t \in Addresses, Holds(z, t)
      PROVE  /\ Holds(y, t)
             /\ \/ Unmoved(z.programs[t], y.programs[t])
                \/ \E s \in SpendersOf(call) : Lets(z, t, s)
             /\ \/ SamePermits(z.programs[t], y.programs[t])
                \/ z.owner = call.from \/ GivenTo(call, z.self, t)
  <2>1. /\ Holds(x, t)
        /\ \/ Unmoved(z.programs[t], x.programs[t])
           \/ \E s \in SpendersOf(call) : Lets(z, t, s)
        /\ \/ SamePermits(z.programs[t], x.programs[t])
           \/ z.owner = call.from \/ GivenTo(call, z.self, t)
    BY <1>5 DEF Kept
  <2>2. Holds(y, t)
    BY <1>2, <1>3, <1>5, <2>1 DEF KeepsHoldings, KeepsPermits
  <2>3. z.programs[t] \in Token /\ x.programs[t] \in Token /\ y.programs[t] \in Token
    BY <1>1, <1>5, <2>1, <2>2, HeldToken, ZenonT(60)
  <2>4. \/ Unmoved(z.programs[t], y.programs[t])
        \/ \E s \in SpendersOf(call) : Lets(z, t, s)
    <3>1. ~MayTake(o, n, t) => Unmoved(x.programs[t], y.programs[t])
      BY <1>2, <2>1, ZenonT(30) DEF KeepsHoldings
    <3> QED
      BY <1>3, <1>5, <2>1, <2>3, <3>1, UnmovedTwice, ZenonT(30)
  <2>5. \/ SamePermits(z.programs[t], y.programs[t])
        \/ z.owner = call.from \/ GivenTo(call, z.self, t)
    BY <1>1, <1>2, <1>4, <2>1, ZenonT(30) DEF KeepsPermits, SamePermits
  <2> QED
    BY <2>2, <2>4, <2>5
<1>6. y.owner = z.owner
  BY <1>2 DEF Kept
<1> HIDE DEF z
<1>7. Kept(call, z, y)
  BY <1>5, <1>6 DEF Kept
<1> QED
  BY <1>7 DEF z
\* The operations of a call are operations, and come from its instructions.
LEMMA OperationsInRange ==
  ASSUME RulesHold, NEW call, IsCall(call)
  PROVE  /\ Operations(call) \in Seq(Range(Operations(call)))
         /\ \A o \in Range(Operations(call)) :
               /\ o \in OperationSet(call) /\ IsOperation(o)
               /\ \E i \in DOMAIN call.instructions : ComesFrom(o, call.instructions[i])
<1> DEFINE s == Operations(call)
           S == OperationSet(call)
<1>1. s \in Seq(S)
  BY DEF RulesHold, OperationsCome
<1> HIDE DEF s, S
<1>2. Len(s) \in Nat /\ s \in [1..Len(s) -> S]
  BY <1>1
<1>3. s \in [1..Len(s) -> Range(s)] /\ Range(s) \subseteq S
  BY <1>2 DEF Range
<1>4. \A X : \A n \in Nat : [1..n -> X] \subseteq Seq(X)
  OBVIOUS
<1>5. s \in Seq(Range(s))
  BY <1>2, <1>3, <1>4
<1> QED
  BY <1>3, <1>5 DEF s, S, RulesHold, OperationsCome

\* The stage of a call is about the accounts it touches only.
LEMMA StageIsLocal ==
  ASSUME RulesHold, NEW call, IsCall(call), NEW j, JobOK(call, j), NEW k, StageInv(call, j, k),
         NEW l, \A a \in Addresses : a \in Touched(call) => l[a] = k[a]
  PROVE  StageInv(call, j, l)
<1>1. call.to \in Addresses /\ l[call.to] = k[call.to]
  BY TouchedFacts DEF IsCall
<1>2. ASSUME NEW o \in Range(Operations(call)), NEW n \in DOMAIN Reads(call, o),
             Reads(call, o)[n].name \in Addresses
      PROVE  l[Reads(call, o)[n].name] = k[Reads(call, o)[n].name]
  BY <1>2, TouchedFacts
<1>3. j.at = "checking" =>
          /\ DOMAIN j.accounts \subseteq GetAccountsInvolved(call)
          /\ \A n \in DOMAIN j.accounts : j.accounts[n] # None =>
                Resolve(call, n) \in Addresses /\ j.accounts[n] = l[Resolve(call, n)]
  BY TouchedFacts DEF StageInv
<1>4. ASSUME j.at \in {"counting", "applying"}, NEW o \in Range(Operations(call))
      PROVE  Allowed(call, o, l)
  <2>1. Allowed(call, o, k)
    BY <1>4 DEF StageInv
  <2>2. IsOperation(o)
    BY OperationsInRange
  <2>3. 1 \in DOMAIN Reads(call, o)
    BY <2>2, ReadsFacts
  <2>4. Reads(call, o)[1].name \in Addresses => l[Reads(call, o)[1].name] = k[Reads(call, o)[1].name]
    BY <1>2, <2>3
  <2> QED
    BY <2>1, <2>4 DEF Allowed
<1>5. j.at = "counting" /\ j.read # <<>> => j.read[1] = l[call.to]
  BY <1>1 DEF StageInv
<1>6. ASSUME j.at = "applying", j.rest # <<>>, NEW n \in 1..Len(j.read),
             Reads(call, Head(j.rest))[n].buffered
      PROVE  j.read[n] = Current(j.buffer, l, Reads(call, Head(j.rest))[n].name)
  <2> DEFINE o == Head(j.rest)
             a == Reads(call, o)[n].name
  <2>1. j.rest \in Seq(Range(Operations(call))) /\ j.read[n] = Current(j.buffer, k, a)
    BY <1>6 DEF StageInv
  <2>2. o \in Range(Operations(call))
    BY <1>6, <2>1
  <2>3. n \in DOMAIN Reads(call, o)
    <3>1. ReadFor(call, o, j.read)
      BY <1>6 DEF JobOK
    <3>2. Len(Reads(call, o)) \in 1..3 /\ DOMAIN Reads(call, o) = 1..Len(Reads(call, o))
      BY <2>2, OperationsInRange, ReadsFacts, SMTT(60)
    <3>3. Len(j.read) <= Len(Reads(call, o)) /\ Len(j.read) \in Nat
      BY <3>1 DEF ReadFor
    <3> HIDE DEF o
    <3> QED
      BY <3>2, <3>3, SMTT(60)
  <2>4. a \in Addresses => l[a] = k[a]
    BY <1>2, <2>2, <2>3
  <2> QED
    BY <2>1, <2>4, ZenonT(30) DEF Current
<1>7. ASSUME j.at \in {"applying", "writing"}, NEW a \in Addresses, j.buffer[a] # None
      PROVE  /\ a \in Touched(call)
             /\ call.type = "Call" /\ l[a] # None => Kept(call, l[a], j.buffer[a])
  BY <1>7 DEF StageInv
<1>8. j.at = "applying" => j.rest \in Seq(Range(Operations(call)))
  BY DEF StageInv
<1> QED
  BY <1>3, <1>4, <1>5, <1>6, <1>7, <1>8, ZenonT(60) DEF StageInv

\* A step of one call, on the accounts it touches, keeps the invariant of the others.
LEMMA OthersKept ==
  ASSUME RulesHold, CallsInv, TypeInv', NEW c \in DOMAIN Calls, NEW to, Goes(c, to), UnderWay(c),
         \A a \in Addresses : a \notin Touched(Calls[c]) => cache'[a] = cache[a],
         SelfOwned(cache'), SelfOwned(to.buffer), StageInv(Calls[c], to, cache')
  PROVE  CallsInv'
<1>1. /\ job'[c] = to
      /\ \A d \in DOMAIN Calls : d # c => job'[d] = job[d]
  BY GoesFacts DEF CallsInv
<1>2. Isolated'
  BY <1>1 DEF CallsInv, Isolated, UnderWay
<1>3. \A d \in DOMAIN Calls : SelfOwned(job'[d].buffer)
  BY <1>1 DEF CallsInv
<1>4. ASSUME NEW d \in DOMAIN Calls, d # c
      PROVE  StageInv(Calls[d], job[d], cache')
  <2>1. StageInv(Calls[d], job[d], cache) /\ JobOK(Calls[d], job[d]) /\ IsCall(Calls[d])
    BY CallsConstants DEF CallsInv, TypeInv
  <2>2. CASE UnderWay(d)
    <3>1. (Touched(Calls[c]) \intersect Touched(Calls[d])) \subseteq {Namespace}
      BY <1>4, <2>2 DEF CallsInv, Isolated
    <3>2. \A a \in Addresses : a \in Touched(Calls[d]) => cache'[a] = cache[a]
      BY <3>1, InstructionConstants
    <3> QED
      BY <2>1, <3>2, StageIsLocal
  <2>3. CASE ~UnderWay(d)
    BY <2>3, Zenon DEF UnderWay, StageInv
  <2> QED
    BY <2>2, <2>3
<1>5. \A d \in DOMAIN Calls : StageInv(Calls[d], job'[d], cache')
  BY <1>1, <1>4
<1> QED
  BY <1>2, <1>3, <1>5 DEF CallsInv, SelfOwned
-----------------------------------------------------------------------------
(* What the validator lets through is allowed. *)

\* What validate_approved_spend and validate_approved_token_transfer let pass, the account lets.
LEMMA SpendIsLet ==
  ASSUME NEW x \in Account, NEW token \in Addresses, NEW s \in Addresses, NEW amount \in Uint
  PROVE  /\ ValidateApprovedSpend(x, token, s, amount) => Lets(x, token, s)
         /\ ValidateApprovedTokenTransfer(x, token, s) => Lets(x, token, s)
<1>1. ValidateApprovedTokenTransfer(x, token, s) => Lets(x, token, s)
  BY DEF ValidateApprovedTokenTransfer, Lets
<1>2. ASSUME ValidateApprovedSpend(x, token, s, amount) PROVE Lets(x, token, s)
  <2> DEFINE t == x.programs[token]
  <2>1. t \in Token
    BY <1>2, HeldToken DEF ValidateApprovedSpend
  <2>2. t.allowance[s] # None => t.allowance[s] \in Nat
    BY <2>1, InstructionConstants, SMTT(60) DEF Token, Maps, Uint
  <2>3. amount \in Nat
    BY InstructionConstants DEF Uint
  <2>4. \/ t.allowance[s] # None /\ t.allowance[s] > amount
        \/ t.approvals[s] # None
        \/ x.program /\ x.self = token
    BY <1>2 DEF ValidateApprovedSpend
  <2> HIDE DEF t
  <2>5. \/ At(t.allowance, s, 0) > 0
        \/ t.approvals[s] # None
        \/ x.program /\ x.self = token
    BY <2>2, <2>3, <2>4 DEF At
  <2> QED
    BY <2>5 DEF Lets, t
<1> QED
  BY <1>1, <1>2

\* A transfer that was validated takes from an account that lets one of the spenders.
LEMMA TransferAllowed ==
  ASSUME NEW call, IsCall(call), NEW o, IsTransfer(o), NEW accounts, NEW caller \in Account,
         caller.owner = call.from, ValidateTransfer(call, o, caller, accounts),
         NEW x \in Account, x.self = Resolve(call, o.from),
         accounts[o.from] # None => accounts[o.from] = x
  PROVE  \E s \in SpendersOf(call) : Lets(x, o.token, s)
<1>1. {call.from, call.to} \subseteq SpendersOf(call) /\ call.from \in Addresses /\ call.to \in Addresses
  BY DEF SpendersOf, IsCall
<1>2. CASE o.from = call.from
  <2>1. x.self = call.from
    BY <1>1, <1>2, InstructionConstants DEF Resolve
  <2> QED
    BY <1>1, <2>1 DEF Lets
<1>3. CASE o.from # call.from
  <2>1. /\ IF o.amount # None
           THEN ValidateFungibleTransfer(call, o, caller, x)
           ELSE ValidateIdsTransfer(call, o, caller, x)
    BY <1>3 DEF ValidateTransfer
  <2>2. CASE o.amount # None
    <3>1. \/ x.self = call.to
          \/ \E s \in {call.from, call.to} : ValidateApprovedSpend(x, o.token, s, o.amount)
      BY <2>1, <2>2 DEF ValidateFungibleTransfer
    <3>2. o.amount \in Uint /\ o.token \in Addresses
      BY <2>2 DEF IsTransfer
    <3>3. ASSUME NEW s \in {call.from, call.to}, ValidateApprovedSpend(x, o.token, s, o.amount)
          PROVE  Lets(x, o.token, s)
      BY <1>1, <3>2, <3>3, SpendIsLet
    <3>4. x.self = call.to => Lets(x, o.token, call.to)
      BY DEF Lets
    <3> QED
      BY <1>1, <3>1, <3>3, <3>4
  <2>3. CASE o.amount = None
    <3>1. \E s \in {call.from, call.to} : ValidateApprovedTokenTransfer(x, o.token, s)
      BY <2>1, <2>3 DEF ValidateIdsTransfer
    <3>2. o.token \in Addresses /\ 0 \in Uint
      BY InstructionConstants, SMTT(60) DEF IsTransfer, Uint
    <3>3. \E s \in {call.from, call.to} : Lets(x, o.token, s)
      BY <1>1, <3>1, <3>2, SpendIsLet
    <3> QED
      BY <1>1, <3>3
  <2> QED
    BY <2>2, <2>3
<1> QED
  BY <1>2, <1>3

\* So does a burn that was validated.
LEMMA BurnAllowed ==
  ASSUME NEW call, IsCall(call), NEW i \in DOMAIN call.instructions,
         IsBurn(call.instructions[i]), NEW accounts, NEW caller \in Account,
         caller.owner = call.from, ValidateBurn(call, call.instructions[i], caller, accounts),
         NEW x \in Account, x.self = Resolve(call, call.instructions[i].from),
         accounts[call.instructions[i].from] # None => accounts[call.instructions[i].from] = x
  PROVE  \E s \in SpendersOf(call) : Lets(x, call.instructions[i].token, s)
<1> DEFINE o == call.instructions[i]
           p == Resolve(call, o.program)
<1>1. {call.from, p} \subseteq SpendersOf(call) /\ call.from \in Addresses /\ call.to \in Addresses
  BY DEF SpendersOf, IsCall, IsBurn
<1>2. p \in Addresses /\ o.token \in Addresses
  BY <1>1, NamesFacts DEF ValidateBurn, IsBurn
<1>3. CASE o.from = call.from
  <2>1. x.self = call.from
    BY <1>1, <1>3, InstructionConstants DEF Resolve
  <2> QED
    BY <1>1, <2>1 DEF Lets
<1>4. CASE o.from # call.from
  <2>1. ValidateBurnOfOther(call, o, caller, x)
    BY <1>4, ZenonT(30) DEF ValidateBurn, ValidateBurnOfOther
  <2>2. CASE o.amount # None
    <3>1. \E s \in {call.from, p} : ValidateApprovedSpend(x, o.token, s, o.amount)
      BY <2>1, <2>2 DEF ValidateBurnOfOther
    <3>2. o.amount \in Uint
      BY <2>2 DEF IsBurn
    <3>3. \E s \in {call.from, p} : Lets(x, o.token, s)
      BY <1>1, <1>2, <3>1, <3>2, SpendIsLet, ZenonT(60)
    <3> QED
      BY <1>1, <3>3
  <2>3. CASE o.amount = None
    <3>1. \E s \in {call.from, p} : ValidateApprovedTokenTransfer(x, o.token, s)
      BY <2>1, <2>3 DEF ValidateBurnOfOther
    <3>2. 0 \in Uint
      BY InstructionConstants DEF Uint
    <3>3. \E s \in {call.from, p} : Lets(x, o.token, s)
      BY <1>1, <1>2, <3>1, <3>2, SpendIsLet
    <3> QED
      BY <1>1, <3>3
  <2> QED
    BY <2>2, <2>3
<1> QED
  BY <1>3, <1>4
\* The instructions of a call that validate_call accepts, checked against accounts read at
\* different times, are allowed by the accounts as they are.
LEMMA ValidIsAllowed ==
  ASSUME RulesHold, NEW call, IsCall(call), NEW k, IsBuffer(k),
         k[call.from] # None => k[call.from].owner = call.from,
         NEW accounts, GetAccountsInvolved(call) \subseteq DOMAIN accounts,
         \A n \in DOMAIN accounts : accounts[n] # None =>
            Resolve(call, n) \in Addresses /\ accounts[n] = k[Resolve(call, n)],
         ValidateCall(call, accounts), NEW o \in Range(Operations(call))
  PROVE  Allowed(call, o, k)
<1> DEFINE caller == accounts[call.from]
           a == Reads(call, o)[1].name
           x == k[a]
<1>1. /\ caller # None
      /\ \A i \in DOMAIN call.instructions :
            ValidateInstruction(call, call.instructions[i], caller, accounts)
  BY DEF ValidateCall
<1>2. caller \in Account /\ caller.owner = call.from
  <2>1. /\ call.from \in DOMAIN accounts /\ Resolve(call, call.from) = call.from
        /\ call.from \in Addresses
    BY InstructionConstants DEF GetAccountsInvolved, Resolve, IsCall
  <2> QED
    BY <1>1, <2>1 DEF IsBuffer, IsAccountOf
<1>3. PICK i \in DOMAIN call.instructions : ComesFrom(o, call.instructions[i])
  BY OperationsInRange
<1>4. IsOperation(o) /\ IsInstruction(call.instructions[i])
  BY OperationsInRange DEF IsCall
<1>5. AccountsInvolved(call.instructions[i]) \subseteq DOMAIN accounts
  BY DEF GetAccountsInvolved
<1> SUFFICES ASSUME a \in Addresses, x # None
             PROVE  /\ o.is \in {"Transfer", "Burn"} => \E s \in SpendersOf(call) : Lets(x, o.token, s)
                    /\ o.is = "Token" /\ TouchesPermits(o.fields) => x.owner = call.from
  BY ZenonT(30) DEF Allowed
<1>6. x \in Account /\ x.self = a
  BY DEF IsBuffer, IsAccountOf
<1>7. CASE o.is = "Transfer"
  <2>1. call.instructions[i] = o /\ IsTransfer(o)
    BY <1>3, <1>4, <1>7, ZenonT(30) DEF ComesFrom, IsOperation, IsTransfer, IsBurn, IsDistribution, IsUpdate
  <2>2. ValidateTransfer(call, o, caller, accounts)
    BY <1>1, <1>7, <2>1, ZenonT(30) DEF ValidateInstruction
  <2>3. o.from \in DOMAIN accounts
    BY <1>5, <1>7, <2>1, ZenonT(60) DEF AccountsInvolved
  <2>4. a = Resolve(call, o.from)
    BY <1>7 DEF Reads
  <2>5. accounts[o.from] # None => accounts[o.from] = x
    BY <2>3, <2>4
  <2> HIDE DEF x, a, caller
  <2>6. \E s \in SpendersOf(call) : Lets(x, o.token, s)
    BY <1>2, <1>6, <2>1, <2>2, <2>4, <2>5, TransferAllowed, ZenonT(30)
  <2> QED
    BY <1>7, <2>6
<1>8. CASE o.is = "Burn"
  <2>1. call.instructions[i] = o /\ IsBurn(o)
    BY <1>3, <1>4, <1>8, ZenonT(30) DEF ComesFrom, IsOperation, IsTransfer, IsBurn, IsDistribution, IsUpdate
  <2>2. ValidateBurn(call, o, caller, accounts)
    BY <1>1, <1>8, <2>1, ZenonT(30) DEF ValidateInstruction
  <2>3. o.from \in DOMAIN accounts
    BY <1>5, <1>8, <2>1 DEF AccountsInvolved
  <2>4. a = Resolve(call, o.from)
    BY <1>8, ZenonT(60) DEF Reads
  <2>5. accounts[o.from] # None => accounts[o.from] = x
    BY <2>3, <2>4
  <2> HIDE DEF x, a, caller
  <2>6. \E s \in SpendersOf(call) : Lets(x, o.token, s)
    BY <1>2, <1>6, <2>1, <2>2, <2>4, <2>5, BurnAllowed, ZenonT(30)
  <2> QED
    BY <1>8, <2>6
<1>9. CASE o.is = "Token" /\ TouchesPermits(o.fields)
  <2>1. PICK u \in DOMAIN call.instructions[i].updates : call.instructions[i].updates[u] = o
    BY <1>3, <1>9 DEF ComesFrom
  <2>2. call.instructions[i].is = "Update"
    BY <1>3, <1>9 DEF ComesFrom
  <2>3. ValidateTokenUpdate(call, o, caller, accounts)
    BY <1>1, <1>9, <2>1, <2>2, ZenonT(30) DEF ValidateInstruction, ValidateUpdate
  <2>4. o.account \in DOMAIN accounts
    BY <1>5, <2>1, <2>2 DEF AccountsInvolved
  <2>5. a = Resolve(call, o.account)
    BY <1>9 DEF Reads
  <2>6. accounts[o.account] # None /\ accounts[o.account].owner = caller.owner
    BY <1>9, <2>3 DEF TouchesPermits, ValidateTokenUpdate, ValidateApprovalOrAllowance
  <2>7. x.owner = call.from
    BY <1>2, <2>4, <2>5, <2>6, ZenonT(60)
  <2> QED
    BY <1>9, <2>7, ZenonT(30)
<1> QED
  BY <1>7, <1>8, <1>9, ZenonT(30)
-----------------------------------------------------------------------------
(* Every step keeps the stage of its call. *)

\* At the other stages nothing is asked of a call with nothing in hand.
LEMMA JobStage ==
  ASSUME NEW call, NEW at, at \notin {"checking", "counting", "applying"}, NEW k
  PROVE  StageInv(call, Job(at), k) /\ SelfOwned(Job(at).buffer)
<1>1. Job(at).at = at /\ Job(at).buffer = Empty(Addresses)
  BY DEF Job
<1>2. \A a \in Addresses : Empty(Addresses)[a] = None
  BY DEF Empty
<1>3. SelfOwned(Empty(Addresses))
  BY <1>2, CallsConstants DEF SelfOwned, IsCall
<1> QED
  BY <1>1, <1>2, <1>3, ZenonT(30) DEF StageInv

\* A call that ends, or waits, has nothing to keep.
LEMMA EndKeeps ==
  ASSUME RulesHold, CallsInv, TypeInv', NEW c \in DOMAIN Calls, UnderWay(c), UNCHANGED cache,
         NEW at, at \notin {"checking", "counting", "applying"}, Goes(c, Job(at))
  PROVE  CallsInv'
  BY JobStage, OthersKept DEF CallsInv

\* What an operation leaves in the buffer is what the call has the right to.
LEMMA BufferKept ==
  ASSUME RulesHold, NEW call, IsCall(call), call.type = "Call", NEW k, IsBuffer(k), SelfOwned(k),
         NEW j, JobOK(call, j), StageInv(call, j, k), SelfOwned(j.buffer),
         j.at = "applying", j.rest # <<>>, Len(j.read) = Len(Reads(call, Head(j.rest))),
         ApplyOperation(call, Head(j.rest), j.read).is = "ok",
         \A c \in DOMAIN Calls : Calls[c].from # call.to
  PROVE  LET b == AddToBuffer(j.buffer, ApplyOperation(call, Head(j.rest), j.read).value)
         IN /\ SelfOwned(b)
            /\ \A a \in Addresses : b[a] # None =>
                 a \in Touched(call) /\ (k[a] # None => Kept(call, k[a], b[a]))
<1> DEFINE o == Head(j.rest)
           value == ApplyOperation(call, o, j.read).value
           b == AddToBuffer(j.buffer, value)
<1>1. o \in Range(Operations(call)) /\ IsOperation(o) /\ Allowed(call, o, k)
  <2>1. j.rest \in Seq(Range(Operations(call)))
    BY ZenonT(30) DEF StageInv
  <2>2. o \in Range(Operations(call))
    BY <2>1
  <2> QED
    BY <2>2, OperationsInRange, ZenonT(30) DEF StageInv
<1>2. Len(Reads(call, o)) \in Nat /\ DOMAIN Reads(call, o) = 1..Len(Reads(call, o))
  BY <1>1, ReadsFacts
<1>3. \A n \in 1..Len(Reads(call, o)) :
         Reads(call, o)[n].buffered => j.read[n] = Current(j.buffer, k, Reads(call, o)[n].name)
  BY ZenonT(30) DEF StageInv
<1>4. Found(call, o, j.read)
  BY ZenonT(30) DEF JobOK, ReadFor, Found, IsAccountOf
<1>5. /\ value = <<value[1]>> \/ value = <<value[1], value[2]>>
      /\ \A n \in DOMAIN value : /\ n \in 1..Len(Reads(call, o))
                                /\ Becomes(call, o, n, j.read[n], value[n])
  BY <1>1, <1>4, ZenonT(30) DEF IsCall, RulesHold, OperationsBecome
<1> HIDE DEF o, value
<1>6. ASSUME NEW a \in Addresses
      PROVE  \/ b[a] = j.buffer[a]
             \/ \E n \in DOMAIN value :
                  /\ b[a] = value[n] /\ value[n].self = a /\ n \in DOMAIN Reads(call, o)
                  /\ Becomes(call, o, n, Current(j.buffer, k, a), value[n])
                  /\ Reads(call, o)[n].name = a
  <2>1. \/ b[a] = j.buffer[a]
        \/ \E n \in DOMAIN value : value[n].self = a /\ b[a] = value[n]
    BY <1>5, BufferFacts, SMTT(60)
  <2>2. ASSUME NEW n \in DOMAIN value, value[n].self = a
        PROVE  /\ n \in DOMAIN Reads(call, o) /\ Reads(call, o)[n].name = a
               /\ Becomes(call, o, n, Current(j.buffer, k, a), value[n])
    <3>1. n \in 1..Len(Reads(call, o)) /\ Becomes(call, o, n, j.read[n], value[n])
      BY <1>5
    <3>2. Reads(call, o)[n].name = a /\ Reads(call, o)[n].buffered
      BY <2>2, <3>1, ZenonT(30) DEF Becomes
    <3> QED
      BY <1>2, <1>3, <3>1, <3>2, ZenonT(30)
  <2> QED
    BY <2>1, <2>2, ZenonT(30)
<1> HIDE DEF b
<1>7. SelfOwned(b)
  <2> SUFFICES ASSUME NEW c \in DOMAIN Calls, b[Calls[c].from] # None
               PROVE  b[Calls[c].from].owner = Calls[c].from
    BY DEF SelfOwned
  <2> DEFINE u == Calls[c].from
             x == Current(j.buffer, k, u)
  <2>1. u \in Addresses /\ u # call.to
    BY CallsConstants, ZenonT(30) DEF IsCall
  <2>2. /\ j.buffer[u] # None => j.buffer[u].owner = u
        /\ x # None => x.owner = u
    BY <2>1, ZenonT(30) DEF SelfOwned, Current
  <2> HIDE DEF u, x
  <2>3. ASSUME NEW n \in DOMAIN value, value[n].self = u, Becomes(call, o, n, x, value[n])
        PROVE  value[n].owner = u
    BY <2>1, <2>2, <2>3, ZenonT(30) DEF Becomes, Heir
  <2>4. b[u] # None
    BY ZenonT(30) DEF u
  <2>5. b[u].owner = u
    BY <1>6, <2>1, <2>2, <2>3, <2>4, ZenonT(30) DEF x
  <2> QED
    BY <2>5 DEF u
<1>8. ASSUME NEW a \in Addresses, b[a] # None
      PROVE  a \in Touched(call) /\ (k[a] # None => Kept(call, k[a], b[a]))
  <2>1. CASE b[a] = j.buffer[a]
    BY <1>8, <2>1, ZenonT(30) DEF StageInv
  <2>2. ASSUME NEW n \in DOMAIN value, b[a] = value[n], value[n].self = a,
               n \in DOMAIN Reads(call, o), Becomes(call, o, n, Current(j.buffer, k, a), value[n]),
               Reads(call, o)[n].name = a
        PROVE  a \in Touched(call) /\ (k[a] # None => Kept(call, k[a], b[a]))
    <3>1. a \in Touched(call)
      BY <1>1, <2>2, TouchedFacts, ZenonT(30)
    <3>2. ASSUME k[a] # None PROVE Kept(call, k[a], b[a])
      <4> DEFINE x == Current(j.buffer, k, a)
      <4>1. k[a] \in Account /\ (j.buffer[a] # None => j.buffer[a] \in Account)
        BY <3>2, ZenonT(30) DEF IsBuffer, IsAccountOf, JobOK
      <4>2. j.buffer[a] # None => Kept(call, k[a], j.buffer[a])
        BY <3>2, ZenonT(30) DEF StageInv
      <4>3. x \in Account /\ Kept(call, k[a], x)
        BY <4>1, <4>2, KeptAtFirst, ZenonT(30) DEF Current
      <4> HIDE DEF x
      <4>4. Becomes(call, o, n, x, value[n])
        BY <2>2, ZenonT(30) DEF x
      <4>5. Kept(call, k[a], value[n])
        BY <1>1, <2>2, <3>2, <4>3, <4>4, KeptNext, ZenonT(30)
      <4> QED
        BY <2>2, <4>5, ZenonT(30)
    <3> QED
      BY <3>1, <3>2, ZenonT(30)
  <2> QED
    BY <1>6, <2>1, <2>2, ZenonT(30)
<1> QED
  BY <1>7, <1>8, ZenonT(30) DEF b, value, o

\* The invariant at the start.
LEMMA CallsInvInit ==
  Init => CallsInv
<1> SUFFICES ASSUME Init PROVE CallsInv
  OBVIOUS
<1>1. \A c \in DOMAIN Calls : job[c] = Job("idle") /\ job[c].at = "idle"
  BY DEF Init, Job
<1>2. Isolated
  BY <1>1 DEF Isolated, UnderWay
<1>3. SelfOwned(cache)
  BY CallersAreUsers DEF Init, SelfOwned
<1>4. \A c \in DOMAIN Calls : StageInv(Calls[c], job[c], cache) /\ SelfOwned(job[c].buffer)
  BY <1>1, JobStage
<1> QED
  BY <1>2, <1>3, <1>4, TypeInvInit, ZenonT(60) DEF CallsInv

\* Every step keeps the invariant, while what the batcher reads comes in time.
LEMMA CallsInvStep ==
  ASSUME RulesHold, "applying" \notin LateReads, CallsInv, [Next]_vars
  PROVE  CallsInv'
<1>1. TypeInv'
  BY TypeInvStep DEF CallsInv
<1>2. CASE UNCHANGED vars
  <2>1. cache' = cache /\ job' = job
    BY <1>2 DEF vars
  <2> QED
    BY <1>1, <2>1, ZenonT(30) DEF CallsInv, Isolated, UnderWay, SelfOwned, StageInv
<1>3. ASSUME NEW c \in DOMAIN Calls, Submit(c), Alone(c)
      PROVE  CallsInv'
  <2> USE <1>3
  <2> DEFINE at == IF Calls[c].type = "Call" THEN "checking" ELSE "registering"
  <2>1. Goes(c, Job(at)) /\ UNCHANGED cache /\ job[c].at = "idle" /\ TypeInv'
    BY <1>1, ZenonT(30) DEF Submit, CallsInv
  <2>2. /\ job'[c] = Job(at)
        /\ \A d \in DOMAIN Calls : d # c => job'[d] = job[d]
    BY <2>1, GoesFacts DEF CallsInv
  <2>3. Isolated'
    BY <2>2 DEF CallsInv, Isolated, Alone, UnderWay
  <2>4. Job(at).at = at /\ Job(at).accounts = <<>> /\ Job(at).buffer = Empty(Addresses)
    BY ZenonT(30) DEF Job
  <2>5. SelfOwned(Job(at).buffer)
    BY <2>4, CallsConstants, ZenonT(30) DEF SelfOwned, IsCall, Empty
  <2>6. DOMAIN <<>> = {}
    OBVIOUS
  <2>7. StageInv(Calls[c], Job(at), cache)
    BY <2>4, <2>6, ZenonT(30) DEF StageInv
  <2>8. \A d \in DOMAIN Calls : StageInv(Calls[d], job'[d], cache') /\ SelfOwned(job'[d].buffer)
    BY <2>1, <2>2, <2>5, <2>7 DEF CallsInv
  <2> QED
    BY <2>1, <2>3, <2>8, ZenonT(30) DEF CallsInv, SelfOwned
<1>4. ASSUME NEW c \in DOMAIN Calls, PendingCall(c)
      PROVE  CallsInv'
  <2> USE <1>4
  <2> DEFINE call == Calls[c]
             j == job[c]
             name == CHOOSE n \in Unread(c) : TRUE
  <2>1. name \in GetAccountsInvolved(call)
    BY DEF PendingCall, Unread
  <2> HIDE DEF name
  <2>2. PICK answer :
          /\ Read("checking", Resolve(call, name), answer)
          /\ Goes(c, [j EXCEPT !.accounts =
                [n \in DOMAIN @ \union {name} |-> IF n = name THEN answer ELSE @[n]]])
          /\ j.at = "checking" /\ UNCHANGED cache
    BY Zenon DEF PendingCall, name
  <2> DEFINE accounts == [n \in DOMAIN j.accounts \union {name} |->
                            IF n = name THEN answer ELSE j.accounts[n]]
             to == [j EXCEPT !.accounts = accounts]
  <2>3. TypeInv' /\ JobOK(call, j) /\ StageInv(call, j, cache) /\ SelfOwned(j.buffer)
    BY <1>1 DEF CallsInv, TypeInv
  <2>4. answer # None => Resolve(call, name) \in Addresses /\ answer = cache[Resolve(call, name)]
    BY <2>2 DEF Read
  <2>5. Goes(c, to)
    BY <2>2
  <2>6. \A n \in DOMAIN accounts : accounts[n] # None =>
           Resolve(call, n) \in Addresses /\ accounts[n] = cache[Resolve(call, n)]
    BY <2>2, <2>3, <2>4 DEF StageInv
  <2>7. DOMAIN accounts \subseteq GetAccountsInvolved(call)
    BY <2>1, <2>2, <2>3 DEF StageInv
  <2> HIDE DEF accounts
  <2>8. to.at = "checking" /\ to.accounts = accounts /\ to.buffer = j.buffer
    BY <2>2, <2>3 DEF JobOK, IsJob
  <2> HIDE DEF to
  <2>9. StageInv(call, to, cache')
    BY <2>2, <2>6, <2>7, <2>8, ZenonT(60) DEF StageInv
  <2>10. UnderWay(c)
    BY <2>2 DEF UnderWay
  <2> QED
    BY <2>2, <2>3, <2>5, <2>8, <2>9, <2>10, OthersKept, ZenonT(60) DEF CallsInv
<1>5. ASSUME NEW c \in DOMAIN Calls, Validate(c)
      PROVE  CallsInv'
  <2> USE <1>5
  <2> DEFINE call == Calls[c]
             j == job[c]
  <2>1. /\ j.at = "checking" /\ GetAccountsInvolved(call) \subseteq DOMAIN j.accounts
        /\ UNCHANGED cache /\ UnderWay(c) /\ TypeInv'
    BY <1>1, ZenonT(30) DEF Validate, Unread, UnderWay, CallsInv
  <2>2. CASE ValidateCall(call, j.accounts)
    <3>1. Goes(c, Job("counting"))
      BY <2>2 DEF Validate
    <3>2. /\ IsCall(call) /\ IsBuffer(cache) /\ StageInv(call, j, cache)
          /\ cache[call.from] # None => cache[call.from].owner = call.from
      BY CallsConstants, ZenonT(30) DEF CallsInv, TypeInv, SelfOwned
    <3>3. \A n \in DOMAIN j.accounts : j.accounts[n] # None =>
              Resolve(call, n) \in Addresses /\ j.accounts[n] = cache[Resolve(call, n)]
      BY <2>1, <3>2, ZenonT(30) DEF StageInv
    <3> HIDE DEF j
    <3>4. \A o \in Range(Operations(call)) : Allowed(call, o, cache)
      BY <2>1, <2>2, <3>2, <3>3, ValidIsAllowed, ZenonT(30)
    <3>5. Job("counting").at = "counting" /\ Job("counting").read = <<>>
            /\ Job("counting").buffer = Empty(Addresses)
      BY DEF Job
    <3>6. SelfOwned(Job("counting").buffer)
      BY <3>5, CallsConstants DEF SelfOwned, IsCall, Empty
    <3>7. StageInv(call, Job("counting"), cache)
      BY <3>4, <3>5, ZenonT(30) DEF StageInv
    <3> QED
      BY <2>1, <3>1, <3>6, <3>7, OthersKept, ZenonT(30) DEF CallsInv
  <2>3. CASE ~ValidateCall(call, j.accounts)
    BY <2>1, <2>3, EndKeeps, ZenonT(30) DEF Validate, Fails
  <2> QED
    BY <2>2, <2>3
<1>6. ASSUME NEW c \in DOMAIN Calls, ReadCalled(c)
      PROVE  CallsInv'
  <2> USE <1>6
  <2> DEFINE call == Calls[c]
             j == job[c]
  <2>1. PICK answer : /\ Read("counting", call.to, answer)
                      /\ IF answer = None
                         THEN Fails(c)
                         ELSE Goes(c, [j EXCEPT !.read = <<answer>>])
                      /\ UNCHANGED cache /\ j.at = "counting"
    BY DEF ReadCalled
  <2>2. UnderWay(c) /\ TypeInv' /\ JobOK(call, j) /\ StageInv(call, j, cache) /\ SelfOwned(j.buffer)
    BY <1>1, <2>1 DEF UnderWay, CallsInv, TypeInv
  <2>3. CASE answer = None
    BY <2>1, <2>2, <2>3, EndKeeps, ZenonT(60) DEF Fails
  <2>4. CASE answer # None
    <3> DEFINE to == [j EXCEPT !.read = <<answer>>]
    <3>1. Goes(c, to) /\ answer = cache[call.to]
      BY <2>1, <2>4 DEF Read
    <3>2. to.at = "counting" /\ to.read = <<answer>> /\ to.buffer = j.buffer
      BY <2>1, <2>2 DEF JobOK, IsJob
    <3> HIDE DEF to
    <3>3. to.read[1] = cache[call.to]
      BY <3>1, <3>2
    <3>4. StageInv(call, to, cache)
      BY <2>1, <2>2, <3>2, <3>3 DEF StageInv
    <3> QED
      BY <2>1, <2>2, <3>1, <3>2, <3>4, OthersKept, ZenonT(60) DEF CallsInv
  <2> QED
    BY <2>3, <2>4
<1>7. ASSUME NEW c \in DOMAIN Calls, IncrementNonce(c)
      PROVE  CallsInv'
  <2> USE <1>7
  <2> DEFINE call == Calls[c]
             j == job[c]
             x == j.read[1]
             y == [x EXCEPT !.nonce = @ + 1]
             ops == Operations(call)
             to == [Job("applying") EXCEPT !.rest = ops]
  <2>1. /\ j.at = "counting" /\ j.read # <<>> /\ UnderWay(c)
        /\ cache' = [cache EXCEPT ![x.self] = y] /\ Goes(c, to)
    BY DEF IncrementNonce, UnderWay
  <2>2. /\ TypeInv' /\ JobOK(call, j) /\ StageInv(call, j, cache) /\ IsCall(call)
        /\ IsBuffer(cache) /\ SelfOwned(cache)
    BY <1>1, CallsConstants, ZenonT(30) DEF CallsInv, TypeInv
  <2>3. x \in Account /\ x.self = call.to /\ x = cache[call.to]
    BY <2>1, <2>2 DEF JobOK, StageInv
  <2> HIDE DEF x
  <2>4. y.self = x.self /\ y.owner = x.owner /\ y.program = x.program /\ y.programs = x.programs
    BY <2>3 DEF Account
  <2> HIDE DEF y
  <2>5. \A a \in Addresses : cache'[a] = IF a = call.to THEN y ELSE cache[a]
    BY <2>1, <2>2, <2>3 DEF IsBuffer
  <2>6. call.to \in Touched(call) /\ call.to \in Addresses
    BY <2>2, TouchedFacts, ZenonT(30) DEF IsCall
  <2>7. SelfOwned(cache')
    BY <2>2, <2>5, CallersAreUsers, CallsConstants, ZenonT(30) DEF SelfOwned, IsCall
  <2>8. ASSUME NEW o \in Range(ops) PROVE Allowed(call, o, cache')
    <3> DEFINE a == Reads(call, o)[1].name
    <3>1. Allowed(call, o, cache)
      BY <2>1, <2>2 DEF StageInv
    <3>2. CASE a = call.to /\ a \in Addresses
      <4>1. cache'[a] = y /\ cache[a] = x /\ x # None
        BY <2>3, <2>5, <3>2, NoneIsNoValue, ZenonT(30)
      <4>2. \A t, s : Lets(x, t, s) => Lets(y, t, s)
        BY <2>4 DEF Lets
      <4>3. \A t : Holds(y, t) => Holds(x, t)
        BY <2>4 DEF Holds
      <4> HIDE DEF a
      <4>4. Reads(call, o)[1].name = a
        BY DEF a
      <4> QED
        BY <2>4, <3>1, <3>2, <4>1, <4>2, <4>3, <4>4, ZenonT(30) DEF Allowed
    <3>3. CASE a # call.to /\ a \in Addresses
      <4>1. cache'[a] = cache[a]
        BY <2>5, <3>3, Zenon
      <4> QED
        BY <3>1, <4>1, ZenonT(30) DEF Allowed
    <3> QED
      BY <3>2, <3>3, Zenon DEF Allowed
  <2>9. /\ Job("applying").buffer = Empty(Addresses)
        /\ to.at = "applying" /\ to.read = <<>> /\ to.rest = ops /\ to.buffer = Empty(Addresses)
    BY DEF Job
  <2>10. ops \in Seq(Range(ops))
    BY <2>2, OperationsInRange, ZenonT(60)
  <2>11. SelfOwned(to.buffer)
    BY <2>9, CallsConstants, SMTT(60) DEF SelfOwned, IsCall, Empty
  <2> HIDE DEF to, ops
  <2>12. \A a \in Addresses : to.buffer[a] = None
    BY <2>9 DEF Empty
  <2>13. StageInv(call, to, cache')
    BY <2>8, <2>9, <2>10, <2>12, ApplyingStage, Zenon DEF ops
  <2> QED
    BY <2>1, <2>2, <2>5, <2>6, <2>7, <2>11, <2>13, OthersKept, ZenonT(30)
<1>8. ASSUME NEW c \in DOMAIN Calls, ReadNext(c)
      PROVE  CallsInv'
  <2> USE <1>8
  <2> DEFINE call == Calls[c]
             j == job[c]
             o == Head(j.rest)
             r == Reads(call, o)[Len(j.read) + 1]
  <2>1. PICK answer :
          /\ r.buffered => answer = Current(j.buffer, cache, r.name)
          /\ Goes(c, [j EXCEPT !.read = Append(@, answer)])
          /\ UNCHANGED cache
          /\ j.at = "applying" /\ j.rest # <<>>
    BY Zenon DEF ReadNext, Operation, Read, Current
  <2> DEFINE to == [j EXCEPT !.read = Append(@, answer)]
  <2>2. UnderWay(c) /\ TypeInv' /\ JobOK(call, j) /\ StageInv(call, j, cache) /\ SelfOwned(j.buffer)
    BY <1>1, <2>1 DEF UnderWay, CallsInv, TypeInv
  <2>3. j.read \in Seq(Range(j.read))
    BY <2>1, <2>2 DEF JobOK, ReadFor
  <2> DEFINE s == Append(j.read, answer)
             n == Len(j.read) + 1
  <2>4. /\ Len(s) = n /\ Len(j.read) \in Nat /\ s[n] = answer
        /\ \A m \in 1..Len(j.read) : s[m] = j.read[m]
        /\ \A m \in 1..Len(s) : m = n \/ m \in 1..Len(j.read)
    <3> DEFINE q == j.read
    <3> HIDE DEF j
    <3>1. q \in Seq(Range(q))
      BY <2>3
    <3> HIDE DEF q
    <3>2. LET z == Append(q, answer)
          IN /\ Len(z) = Len(q) + 1 /\ Len(q) \in Nat /\ z[Len(q) + 1] = answer
             /\ \A m \in 1..Len(q) : z[m] = q[m]
             /\ \A m \in 1..Len(z) : m = Len(q) + 1 \/ m \in 1..Len(q)
      BY <3>1
    <3> QED
      BY <3>2 DEF q
  <2>5. Goes(c, to)
    BY <2>1
  <2>6. to.at = "applying" /\ to.read = s /\ to.rest = j.rest /\ to.buffer = j.buffer
    BY <2>1, <2>2 DEF JobOK, IsJob
  <2> HIDE DEF to, s
  <2>7. ASSUME NEW m \in 1..Len(s), Reads(call, o)[m].buffered
        PROVE  s[m] = Current(j.buffer, cache, Reads(call, o)[m].name)
    <3>1. CASE m = n
      BY <2>1, <2>4, <2>7, <3>1, ZenonT(60)
    <3>2. CASE m \in 1..Len(j.read)
      BY <2>1, <2>2, <2>4, <2>7, <3>2, ZenonT(60) DEF StageInv
    <3> QED
      BY <2>4, <3>1, <3>2
  <2>8. StageInv(call, to, cache)
    BY <2>1, <2>2, <2>6, <2>7, ZenonT(60) DEF StageInv
  <2> QED
    BY <2>1, <2>2, <2>5, <2>6, <2>8, OthersKept, ZenonT(60) DEF CallsInv
<1>9. ASSUME NEW c \in DOMAIN Calls, ApplyNext(c)
      PROVE  CallsInv'
  <2> USE <1>9
  <2> DEFINE call == Calls[c]
             j == job[c]
             o == Head(j.rest)
             result == ApplyOperation(call, o, j.read)
             to == [j EXCEPT !.read = <<>>, !.rest = Tail(@), !.buffer = AddToBuffer(@, result.value)]
  <2>1. /\ j.at = "applying" /\ j.rest # <<>> /\ Len(j.read) = Len(Reads(call, o))
        /\ UNCHANGED cache /\ UnderWay(c)
    BY DEF ApplyNext, Operation, UnderWay
  <2>2. \/ result.is = "ok" /\ Goes(c, to)
        \/ Goes(c, Job("failed"))
        \/ Goes(c, Job("lost"))
    BY ZenonT(30) DEF ApplyNext, Operation, Fails
  <2>3. /\ TypeInv' /\ JobOK(call, j) /\ StageInv(call, j, cache) /\ IsCall(call)
        /\ IsBuffer(cache) /\ SelfOwned(cache) /\ SelfOwned(j.buffer)
    BY <1>1, CallsConstants, Zenon DEF CallsInv, TypeInv
  <2>4. CASE result.is = "ok" /\ Goes(c, to)
    <3> DEFINE b == AddToBuffer(j.buffer, result.value)
    <3>1. call.type = "Call" /\ \A d \in DOMAIN Calls : Calls[d].from # call.to
      BY <2>1, <2>3, CallersAreUsers, ZenonT(30) DEF JobOK, RightKind
    <3> HIDE DEF j
    <3>2. /\ SelfOwned(b)
          /\ \A a \in Addresses : b[a] # None =>
               a \in Touched(call) /\ (cache[a] # None => Kept(call, cache[a], b[a]))
      BY <2>1, <2>3, <2>4, <3>1, BufferKept, ZenonT(60)
    <3>3. j.rest \in Seq(Range(Operations(call))) /\ IsJob(j)
      BY <2>1, <2>3, Zenon DEF StageInv, JobOK
    <3>4. Tail(j.rest) \in Seq(Range(Operations(call)))
      <4> DEFINE S == Range(Operations(call))
                 q == j.rest
      <4>1. q \in Seq(S) /\ q # <<>>
        BY <2>1, <3>3
      <4> HIDE DEF S, q
      <4>2. Tail(q) \in Seq(S)
        BY <4>1
      <4> QED
        BY <4>2 DEF S, q
    <3> HIDE DEF b, result
    <3>5. to = [j EXCEPT !.read = <<>>, !.rest = Tail(j.rest), !.buffer = b]
      BY DEF b
    <3> HIDE DEF to
    <3>6. to.at = j.at /\ to.read = <<>> /\ to.rest = Tail(j.rest) /\ to.buffer = b
      BY <3>3, <3>5 DEF IsJob
    <3>7. \A n \in Range(Operations(call)) : Allowed(call, n, cache)
      BY <2>1, <2>3, Zenon DEF StageInv
    <3>8. StageInv(call, to, cache)
      BY <2>1, <3>2, <3>4, <3>6, <3>7, ApplyingStage, Zenon
    <3> QED
      BY <2>1, <2>3, <2>4, <3>2, <3>6, <3>8, OthersKept, ZenonT(30)
  <2>5. CASE Goes(c, Job("failed"))
    BY <2>1, <2>3, <2>5, EndKeeps, Zenon
  <2>6. CASE Goes(c, Job("lost"))
    BY <2>1, <2>3, <2>6, EndKeeps, Zenon
  <2> QED
    BY <2>2, <2>4, <2>5, <2>6
<1>10. ASSUME NEW c \in DOMAIN Calls, AllApplied(c)
      PROVE  CallsInv'
  <2> USE <1>10
  <2> DEFINE call == Calls[c]
             b == job[c].buffer
             to == [Job("writing") EXCEPT !.buffer = b]
  <2>1. Goes(c, to) /\ UNCHANGED cache /\ job[c].at = "applying" /\ UnderWay(c)
    BY DEF AllApplied, UnderWay
  <2>2. TypeInv' /\ StageInv(call, job[c], cache) /\ SelfOwned(b) /\ IsBuffer(b)
    BY <1>1, Zenon DEF CallsInv, TypeInv, JobOK
  <2>3. to.at = "writing" /\ to.buffer = b
    BY <2>2, WritingFacts, ZenonT(30)
  <2> HIDE DEF to
  <2>4. StageInv(call, to, cache)
    BY <2>1, <2>2, <2>3, Zenon DEF StageInv
  <2> QED
    BY <2>1, <2>2, <2>3, <2>4, OthersKept, ZenonT(30) DEF CallsInv
<1>11. ASSUME NEW c \in DOMAIN Calls, NEW a \in Addresses, WriteAccount(c, a)
      PROVE  CallsInv'
  <2> USE <1>11
  <2> DEFINE call == Calls[c]
             j == job[c]
             to == [j EXCEPT !.buffer = Without(@, a)]
  <2>1. /\ j.at = "writing" /\ j.buffer[a] # None /\ UnderWay(c)
        /\ cache' = [cache EXCEPT ![a] = j.buffer[a]] /\ Goes(c, to)
    BY DEF WriteAccount, UnderWay
  <2>2. /\ TypeInv' /\ JobOK(call, j) /\ StageInv(call, j, cache)
        /\ IsBuffer(cache) /\ SelfOwned(cache) /\ SelfOwned(j.buffer)
    BY <1>1, Zenon DEF CallsInv, TypeInv
  <2> DEFINE b == Without(j.buffer, a)
  <2>3. to.at = "writing" /\ to.buffer = b
    BY <2>1, <2>2 DEF JobOK, IsJob
  <2> HIDE DEF to
  <2>4. \A d \in Addresses : b[d] = IF d = a THEN None ELSE j.buffer[d]
    BY <2>2, ZenonT(30) DEF JobOK, IsBuffer, Without
  <2> HIDE DEF b
  <2>5. \A d \in Addresses : cache'[d] = IF d = a THEN j.buffer[d] ELSE cache[d]
    BY <2>1, <2>2, ZenonT(30) DEF IsBuffer
  <2>6. a \in Touched(call)
    BY <2>1, <2>2, ZenonT(30) DEF StageInv
  <2>7. SelfOwned(cache') /\ SelfOwned(b)
    BY <2>2, <2>4, <2>5, CallsConstants, ZenonT(30) DEF SelfOwned, IsCall
  <2>8. StageInv(call, to, cache')
    BY <2>1, <2>2, <2>3, <2>4, <2>5, ZenonT(30) DEF StageInv
  <2> QED
    BY <2>1, <2>2, <2>3, <2>5, <2>6, <2>7, <2>8, OthersKept, ZenonT(30)
<1>12. ASSUME NEW c \in DOMAIN Calls, AnswerCall(c) \/ AnswerRegistration(c)
      PROVE  CallsInv'
  <2> USE <1>12
  <2>1. UnderWay(c) /\ UNCHANGED cache /\ Goes(c, Job("applied"))
    BY ZenonT(30) DEF AnswerCall, AnswerRegistration, UnderWay
  <2>2. TypeInv'
    BY <1>1, ZenonT(30) DEF CallsInv
  <2> QED
    BY <2>1, <2>2, EndKeeps, ZenonT(60)
<1>13. ASSUME NEW c \in DOMAIN Calls, RegisterProgram(c)
      PROVE  CallsInv'
  <2> USE <1>13
  <2> DEFINE call == Calls[c]
             B(answer) == AddToBuffer(Empty(Addresses),
                            <<FreshProgram(call.to, call.from, call.metadata),
                              [answer EXCEPT !.nonce = @ + 1]>>)
  <2>1. PICK answer :
          /\ Read("registering", call.from, answer)
          /\ IF answer = None \/ ~call.wellFormed
             THEN Fails(c)
             ELSE Goes(c, [Job("writing") EXCEPT !.buffer = B(answer)])
          /\ UNCHANGED cache /\ job[c].at = "registering"
    BY ZenonT(30) DEF RegisterProgram, Job
  <2>2. /\ UnderWay(c) /\ TypeInv' /\ call.type = "RegisterProgram" /\ IsCall(call)
        /\ IsAccountOf(answer, call.from) /\ SelfOwned(cache) /\ TypeInv
    BY <1>1, <2>1, ReadFacts, CallsConstants, ZenonT(60)
       DEF UnderWay, CallsInv, TypeInv, JobOK, RightKind
  <2>3. CASE answer = None \/ ~call.wellFormed
    BY <2>1, <2>2, <2>3, EndKeeps, ZenonT(60) DEF Fails
  <2>4. CASE ~(answer = None \/ ~call.wellFormed)
    <3> DEFINE b == B(answer)
               to == [Job("writing") EXCEPT !.buffer = b]
    <3>1. /\ IsBuffer(b)
          /\ \A a \in Addresses : b[a] # None =>
                a = call.to \/ (a = call.from /\ b[a].owner = answer.owner)
      BY <2>2, <2>4, RegistrationBuffer, SMTT(60)
    <3>2. Goes(c, to)
      BY <2>1, <2>4
    <3> HIDE DEF b
    <3>3. to.at = "writing" /\ to.buffer = b
      BY <3>1, WritingFacts, ZenonT(30)
    <3> HIDE DEF to
    <3>4. answer.owner = call.from
      BY <2>1, <2>2, <2>4, ZenonT(60) DEF Read, SelfOwned
    <3>5. SelfOwned(b)
      BY <3>1, <3>4, CallersAreUsers, CallsConstants, ZenonT(60) DEF SelfOwned, IsCall
    <3>6. call.from \in Touched(call) /\ call.to \in Touched(call)
      BY <2>2, TouchedFacts, ZenonT(30)
    <3>7. StageInv(call, to, cache)
      BY <2>2, <3>1, <3>3, <3>6, ZenonT(30) DEF StageInv
    <3> QED
      BY <2>1, <2>2, <3>2, <3>3, <3>5, <3>7, OthersKept, ZenonT(60)
  <2> QED
    BY <2>3, <2>4
<1> QED
  BY <1>2, <1>3, <1>4, <1>5, <1>6, <1>7, <1>8, <1>9, <1>10, <1>11, <1>12, <1>13, ZenonT(60) DEF Next, Step

\* From the invariant: what a call takes, it may take.
LEMMA CallsInvAuthorized ==
  CallsInv => DebitsAreAuthorized
<1> SUFFICES ASSUME CallsInv, NEW c \in DOMAIN Calls, job[c].at = "writing", Calls[c].type = "Call",
                    NEW a \in Addresses, job[c].buffer[a] # None, cache[a] # None,
                    NEW token \in Addresses, Holds(cache[a], token),
                    Takes(cache[a], job[c].buffer[a], token)
             PROVE  \E spender \in SpendersOf(Calls[c]) : Lets(cache[a], token, spender)
  BY DEF DebitsAreAuthorized
<1> DEFINE x == cache[a]
           y == job[c].buffer[a]
<1>1. Kept(Calls[c], x, y) /\ x \in Account /\ y \in Account
  BY ZenonT(30) DEF CallsInv, StageInv, TypeInv, JobOK, IsBuffer, IsAccountOf
<1> HIDE DEF x, y
<1>2. Holds(x, token) /\ Takes(x, y, token)
  BY DEF x, y
<1>3. \/ Unmoved(x.programs[token], y.programs[token])
      \/ \E s \in SpendersOf(Calls[c]) : Lets(x, token, s)
  BY <1>1, <1>2, ZenonT(30) DEF Kept
<1>4. x.programs[token] \in Token /\ y.programs[token] \in Token
  BY <1>1, <1>2, HeldToken, ZenonT(30) DEF Kept
<1>5. ~Unmoved(x.programs[token], y.programs[token])
  <2> DEFINE t == x.programs[token]
             u == y.programs[token]
  <2>1. t.balance > u.balance \/ \E i \in Ids : t.ids[i] > 0 /\ u.ids[i] = 0
    BY <1>2, ZenonT(30) DEF Takes
  <2>2. t.balance \in Nat /\ u.balance \in Nat
    BY <1>4, TokenNumbers
  <2> HIDE DEF t, u
  <2>3. ~Unmoved(t, u)
    BY <2>1, <2>2 DEF Unmoved
  <2> QED
    BY <2>3, ZenonT(30) DEF t, u
<1> QED
  BY <1>3, <1>5, ZenonT(30) DEF x

\* From the invariant: who may spend is changed by the owner only.
LEMMA CallsInvSpenders ==
  CallsInv => SpendersAreTheOwners
<1> SUFFICES ASSUME CallsInv, NEW c \in DOMAIN Calls, job[c].at = "writing", Calls[c].type = "Call",
                    NEW a \in Addresses, job[c].buffer[a] # None, cache[a] # None,
                    NEW token \in Addresses, Holds(cache[a], token),
                    Spenders(cache[a], token) # Spenders(job[c].buffer[a], token)
             PROVE  cache[a].owner = Calls[c].from \/ GivenTo(Calls[c], a, token)
  BY ZenonT(30) DEF SpendersAreTheOwners
<1>1. Kept(Calls[c], cache[a], job[c].buffer[a]) /\ cache[a].self = a
  BY Zenon DEF CallsInv, StageInv, TypeInv, JobOK, IsBuffer, IsAccountOf
<1> QED
  BY <1>1, ZenonT(30) DEF Kept, SamePermits, Spenders

-----------------------------------------------------------------------------
(* What the operations of a call make of the accounts, one after the other. *)

\* Performing a call goes from operation to operation.
LEMMA PerformingGoesOn ==
  ASSUME RulesHold, NEW call, NEW accounts, Len(Operations(call)) \in Nat
  PROVE  /\ Performing(call, accounts)[0] = Ok(accounts)
         /\ \A n \in 1..Len(Operations(call)) :
               Performing(call, accounts)[n]
                 = PerformStep(call, accounts, Performing(call, accounts)[n - 1], n)
  BY Zenon DEF RulesHold, OperationsPerform

\* An operation that fails is the last one performed.
LEMMA FailureStays ==
  ASSUME RulesHold, NEW call, NEW accounts, Len(Operations(call)) \in Nat,
         NEW n \in 0..Len(Operations(call)), Performing(call, accounts)[n].is # "ok"
  PROVE  Performed(call, accounts) = Performing(call, accounts)[n]
  BY Zenon DEF RulesHold, OperationsPerform

\* The accounts with those of a batch buffer in place.
Overlay(buffer, accounts) ==
    [a \in Addresses |-> IF buffer[a] # None THEN buffer[a] ELSE accounts[a]]

\* Adding to the buffer and then laying it over the accounts is adding to the result.
LEMMA OverlayAdds ==
  ASSUME NEW buffer, NEW accounts, NEW value,
         value = <<value[1]>> \/ value = <<value[1], value[2]>>,
         \A n \in DOMAIN value : value[n] # None
  PROVE  AddToBuffer(Overlay(buffer, accounts), value)
           = Overlay(AddToBuffer(buffer, value), accounts)
<1> DEFINE Of(a) == {n \in DOMAIN value : value[n].self = a}
           Latest(a) == CHOOSE n \in Of(a) : \A m \in Of(a) : m <= n
<1>1. \A b : AddToBuffer(b, value) = [a \in Addresses |-> IF Of(a) = {} THEN b[a] ELSE value[Latest(a)]]
  BY DEF AddToBuffer
<1>2. ASSUME NEW a \in Addresses, Of(a) # {}
      PROVE  value[Latest(a)] # None
  <2>1. \E m \in Of(a) : \A n \in Of(a) : n <= m
    <3>1. Of(a) \subseteq {1, 2}
      <4>1. CASE value = <<value[1]>>
        <5>1. DOMAIN value = {1}
          BY <4>1
        <5> QED
          BY <5>1
      <4>2. CASE value = <<value[1], value[2]>>
        <5>1. DOMAIN value = {1, 2}
          BY <4>2
        <5> QED
          BY <5>1
      <4> QED
        BY <4>1, <4>2
    <3> DEFINE S == Of(a)
    <3> HIDE DEF S
    <3>2. S \subseteq {1, 2} /\ S # {}
      BY <1>2, <3>1 DEF S
    <3>3. \E m \in S : \A n \in S : n <= m
      <4>1. CASE 2 \in S
        BY <3>2, <4>1, SMTT(60)
      <4>2. CASE 2 \notin S
        BY <3>2, <4>2, SMTT(60)
      <4> QED
        BY <4>1, <4>2
    <3> QED
      BY <3>3 DEF S
  <2>2. Latest(a) \in Of(a)
    BY <2>1
  <2> QED
    BY <2>2
<1> HIDE DEF Of, Latest
<1> QED
  BY <1>1, <1>2, SMTT(60) DEF Overlay

\* Two accounts of two addresses are added to the buffer side by side.
LEMMA AddTwo ==
  ASSUME NEW b, NEW x, NEW y, x.self # y.self
  PROVE  AddToBuffer(b, <<x, y>>)
           = [a \in Addresses |-> IF a = x.self THEN x ELSE IF a = y.self THEN y ELSE b[a]]
<1> DEFINE v == <<x, y>>
           Of(a) == {n \in DOMAIN v : v[n].self = a}
           Latest(a) == CHOOSE n \in Of(a) : \A m \in Of(a) : m <= n
<1>1. AddToBuffer(b, v) = [a \in Addresses |-> IF Of(a) = {} THEN b[a] ELSE v[Latest(a)]]
  BY DEF AddToBuffer
<1>2. DOMAIN v = {1, 2} /\ v[1] = x /\ v[2] = y
  OBVIOUS
<1> HIDE DEF v
<1>3. ASSUME NEW a \in Addresses
      PROVE  (IF Of(a) = {} THEN b[a] ELSE v[Latest(a)])
               = IF a = x.self THEN x ELSE IF a = y.self THEN y ELSE b[a]
  <2>1. CASE a = x.self
    <3>1. Of(a) = {1}
      BY <1>2, <2>1
    <3>2. Latest(a) = 1
      BY <3>1, SMTT(60)
    <3> QED
      BY <1>2, <2>1, <3>1, <3>2, SMTT(60)
  <2>2. CASE a = y.self
    <3>1. Of(a) = {2}
      BY <1>2, <2>2
    <3>2. Latest(a) = 2
      BY <3>1, SMTT(60)
    <3> QED
      BY <1>2, <2>2, <3>1, <3>2, SMTT(60)
  <2>3. CASE a # x.self /\ a # y.self
    <3>1. Of(a) = {}
      BY <1>2, <2>3
    <3> QED
      BY <2>3, <3>1
  <2> QED
    BY <2>1, <2>2, <2>3
<1> HIDE DEF Of, Latest
<1>4. AddToBuffer(b, v)
        = [a \in Addresses |-> IF a = x.self THEN x ELSE IF a = y.self THEN y ELSE b[a]]
  BY <1>1, <1>3
<1> QED
  BY <1>4 DEF v

\* An operation is of one of six kinds, and reads one to three accounts.
LEMMA OperationKinds ==
  ASSUME NEW call, NEW o, IsOperation(o)
  PROVE  /\ o.is \in {"Transfer", "Burn", "Distribution", "Program", "Token", "ProgramUpdate"}
         /\ DOMAIN Reads(call, o) = 1..Len(Reads(call, o)) /\ Len(Reads(call, o)) \in 1..3
         /\ o.is \in {"Distribution", "Token"} => Len(Reads(call, o)) = 2
         /\ o.is = "Transfer" => Len(Reads(call, o)) = 3
<1>1. o.is \in {"Transfer", "Burn", "Distribution", "Program", "Token", "ProgramUpdate"}
  BY DEF IsOperation, IsTransfer, IsBurn, IsDistribution, IsUpdate
<1>2. CASE o.is = "Transfer"
  <2>1. \E x, y, z : Reads(call, o) = <<x, y, z>>
    BY <1>2, Zenon DEF Reads
  <2> QED
    BY <1>1, <1>2, <2>1
<1>3. CASE o.is \in {"Distribution", "Token"}
  <2>1. \E x, y : Reads(call, o) = <<x, y>>
    BY <1>3, Zenon DEF Reads
  <2> QED
    BY <1>1, <1>3, <2>1, SMTT(60)
<1>4. CASE o.is \in {"Burn", "Program", "ProgramUpdate"}
  <2>1. \E x : Reads(call, o) = <<x>>
    BY <1>4, Zenon DEF Reads
  <2> QED
    BY <1>1, <1>4, <2>1, SMTT(60)
<1> QED
  BY <1>1, <1>2, <1>3, <1>4, Zenon

\* What an operation does follows from the accounts it reads.
LEMMA OperationOfReads ==
  ASSUME NEW call, NEW o, IsOperation(o), NEW p, NEW q,
         \A n \in 1..Len(Reads(call, o)) : p[n] = q[n]
  PROVE  ApplyOperation(call, o, p) = ApplyOperation(call, o, q)
<1>1. /\ p[1] = q[1]
      /\ o.is \in {"Transfer", "Distribution", "Token"} => p[2] = q[2]
      /\ o.is = "Transfer" => p[3] = q[3]
  <2> DEFINE l == Len(Reads(call, o))
  <2>1. /\ l \in 1..3 /\ (o.is \in {"Distribution", "Token"} => l = 2)
        /\ o.is = "Transfer" => l = 3
    BY OperationKinds, Zenon
  <2>2. \A n \in 1..l : p[n] = q[n]
    OBVIOUS
  <2> HIDE DEF l
  <2> QED
    BY <2>1, <2>2, SMTT(60)
<1> QED
  BY <1>1, OperationKinds, Zenon DEF ApplyOperation

\* The account an operation finds for the n-th read, with buffer b over accounts.
Seen(call, o, b, accounts, n) ==
    LET r == Reads(call, o)[n]
    IN LookUp(IF r.buffered THEN Overlay(b, accounts) ELSE accounts, r.name)

\* An operation on what the batcher read does to the buffer what performing it does to the
\* accounts.
LEMMA PerformFacts ==
  ASSUME RulesHold, NEW call, IsCall(call), NEW o, IsOperation(o),
         NEW accounts, NEW b, NEW read, Found(call, o, read),
         \A n \in 1..Len(Reads(call, o)) : read[n] = Seen(call, o, b, accounts, n)
  PROVE  LET result == ApplyOperation(call, o, read)
             performed == Perform(call, o, accounts, Overlay(b, accounts))
         IN /\ result.is = "ok" => performed = Ok(Overlay(AddToBuffer(b, result.value), accounts))
            /\ result.is # "ok" => performed = result
<1> DEFINE now == Overlay(b, accounts)
           reads == Reads(call, o)
           q == [n \in DOMAIN reads |->
                   LookUp(IF reads[n].buffered THEN now ELSE accounts, reads[n].name)]
           result == ApplyOperation(call, o, read)
<1>1. \A n \in 1..Len(reads) : q[n] = read[n]
  BY OperationKinds DEF Seen
<1>2. Perform(call, o, accounts, now)
        = IF ApplyOperation(call, o, q).is = "ok"
          THEN Ok(AddToBuffer(now, ApplyOperation(call, o, q).value))
          ELSE ApplyOperation(call, o, q)
  BY DEF Perform, Then
<1> HIDE DEF q, now
<1>3. ApplyOperation(call, o, q) = result
  BY <1>1, OperationOfReads
<1>4. Perform(call, o, accounts, now)
        = IF result.is = "ok" THEN Ok(AddToBuffer(now, result.value)) ELSE result
  BY <1>2, <1>3, Zenon
<1>5. result.is = "ok" => AddToBuffer(now, result.value) = Overlay(AddToBuffer(b, result.value), accounts)
  <2> SUFFICES ASSUME result.is = "ok"
               PROVE  AddToBuffer(now, result.value) = Overlay(AddToBuffer(b, result.value), accounts)
    BY ZenonT(60)
  <2> DEFINE value == result.value
  <2>1. /\ value = <<value[1]>> \/ value = <<value[1], value[2]>>
        /\ \A n \in DOMAIN value : value[n] \in Account
    BY SMTT(60) DEF RulesHold, OperationsBecome, Becomes, IsCall
  <2> HIDE DEF value, result
  <2>2. \A n \in DOMAIN value : value[n] # None
    BY <2>1, NoneIsNoValue
  <2> QED
    BY <2>1, <2>2, OverlayAdds, ZenonT(60) DEF now, value
<1> HIDE DEF result
<1> QED
  BY <1>4, <1>5, ZenonT(60) DEF now, result

-----------------------------------------------------------------------------
(* The calls as a ledger: what a call under way has done of its share. *)

Accounts == [Addresses -> Account \union {None}]
Agree(call, k, l) == \A a \in Addresses : a \in Touched(call) => k[a] = l[a]

\* All of the call but rest is applied: buffer over any accounts that agree with k is what
\* its first operations make of these.
Applied(call, rest, buffer, k) == \E n \in 0..Len(Operations(call)) :
    /\ n + Len(rest) = Len(Operations(call))
    /\ \A m \in 1..Len(rest) : rest[m] = Operations(call)[n + m]
    /\ \A accounts \in Accounts : Agree(call, accounts, k) =>
          Performing(call, accounts)[n] = Ok(Overlay(buffer, accounts))

\* Of a call whose accounts are those of k, after z late reads: what the validator read of
\* them, on what it let the call through, and what the batcher has applied.
LedgerStage(call, j, k, z) ==
    /\ j.at = "checking" =>
          /\ j.accounts = [n \in DOMAIN j.accounts |-> j.accounts[n]]
          /\ z = 0 => \A n \in DOMAIN j.accounts : j.accounts[n] = Find(call, k, n)
    /\ j.at = "counting" => \E unread \in SUBSET GetAccountsInvolved(call) :
          (unread # {} => z > 0) /\ Valid(call, k, unread)
    /\ j.at = "applying" =>
          /\ Applied(call, j.rest, j.buffer, k)
          /\ j.rest # <<>> => \A m \in 1..Len(j.read) :
                LET r == Reads(call, Head(j.rest))[m]
                IN ~r.buffered => j.read[m] = LookUp(k, r.name)

LedgerInv ==
    CallsInv /\ \A c \in DOMAIN Calls : LedgerStage(Calls[c], job[c], cache, late)

\* Which calls are valid on accounts follows from the accounts they name.
LEMMA ValidIsLocal ==
  ASSUME NEW call, IsCall(call), NEW k, NEW l, Agree(call, k, l), NEW unread
  PROVE  /\ \A n \in GetAccountsInvolved(call) : Find(call, k, n) = Find(call, l, n)
         /\ Valid(call, k, unread) = Valid(call, l, unread)
<1>1. \A n \in GetAccountsInvolved(call) : Find(call, k, n) = Find(call, l, n)
  BY TouchedFacts DEF Find, LookUp, Agree
<1> DEFINE Named(accounts) == [n \in GetAccountsInvolved(call) |->
                                 IF n \in unread THEN None ELSE Find(call, accounts, n)]
<1>2. Named(k) = Named(l)
  BY <1>1
<1> QED
  BY <1>1, <1>2, Zenon DEF Valid

\* What is known of a call at its stage follows from the accounts it touches.
LEMMA LedgerStageIsLocal ==
  ASSUME RulesHold, NEW call, IsCall(call), NEW j, JobOK(call, j), NEW k, StageInv(call, j, k),
         NEW l, Agree(call, k, l), NEW z \in Nat, NEW y \in Nat, y = 0 => z = 0,
         LedgerStage(call, j, k, z)
  PROVE  LedgerStage(call, j, l, y)
<1>1. ASSUME j.at = "checking"
      PROVE  /\ j.accounts = [n \in DOMAIN j.accounts |-> j.accounts[n]]
             /\ y = 0 => \A n \in DOMAIN j.accounts : j.accounts[n] = Find(call, l, n)
  <2>1. DOMAIN j.accounts \subseteq GetAccountsInvolved(call)
    BY <1>1, Zenon DEF StageInv
  <2>2. \A n \in GetAccountsInvolved(call) : Find(call, k, n) = Find(call, l, n)
    BY ValidIsLocal
  <2> QED
    BY <1>1, <2>1, <2>2, Zenon DEF LedgerStage
<1>2. ASSUME j.at = "counting"
      PROVE  \E unread \in SUBSET GetAccountsInvolved(call) :
                (unread # {} => y > 0) /\ Valid(call, l, unread)
  <2>1. PICK unread \in SUBSET GetAccountsInvolved(call) :
                (unread # {} => z > 0) /\ Valid(call, k, unread)
    BY <1>2, Zenon DEF LedgerStage
  <2>2. z > 0 => y > 0
    OBVIOUS
  <2> QED
    BY <2>1, <2>2, ValidIsLocal, Zenon
<1>3. ASSUME j.at = "applying"
      PROVE  Applied(call, j.rest, j.buffer, l)
  <2>1. \A accounts : Agree(call, accounts, l) => Agree(call, accounts, k)
    BY Zenon DEF Agree
  <2>2. Applied(call, j.rest, j.buffer, k)
    BY <1>3, Zenon DEF LedgerStage
  <2> QED
    BY <2>1, <2>2, Zenon DEF Applied
<1>4. ASSUME j.at = "applying", j.rest # <<>>, NEW m \in 1..Len(j.read),
             ~Reads(call, Head(j.rest))[m].buffered
      PROVE  j.read[m] = LookUp(l, Reads(call, Head(j.rest))[m].name)
  <2> DEFINE o == Head(j.rest)
             a == Reads(call, o)[m].name
  <2>1. j.read[m] = LookUp(k, a)
    BY <1>4, Zenon DEF LedgerStage
  <2>2. j.rest \in Seq(Range(Operations(call)))
    BY <1>4, Zenon DEF StageInv
  <2>3. o \in Range(Operations(call))
    BY <1>4, <2>2
  <2>4. m \in DOMAIN Reads(call, o)
    <3>1. ReadFor(call, o, j.read)
      BY <1>4, Zenon DEF JobOK
    <3>2. Len(Reads(call, o)) \in 1..3 /\ DOMAIN Reads(call, o) = 1..Len(Reads(call, o))
      BY <2>3, OperationsInRange, OperationKinds, Zenon
    <3>3. Len(j.read) <= Len(Reads(call, o)) /\ Len(j.read) \in Nat
      BY <3>1 DEF ReadFor
    <3> HIDE DEF o
    <3> QED
      BY <1>4, <3>2, <3>3
  <2>5. a \in Touched(call)
    BY <2>3, <2>4, TouchedFacts, Zenon
  <2> QED
    BY <2>1, <2>5, Zenon DEF LookUp, Agree
<1> QED
  BY <1>1, <1>2, <1>3, <1>4, Zenon DEF LedgerStage

\* The accounts k with the writes of jobs done, and the account of an address as one call has it.
Writes(jobs, c, a) == jobs[c].at = "writing" /\ jobs[c].buffer[a] # None
Settled(k, jobs) == [a \in Addresses |->
    IF \E c \in DOMAIN Calls : Writes(jobs, c, a)
    THEN jobs[CHOOSE c \in DOMAIN Calls : Writes(jobs, c, a)].buffer[a]
    ELSE k[a]]
Mine(j, k, a) == IF j.at = "writing" /\ j.buffer[a] # None THEN j.buffer[a] ELSE k[a]

\* The accounts of the ledger, as an operator of the cache and of the jobs.
LEMMA AccountedIsSettled ==
  /\ Accounted = Settled(cache, job)
  /\ Accounted' = Settled(cache', job')
  BY Zenon DEF Accounted, Settled, Writes

\* An address that at most one call writes has the account that call gives it.
LEMMA SettledByOne ==
  ASSUME NEW k, NEW jobs, NEW a \in Addresses, NEW c \in DOMAIN Calls,
         \A d \in DOMAIN Calls : d # c => ~Writes(jobs, d, a)
  PROVE  Settled(k, jobs)[a] = Mine(jobs[c], k, a)
<1> DEFINE w == CHOOSE d \in DOMAIN Calls : Writes(jobs, d, a)
<1>1. Settled(k, jobs)[a] = IF \E d \in DOMAIN Calls : Writes(jobs, d, a)
                            THEN jobs[w].buffer[a] ELSE k[a]
  BY Zenon DEF Settled
<1>2. Writes(jobs, c, a) => w = c
  BY Zenon
<1> HIDE DEF w
<1>3. Writes(jobs, c, a) => Settled(k, jobs)[a] = jobs[c].buffer[a]
  BY <1>1, <1>2, Zenon
<1>4. ~Writes(jobs, c, a) => Settled(k, jobs)[a] = k[a]
  BY <1>1, Zenon
<1> QED
  BY <1>3, <1>4, Zenon DEF Mine, Writes

\* A step of one call is one on its own accounts: the others are as they were.
Moved(c, to) ==
    /\ \A a \in Addresses : a \in Touched(Calls[c]) =>
          Accounted[a] = Mine(job[c], cache, a) /\ Accounted'[a] = Mine(to, cache', a)
    /\ \A a \in Addresses : a \notin Touched(Calls[c]) => Accounted'[a] = Accounted[a]
    /\ Outcomes[c] = OutcomeAt(job[c].at)
    /\ Outcomes' = [Outcomes EXCEPT ![c] = OutcomeAt(to.at)]

\* A step of one call changes the ledger at the addresses it touches, and its outcome only.
LEMMA LedgerMoves ==
  ASSUME CallsInv, CallsInv', NEW c \in DOMAIN Calls, UnderWay(c), NEW to, Goes(c, to),
         \A a \in Addresses : a \notin Touched(Calls[c]) => cache'[a] = cache[a]
  PROVE  Moved(c, to)
<1> DEFINE call == Calls[c]
<1>1. /\ job'[c] = to
      /\ \A d \in DOMAIN Calls : d # c => job'[d] = job[d]
  BY GoesFacts DEF CallsInv
<1>2. ASSUME NEW d \in DOMAIN Calls, NEW a \in Addresses, Writes(job, d, a)
      PROVE  UnderWay(d) /\ a \in Touched(Calls[d])
  <2>1. StageInv(Calls[d], job[d], cache)
    BY DEF CallsInv
  <2> QED
    BY <1>2, <2>1 DEF StageInv, Writes, UnderWay
<1>3. ASSUME NEW a \in Addresses, Writes(job', c, a)
      PROVE  a \in Touched(call)
  <2>1. StageInv(Calls[c], job'[c], cache')
    BY ZenonT(60) DEF CallsInv
  <2> QED
    BY <1>3, <2>1 DEF StageInv, Writes
<1>4. ASSUME NEW d \in DOMAIN Calls, NEW e \in DOMAIN Calls, NEW a \in Addresses,
             a \in Touched(Calls[d]), a \in Touched(Calls[e]), UnderWay(d), UnderWay(e)
      PROVE  d = e
  BY <1>4, InstructionConstants, SMTT(60) DEF CallsInv, Isolated
<1>5. ASSUME NEW d \in DOMAIN Calls, d # c, NEW a \in Addresses
      PROVE  Writes(job', d, a) <=> Writes(job, d, a)
  BY <1>1, <1>5, Zenon DEF Writes
<1>6. ASSUME NEW a \in Addresses, a \in Touched(call)
      PROVE  Accounted[a] = Mine(job[c], cache, a) /\ Accounted'[a] = Mine(to, cache', a)
  <2>1. \A d \in DOMAIN Calls : d # c => ~Writes(job, d, a) /\ ~Writes(job', d, a)
    BY <1>2, <1>4, <1>5, <1>6, Zenon
  <2>2. Settled(cache, job)[a] = Mine(job[c], cache, a)
    BY <2>1, SettledByOne, ZenonT(60)
  <2>3. Settled(cache', job')[a] = Mine(job'[c], cache', a)
    BY <2>1, SettledByOne, ZenonT(60)
  <2> QED
    BY <1>1, <2>2, <2>3, AccountedIsSettled, Zenon
<1>7. ASSUME NEW a \in Addresses, a \notin Touched(call)
      PROVE  Accounted'[a] = Accounted[a]
  <2>1. ~Writes(job, c, a) /\ ~Writes(job', c, a)
    BY <1>2, <1>3, <1>7, ZenonT(60)
  <2>2. \A d, e \in DOMAIN Calls : Writes(job, d, a) /\ Writes(job, e, a) => d = e
    BY <1>2, <1>4, Zenon
  <2>3. ASSUME NEW d \in DOMAIN Calls, \A e \in DOMAIN Calls : e # d => ~Writes(job, e, a),
               Mine(job'[d], cache', a) = Mine(job[d], cache, a)
        PROVE  Accounted'[a] = Accounted[a]
    <3>1. \A e \in DOMAIN Calls : e # d => ~Writes(job', e, a)
      BY <1>5, <2>1, <2>3, Zenon
    <3>2. Settled(cache, job)[a] = Mine(job[d], cache, a)
      BY <2>3, SettledByOne, SMTT(60)
    <3>3. Settled(cache', job')[a] = Mine(job'[d], cache', a)
      BY <3>1, SettledByOne, SMTT(60)
    <3> QED
      BY <2>3, <3>2, <3>3, AccountedIsSettled, Zenon
  <2>4. CASE \E d \in DOMAIN Calls : Writes(job, d, a)
    <3>1. PICK d \in DOMAIN Calls : Writes(job, d, a)
      BY <2>4
    <3>2. d # c /\ job'[d] = job[d] /\ cache'[a] = cache[a]
      BY <1>1, <1>7, <2>1, <3>1, Zenon
    <3>3. Mine(job'[d], cache', a) = Mine(job[d], cache, a)
      BY <3>2, Zenon DEF Mine
    <3> QED
      BY <2>2, <2>3, <3>1, <3>3, Zenon
  <2>5. CASE \A d \in DOMAIN Calls : ~Writes(job, d, a)
    <3>1. Mine(job'[c], cache', a) = cache'[a] /\ Mine(job[c], cache, a) = cache[a]
      BY <2>1, Zenon DEF Mine, Writes
    <3> QED
      BY <1>7, <2>3, <2>5, <3>1, Zenon
  <2> QED
    BY <2>4, <2>5, Zenon
<1>8. Outcomes[c] = OutcomeAt(job[c].at)
  BY DEF Outcomes
<1>9. Outcomes' = [Outcomes EXCEPT ![c] = OutcomeAt(to.at)]
  <2>1. \A d \in DOMAIN Calls :
          OutcomeAt(job'[d].at) = IF d = c THEN OutcomeAt(to.at) ELSE OutcomeAt(job[d].at)
    BY <1>1, Zenon
  <2> HIDE DEF OutcomeAt
  <2>2. [d \in DOMAIN Calls |-> OutcomeAt(job'[d].at)]
          = [[d \in DOMAIN Calls |-> OutcomeAt(job[d].at)] EXCEPT ![c] = OutcomeAt(to.at)]
    BY <2>1
  <2> QED
    BY <2>2, Zenon DEF Outcomes
<1> QED
  BY <1>6, <1>7, <1>8, <1>9, Zenon DEF Moved

\* The ledger holds accounts, each under its own address.
LEMMA AccountedTypes ==
  ASSUME CallsInv
  PROVE  Accounted \in Accounts /\ \A a \in Addresses : IsAccountOf(Accounted[a], a)
<1>1. ASSUME NEW a \in Addresses
      PROVE  IsAccountOf(Accounted[a], a)
  <2>1. IsAccountOf(cache[a], a) /\ \A c \in DOMAIN Calls : IsAccountOf(job[c].buffer[a], a)
    BY DEF CallsInv, TypeInv, IsBuffer, JobOK
  <2>2. \/ Settled(cache, job)[a] = cache[a]
        \/ \E c \in DOMAIN Calls : Settled(cache, job)[a] = job[c].buffer[a]
    BY Zenon DEF Settled
  <2> QED
    BY <2>1, <2>2, AccountedIsSettled, Zenon
<1>2. Accounted = [a \in Addresses |-> Accounted[a]]
  BY DEF Accounted
<1>3. \A a \in Addresses : Accounted[a] \in Account \union {None}
  BY <1>1 DEF IsAccountOf
<1> QED
  BY <1>1, <1>2, <1>3 DEF Accounts

\* A step of one call keeps what the others have done.
LEMMA LedgerOthers ==
  ASSUME RulesHold, LedgerInv, CallsInv', NEW c \in DOMAIN Calls, UnderWay(c), NEW to, Goes(c, to),
         \A a \in Addresses : a \notin Touched(Calls[c]) => cache'[a] = cache[a],
         late' \in {late, late + 1}, LedgerStage(Calls[c], to, cache', late')
  PROVE  LedgerInv'
<1>1. /\ job'[c] = to
      /\ \A d \in DOMAIN Calls : d # c => job'[d] = job[d]
  BY GoesFacts DEF CallsInv, LedgerInv
<1>2. late \in Nat /\ late' \in Nat /\ (late' = 0 => late = 0)
  BY CallsConstants DEF LedgerInv, CallsInv, TypeInv
<1>3. ASSUME NEW d \in DOMAIN Calls, d # c
      PROVE  LedgerStage(Calls[d], job[d], cache', late')
  <2>1. /\ StageInv(Calls[d], job[d], cache) /\ JobOK(Calls[d], job[d]) /\ IsCall(Calls[d])
        /\ LedgerStage(Calls[d], job[d], cache, late)
    BY CallsConstants, Zenon DEF LedgerInv, CallsInv, TypeInv
  <2>2. CASE UnderWay(d)
    <3>1. (Touched(Calls[c]) \intersect Touched(Calls[d])) \subseteq {Namespace}
      BY <1>3, <2>2, Zenon DEF LedgerInv, CallsInv, Isolated
    <3>2. Agree(Calls[d], cache, cache')
      BY <3>1, InstructionConstants, ZenonT(60) DEF Agree
    <3> QED
      BY <1>2, <2>1, <3>2, LedgerStageIsLocal, Zenon
  <2>3. CASE ~UnderWay(d)
    BY <2>3, Zenon DEF UnderWay, LedgerStage
  <2> QED
    BY <2>2, <2>3, ZenonT(60)
<1>4. \A d \in DOMAIN Calls : LedgerStage(Calls[d], job'[d], cache', late')
  BY <1>1, <1>3, Zenon
<1> QED
  BY <1>4, Zenon DEF LedgerInv

\* The outcome of a call at each stage.
LEMMA OutcomeFacts ==
  /\ \A at \in {"checking", "counting", "registering"} : OutcomeAt(at) = "none"
  /\ \A at \in {"applying", "lost"} : OutcomeAt(at) = "counted"
  /\ OutcomeAt("writing") = "applied" /\ OutcomeAt("applied") = "answered"
  /\ OutcomeAt("failed") = "refused"
  BY DEF OutcomeAt

\* A step that leaves the accounts of the call as they were leaves the ledger.
LEMMA LedgerStays ==
  ASSUME CallsInv, CallsInv', NEW c \in DOMAIN Calls, UnderWay(c), NEW to, Goes(c, to),
         \A a \in Addresses : a \notin Touched(Calls[c]) => cache'[a] = cache[a],
         \A a \in Addresses : Mine(to, cache', a) = Mine(job[c], cache, a)
  PROVE  Accounted' = Accounted
<1> Moved(c, to)
  BY LedgerMoves
<1>1. \A a \in Addresses : Accounted'[a] = Accounted[a]
  BY Zenon DEF Moved
<1>2. /\ Accounted = [a \in Addresses |-> Accounted[a]]
      /\ Accounted' = [a \in Addresses |-> Accounted'[a]]
  BY DEF Accounted
<1> QED
  BY <1>1, <1>2, Zenon

\* A step that neither comes from nor goes to the writes leaves the ledger.
LEMMA NothingWritten ==
  ASSUME CallsInv, CallsInv', NEW c \in DOMAIN Calls, UnderWay(c), NEW to, Goes(c, to),
         UNCHANGED cache, job[c].at # "writing", to.at # "writing"
  PROVE  Accounted' = Accounted
<1>1. \A a \in Addresses : Mine(to, cache', a) = Mine(job[c], cache, a)
  BY Zenon DEF Mine
<1> QED
  BY <1>1, LedgerStays, Zenon

\* The accounts of the ledger, before and after a step, with and without a panic.
LEMMA BookedIs ==
  /\ alive => Booked = Accounted
  /\ alive' => Booked' = Accounted'
  /\ ~alive => Booked = cache
  /\ ~alive' => Booked' = cache'
  BY Zenon DEF Booked

\* They are those of the addresses.
LEMMA BookedTypes ==
  ASSUME CallsInv
  PROVE  DOMAIN Booked = Addresses
<1>1. DOMAIN cache = Addresses /\ DOMAIN Accounted = Addresses
  BY Zenon DEF CallsInv, TypeInv, IsBuffer, Accounted
<1> QED
  BY <1>1, BookedIs, Zenon

\* A step that changes neither the ledger nor an outcome is none of the ledger, or a delay.
LEMMA Unseen ==
  ASSUME CallsInv, CallsInv', NEW c \in DOMAIN Calls, UnderWay(c), NEW to, Goes(c, to),
         UNCHANGED <<cache, alive>>,
         Accounted' = Accounted, OutcomeAt(to.at) = OutcomeAt(job[c].at),
         late' \in {late, late + 1}
  PROVE  [Promise!Next]_(Promise!vars)
<1>1. Moved(c, to)
  BY LedgerMoves, Zenon
<1>2. Outcomes' = [Outcomes EXCEPT ![c] = Outcomes[c]]
  BY <1>1, Zenon DEF Moved
<1>3. Outcomes' = Outcomes
  BY <1>2 DEF Outcomes
<1>4. Booked' = Booked
  BY Zenon DEF Booked
<1> QED
  BY <1>3, <1>4, Zenon DEF Promise!Next, Promise!Delayed, Promise!vars

\* The stage of a call that ends or starts to write is nothing to speak of.
LEMMA OtherStage ==
  ASSUME NEW call, NEW j, j.at \notin {"checking", "counting", "applying"}, NEW k, NEW z
  PROVE  LedgerStage(call, j, k, z)
  BY Zenon DEF LedgerStage

\* A read answers with what is in the cache, or counts as late.
LEMMA ReadIs ==
  ASSUME LedgerInv, NEW stage, NEW name, NEW answer, Read(stage, name, answer)
  PROVE  /\ late' \in {late, late + 1} /\ late \in Nat /\ late' \in Nat
         /\ late' = 0 => late = 0 /\ answer = LookUp(cache, name)
         /\ answer # None => answer = LookUp(cache, name)
         /\ answer # LookUp(cache, name) => late' > 0 /\ stage \in LateReads
<1>1. late \in Nat
  BY CallsConstants, SMTT(60) DEF LedgerInv, CallsInv, TypeInv
<1>2. \/ answer = LookUp(cache, name) /\ late' = late
      \/ stage \in LateReads /\ answer = None /\ late' = late + 1
  BY Zenon DEF Read, LookUp
<1> HIDE DEF LookUp
<1> QED
  BY <1>1, <1>2, SMTT(60)

\* pending_call: a read changes nothing, and one that is not late is true.
LEMMA PendingCallLedger ==
  ASSUME RulesHold, LedgerInv, CallsInv', NEW c \in DOMAIN Calls, PendingCall(c)
  PROVE  LedgerInv' /\ [Promise!Next]_(Promise!vars)
<1> DEFINE call == Calls[c]
           j == job[c]
           name == CHOOSE n \in Unread(c) : TRUE
           With(answer) == [n \in DOMAIN j.accounts \union {name} |->
                              IF n = name THEN answer ELSE j.accounts[n]]
<1>1. PICK answer :
        /\ Read("checking", Resolve(call, name), answer)
        /\ Goes(c, [j EXCEPT !.accounts = With(answer)])
        /\ j.at = "checking" /\ UNCHANGED <<cache, alive>>
  BY Zenon DEF PendingCall
<1> HIDE DEF name
<1>2. /\ late' \in {late, late + 1} /\ late \in Nat /\ late' \in Nat
      /\ late' = 0 => late = 0 /\ answer = LookUp(cache, Resolve(call, name))
  BY <1>1, ReadIs, Zenon
<1>3. /\ UnderWay(c) /\ CallsInv /\ LedgerStage(call, j, cache, late) /\ IsJob(j)
  BY <1>1, Zenon DEF UnderWay, LedgerInv, CallsInv, TypeInv, JobOK
<1> DEFINE accounts == With(answer)
           to == [j EXCEPT !.accounts = accounts]
<1>4. Goes(c, to)
  BY <1>1
<1>5. accounts = [n \in DOMAIN accounts |-> accounts[n]]
  OBVIOUS
<1>6. late' = 0 => \A n \in DOMAIN accounts : accounts[n] = Find(call, cache', n)
  BY <1>1, <1>2, <1>3, Zenon DEF LedgerStage, Find
<1> HIDE DEF accounts
<1>7. to.at = "checking" /\ to.accounts = accounts
  BY <1>1, <1>3, ZenonT(60) DEF IsJob
<1> HIDE DEF to, j
<1>8. LedgerStage(call, to, cache', late')
  BY <1>5, <1>6, <1>7, Zenon DEF LedgerStage
<1>9. LedgerInv'
  BY <1>1, <1>2, <1>3, <1>4, <1>8, LedgerOthers, Zenon
<1>10. Accounted' = Accounted
  BY <1>1, <1>3, <1>4, <1>7, NothingWritten, Zenon DEF j
<1> QED
  BY <1>1, <1>2, <1>3, <1>4, <1>7, <1>9, <1>10, Unseen, Zenon DEF j

\* A call that is not being written sees the accounts of the ledger in the cache.
LEMMA AccountedAgrees ==
  ASSUME CallsInv, CallsInv', NEW c \in DOMAIN Calls, UnderWay(c), NEW to, Goes(c, to),
         \A a \in Addresses : a \notin Touched(Calls[c]) => cache'[a] = cache[a],
         job[c].at # "writing"
  PROVE  Agree(Calls[c], Accounted, cache)
<1> Moved(c, to)
  BY LedgerMoves
<1> QED
  BY Zenon DEF Moved, Agree, Mine

\* It does so after a panic as well.
LEMMA BookedAgrees ==
  ASSUME CallsInv, CallsInv', NEW c \in DOMAIN Calls, UnderWay(c), NEW to, Goes(c, to),
         UNCHANGED cache, job[c].at # "writing"
  PROVE  Agree(Calls[c], Booked, cache)
<1>1. Agree(Calls[c], Accounted, cache)
  BY AccountedAgrees, Zenon
<1> QED
  BY <1>1, BookedIs, Zenon DEF Agree

\* A call that fails before it is counted is refused.
LEMMA Refused ==
  ASSUME CallsInv, CallsInv', NEW c \in DOMAIN Calls, Goes(c, Job("failed")),
         UNCHANGED <<cache, alive>>, late' \in {late, late + 1},
         job[c].at \in {"checking", "counting", "registering"},
         LET call == Calls[c]
         IN \/ late' > 0
            \/ call.type = "RegisterProgram" /\ (Booked[call.from] = None \/ ~call.wellFormed)
            \/ call.type = "Call" /\ (~Valid(call, Booked, {}) \/ Booked[call.to] = None)
  PROVE  [Promise!Next]_(Promise!vars)
<1>1. UnderWay(c) /\ job[c].at # "writing" /\ Job("failed").at = "failed"
  BY DEF UnderWay, Job
<1>2. Accounted' = Accounted
  BY <1>1, NothingWritten, Zenon
<1>3. Moved(c, Job("failed"))
  BY <1>1, LedgerMoves, ZenonT(60)
<1>4. Outcomes[c] = "none" /\ Outcomes' = [Outcomes EXCEPT ![c] = "refused"]
  BY <1>1, <1>3, OutcomeFacts, Zenon DEF Moved
<1>5. Booked' = Booked
  BY <1>2, Zenon DEF Booked
<1>6. Promise!Refuse(c)
  BY <1>4, <1>5, Zenon DEF Promise!Refuse, Promise!Outcome
<1> QED
  BY <1>6, Zenon DEF Promise!Next

\* validate_call lets through what is valid on the accounts it read, and refuses the others.
LEMMA ValidateLedger ==
  ASSUME RulesHold, LedgerInv, CallsInv', NEW c \in DOMAIN Calls, Validate(c)
  PROVE  LedgerInv' /\ [Promise!Next]_(Promise!vars)
<1> DEFINE call == Calls[c]
           j == job[c]
           names == GetAccountsInvolved(call)
<1>1. /\ j.at = "checking" /\ UnderWay(c) /\ UNCHANGED <<cache, alive, late>> /\ Unread(c) = {}
      /\ IF ValidateCall(call, j.accounts) THEN Goes(c, Job("counting")) ELSE Goes(c, Job("failed"))
  BY Zenon DEF Validate, Fails, UnderWay
<1>2. /\ CallsInv /\ LedgerStage(call, j, cache, late) /\ StageInv(call, j, cache)
      /\ IsCall(call) /\ late \in 0..MaxLate /\ RightKind(call, j.at)
  BY CallsConstants, Zenon DEF LedgerInv, CallsInv, TypeInv, JobOK
<1>3. late \in Nat /\ late' \in {late, late + 1}
  BY <1>1, <1>2, CallsConstants, SMTT(60)
<1>4. DOMAIN j.accounts = names
  BY <1>1, <1>2, ZenonT(60) DEF StageInv, Unread
<1> DEFINE unread == {n \in names : j.accounts[n] # Find(call, cache, n)}
<1>5. ASSUME NEW n \in unread PROVE j.accounts[n] = None
  BY <1>1, <1>2, <1>4, Zenon DEF StageInv, Find, LookUp
<1>6. j.accounts = [n \in names |-> IF n \in unread THEN None ELSE Find(call, cache, n)]
  <2>1. j.accounts = [n \in names |-> j.accounts[n]]
    BY <1>1, <1>2, <1>4, Zenon DEF LedgerStage
  <2>2. \A n \in names : j.accounts[n] = IF n \in unread THEN None ELSE Find(call, cache, n)
    BY <1>5, Zenon
  <2> HIDE DEF unread, names, j
  <2> QED
    BY <2>1, <2>2, Zenon
<1>7. unread # {} => late > 0
  <2>1. unread # {} => late # 0
    BY <1>1, <1>2, <1>4, Zenon DEF LedgerStage
  <2> HIDE DEF unread
  <2> QED
    BY <1>3, <2>1, SMTT(60)
<1>8. CASE ValidateCall(call, j.accounts)
  <2>1. Goes(c, Job("counting")) /\ Job("counting").at = "counting"
    BY <1>1, <1>8, Zenon DEF Job
  <2>2. Valid(call, cache, unread)
    BY <1>6, <1>8, Zenon DEF Valid
  <2>3. unread \in SUBSET names
    OBVIOUS
  <2> HIDE DEF unread
  <2>4. LedgerStage(call, Job("counting"), cache', late')
    BY <1>1, <1>7, <2>1, <2>2, <2>3, Zenon DEF LedgerStage
  <2>5. LedgerInv'
    BY <1>1, <1>2, <1>3, <2>1, <2>4, LedgerOthers, Zenon
  <2>6. Accounted' = Accounted
    BY <1>1, <1>2, <2>1, NothingWritten, Zenon
  <2>7. OutcomeAt(Job("counting").at) = OutcomeAt(job[c].at)
    BY <1>1, <2>1, OutcomeFacts, Zenon
  <2> QED
    BY <1>1, <1>2, <1>3, <2>1, <2>5, <2>6, <2>7, Unseen, Zenon
<1>9. CASE ~ValidateCall(call, j.accounts)
  <2>1. Goes(c, Job("failed")) /\ Job("failed").at = "failed"
    BY <1>1, <1>9, Zenon DEF Job
  <2>2. LedgerInv'
    BY <1>1, <1>2, <1>3, <2>1, OtherStage, LedgerOthers, ZenonT(60)
  <2>3. late' > 0 \/ ~Valid(call, Booked, {})
    <3> SUFFICES ASSUME unread = {} PROVE ~Valid(call, Booked, {})
      BY <1>1, <1>7, Zenon
    <3>1. ~Valid(call, cache, {})
      BY <1>6, <1>9, Zenon DEF Valid
    <3>2. Agree(call, Booked, cache)
      BY <1>1, <1>2, <2>1, BookedAgrees, ZenonT(60)
    <3> QED
      BY <1>2, <3>1, <3>2, ValidIsLocal, SMTT(60)
  <2>4. call.type = "Call"
    BY <1>1, <1>2, ZenonT(60) DEF RightKind
  <2> QED
    BY <1>1, <1>2, <1>3, <2>1, <2>2, <2>3, <2>4, Refused, ZenonT(60)
<1> QED
  BY <1>8, <1>9, ZenonT(60)

\* The batcher refuses a call of a program without an account.
LEMMA ReadCalledLedger ==
  ASSUME RulesHold, LedgerInv, CallsInv', NEW c \in DOMAIN Calls, ReadCalled(c)
  PROVE  LedgerInv' /\ [Promise!Next]_(Promise!vars)
<1> DEFINE call == Calls[c]
           j == job[c]
<1>1. PICK answer : /\ Read("counting", call.to, answer)
                    /\ IF answer = None
                       THEN Goes(c, Job("failed"))
                       ELSE Goes(c, [j EXCEPT !.read = <<answer>>])
                    /\ UNCHANGED <<cache, alive>> /\ j.at = "counting"
  BY Zenon DEF ReadCalled, Fails
<1>2. /\ late' \in {late, late + 1} /\ late \in Nat /\ late' \in Nat /\ (late' = 0 => late = 0)
      /\ answer # LookUp(cache, call.to) => late' > 0
  BY <1>1, ReadIs, Zenon
<1>3. /\ UnderWay(c) /\ CallsInv /\ LedgerStage(call, j, cache, late) /\ IsJob(j)
      /\ IsCall(call) /\ RightKind(call, j.at) /\ StageInv(call, j, cache) /\ JobOK(call, j)
  BY <1>1, CallsConstants, Zenon DEF UnderWay, LedgerInv, CallsInv, TypeInv, JobOK
<1>4. CASE answer = None
  <2>1. Goes(c, Job("failed")) /\ Job("failed").at = "failed"
    BY <1>1, <1>4, Zenon DEF Job
  <2>2. LedgerInv'
    BY <1>1, <1>2, <1>3, <2>1, OtherStage, LedgerOthers, ZenonT(60)
  <2>3. Agree(call, Booked, cache)
    BY <1>1, <1>3, <2>1, BookedAgrees, ZenonT(60)
  <2>4. late' > 0 \/ Booked[call.to] = None
    BY <1>2, <1>3, <1>4, <2>3, TouchedFacts, Zenon DEF Agree, LookUp, IsCall
  <2>5. call.type = "Call"
    BY <1>1, <1>3, ZenonT(60) DEF RightKind
  <2> QED
    BY <1>1, <1>2, <1>3, <2>1, <2>2, <2>4, <2>5, Refused, ZenonT(60)
<1>5. CASE answer # None
  <2> DEFINE to == [j EXCEPT !.read = <<answer>>]
  <2>1. Goes(c, to)
    BY <1>1, <1>5, ZenonT(60)
  <2>2. to.at = "counting"
    BY <1>1, <1>3, ZenonT(60) DEF IsJob
  <2> HIDE DEF to
  <2>3. LedgerStage(call, j, cache', late')
    <3>1. Agree(call, cache, cache')
      BY <1>1, Zenon DEF Agree
    <3> QED
      BY <1>2, <1>3, <3>1, LedgerStageIsLocal, Zenon
  <2>4. LedgerStage(call, to, cache', late')
    BY <1>1, <2>2, <2>3, Zenon DEF LedgerStage
  <2>5. LedgerInv'
    BY <1>1, <1>2, <1>3, <2>1, <2>4, LedgerOthers, Zenon
  <2>6. Accounted' = Accounted
    BY <1>1, <1>3, <2>1, <2>2, NothingWritten, Zenon
  <2> QED
    BY <1>1, <1>2, <1>3, <2>1, <2>2, <2>5, <2>6, Unseen, Zenon
<1> QED
  BY <1>4, <1>5, ZenonT(60)

\* With an empty buffer nothing is applied yet.
LEMMA NothingApplied ==
  ASSUME RulesHold, NEW call, IsCall(call), NEW k, NEW z,
         NEW j, j.at = "applying", j.read = <<>>, j.rest = Operations(call),
         j.buffer = Empty(Addresses)
  PROVE  LedgerStage(call, j, k, z)
<1> DEFINE ops == Operations(call)
<1>1. Len(ops) \in Nat
  BY OperationsInRange, SMTT(60)
<1>2. ASSUME NEW accounts \in Accounts
      PROVE  Performing(call, accounts)[0] = Ok(Overlay(j.buffer, accounts))
  <2>1. Overlay(Empty(Addresses), accounts) = accounts
    BY DEF Overlay, Empty, Accounts
  <2> QED
    BY <1>1, <2>1, PerformingGoesOn
<1> HIDE DEF ops
<1>3. \A m \in 1..Len(j.rest) : j.rest[m] = ops[0 + m]
  BY <1>1 DEF ops
<1>4. 0 \in 0..Len(ops) /\ 0 + Len(j.rest) = Len(ops)
  BY <1>1 DEF ops
<1>5. Applied(call, j.rest, j.buffer, k)
  BY <1>2, <1>3, <1>4, Zenon DEF Applied, ops
<1>6. 1..Len(j.read) = {}
  OBVIOUS
<1> QED
  BY <1>5, <1>6, Zenon DEF LedgerStage

\* The batcher counts the call.
LEMMA IncrementNonceLedger ==
  ASSUME RulesHold, LedgerInv, CallsInv', NEW c \in DOMAIN Calls, IncrementNonce(c)
  PROVE  LedgerInv' /\ [Promise!Next]_(Promise!vars)
<1> DEFINE call == Calls[c]
           j == job[c]
           x == j.read[1]
           y == [x EXCEPT !.nonce = @ + 1]
           to == [Job("applying") EXCEPT !.rest = Operations(call)]
<1>1. /\ j.at = "counting" /\ j.read # <<>> /\ UnderWay(c) /\ UNCHANGED <<alive, late>> /\ alive
      /\ cache' = [cache EXCEPT ![x.self] = y] /\ Goes(c, to)
  BY Zenon DEF IncrementNonce, UnderWay
<1>2. /\ CallsInv /\ LedgerStage(call, j, cache, late) /\ StageInv(call, j, cache)
      /\ IsCall(call) /\ JobOK(call, j) /\ IsBuffer(cache)
  BY CallsConstants, Zenon DEF LedgerInv, CallsInv, TypeInv
<1>3. x \in Account /\ x.self = call.to /\ x = cache[call.to] /\ call.type = "Call"
  BY <1>1, <1>2, Zenon DEF JobOK, StageInv, RightKind
<1>4. to.at = "applying" /\ to.read = <<>> /\ to.rest = Operations(call) /\ to.buffer = Empty(Addresses)
  BY DEF Job
<1> HIDE DEF x, to
<1>5. call.to \in Touched(call) /\ call.to \in Addresses
  BY <1>2, TouchedFacts, Zenon DEF IsCall
<1>6. \A a \in Addresses : cache'[a] = IF a = call.to THEN y ELSE cache[a]
  BY <1>1, <1>2, <1>3, ZenonT(60) DEF IsBuffer
<1>7. \A a \in Addresses : a \notin Touched(call) => cache'[a] = cache[a]
  BY <1>5, <1>6, Zenon
<1>8. LedgerStage(call, to, cache', late')
  BY <1>2, <1>4, NothingApplied, ZenonT(60)
<1>9. LedgerInv'
  BY <1>1, <1>2, <1>7, <1>8, LedgerOthers, ZenonT(60)
<1>10. Moved(c, to)
  BY <1>1, <1>2, <1>7, LedgerMoves, ZenonT(60)
<1>11. Agree(call, Accounted, cache)
  BY <1>1, <1>2, <1>7, AccountedAgrees, ZenonT(60)
<1>12. PICK unread \in SUBSET GetAccountsInvolved(call) :
         (unread # {} => late > 0) /\ Valid(call, Accounted, unread)
  <2>1. PICK unread \in SUBSET GetAccountsInvolved(call) :
          (unread # {} => late > 0) /\ Valid(call, cache, unread)
    BY <1>1, <1>2, Zenon DEF LedgerStage
  <2>2. Valid(call, Accounted, unread)
    BY <1>2, <1>11, <2>1, ValidIsLocal, ZenonT(60)
  <2> QED
    BY <2>1, <2>2, Zenon
<1>13. Outcomes[c] = "none" /\ Outcomes' = [Outcomes EXCEPT ![c] = "counted"]
  BY <1>1, <1>4, <1>10, OutcomeFacts, Zenon DEF Moved
<1>14. Accounted[call.to] = x
  BY <1>3, <1>5, <1>11, Zenon DEF Agree
<1>15. Accounted' = [Accounted EXCEPT ![call.to].nonce = @ + 1]
  <2>1. \A a \in Addresses : Accounted'[a] = IF a = call.to THEN y ELSE Accounted[a]
    BY <1>1, <1>4, <1>5, <1>6, <1>10, Zenon DEF Moved, Mine
  <2>2. /\ Accounted = [a \in Addresses |-> Accounted[a]]
        /\ Accounted' = [a \in Addresses |-> Accounted'[a]]
    BY DEF Accounted
  <2> HIDE DEF y
  <2>3. Accounted' = [Accounted EXCEPT ![call.to] = y]
    BY <1>5, <2>1, <2>2
  <2> QED
    BY <1>14, <2>3, ZenonT(60) DEF y
<1>16. x # None
  BY <1>3, NoneIsNoValue
<1>17. Accounted'[call.to] = y
  BY <1>4, <1>5, <1>6, <1>10, Zenon DEF Moved, Mine
<1>18. Booked = Accounted /\ Booked' = Accounted'
  BY <1>1, BookedIs, Zenon
<1> HIDE DEF y
<1>19. cache' = [cache EXCEPT ![call.to] = Booked'[call.to]]
  BY <1>1, <1>3, <1>17, <1>18, Zenon
<1>20. Promise!Count(c)
  BY <1>1, <1>3, <1>12, <1>13, <1>14, <1>15, <1>16, <1>18, <1>19, Zenon
  DEF Promise!Count, Promise!Outcome
<1> QED
  BY <1>1, <1>9, <1>20, Zenon DEF Promise!Next

\* A read for an operation is true, since it comes in time.
LEMMA ReadNextLedger ==
  ASSUME RulesHold, "applying" \notin LateReads, LedgerInv, CallsInv', NEW c \in DOMAIN Calls,
         ReadNext(c)
  PROVE  LedgerInv' /\ [Promise!Next]_(Promise!vars)
<1> DEFINE call == Calls[c]
           j == job[c]
           o == Head(j.rest)
           r == Reads(call, o)[Len(j.read) + 1]
<1>1. PICK answer :
        /\ ~r.buffered => answer = LookUp(cache, r.name)
        /\ Goes(c, [j EXCEPT !.read = Append(@, answer)])
        /\ UNCHANGED <<cache, alive, late>>
        /\ j.at = "applying" /\ j.rest # <<>>
  BY Zenon DEF ReadNext, Operation, Read, LookUp
<1> DEFINE s == Append(j.read, answer)
           to == [j EXCEPT !.read = Append(@, answer)]
<1>2. /\ UnderWay(c) /\ CallsInv /\ LedgerStage(call, j, cache, late) /\ JobOK(call, j) /\ IsJob(j)
      /\ late \in 0..MaxLate
  BY <1>1, Zenon DEF UnderWay, LedgerInv, CallsInv, TypeInv, JobOK
<1>3. late' \in {late, late + 1}
  BY <1>1
<1>4. j.read \in Seq(Range(j.read))
  BY <1>1, <1>2, Zenon DEF JobOK, ReadFor
<1>5. /\ s[Len(j.read) + 1] = answer
      /\ \A m \in 1..Len(s) : m = Len(j.read) + 1 \/ (m \in 1..Len(j.read) /\ s[m] = j.read[m])
  <2> DEFINE q == j.read
  <2> HIDE DEF j
  <2>1. q \in Seq(Range(q))
    BY <1>4
  <2> HIDE DEF q
  <2>2. LET z == Append(q, answer)
        IN /\ z[Len(q) + 1] = answer
           /\ \A m \in 1..Len(z) : m = Len(q) + 1 \/ (m \in 1..Len(q) /\ z[m] = q[m])
    BY <2>1
  <2> QED
    BY <2>2 DEF q
<1>6. Goes(c, to)
  BY <1>1
<1>7. to.at = "applying" /\ to.read = s /\ to.rest = j.rest /\ to.buffer = j.buffer
  BY <1>1, <1>2, ZenonT(60) DEF IsJob
<1> HIDE DEF to, s
<1>8. ASSUME NEW m \in 1..Len(s), ~Reads(call, o)[m].buffered
      PROVE  s[m] = LookUp(cache, Reads(call, o)[m].name)
  BY <1>1, <1>2, <1>5, <1>8, Zenon DEF LedgerStage
<1>9. LedgerStage(call, to, cache', late')
  BY <1>1, <1>2, <1>7, <1>8, Zenon DEF LedgerStage
<1>10. LedgerInv'
  BY <1>1, <1>2, <1>3, <1>6, <1>9, LedgerOthers, Zenon
<1>11. Accounted' = Accounted
  BY <1>1, <1>2, <1>6, <1>7, NothingWritten, Zenon
<1> QED
  BY <1>1, <1>2, <1>3, <1>6, <1>7, <1>10, <1>11, Unseen, Zenon

\* What the batcher read for an operation is what the operation finds on the accounts.
LEMMA ReadIsSeen ==
  ASSUME RulesHold, NEW call, IsCall(call), NEW j, NEW k, NEW z, JobOK(call, j),
         StageInv(call, j, k), LedgerStage(call, j, k, z), j.at = "applying", j.rest # <<>>,
         Len(j.read) = Len(Reads(call, Head(j.rest))), NEW accounts, Agree(call, accounts, k)
  PROVE  /\ Head(j.rest) \in Range(Operations(call)) /\ Found(call, Head(j.rest), j.read)
         /\ \A n \in 1..Len(Reads(call, Head(j.rest))) :
               j.read[n] = Seen(call, Head(j.rest), j.buffer, accounts, n)
<1> DEFINE o == Head(j.rest)
           reads == Reads(call, o)
<1>1. j.rest \in Seq(Range(Operations(call)))
  BY Zenon DEF StageInv
<1>2. o \in Range(Operations(call))
  BY <1>1
<1>3. IsOperation(o) /\ DOMAIN reads = 1..Len(reads)
  BY <1>2, OperationsInRange, OperationKinds, Zenon
<1>4. Found(call, o, j.read)
  BY Zenon DEF JobOK, ReadFor, Found, IsAccountOf
<1>5. ASSUME NEW n \in 1..Len(reads)
      PROVE  j.read[n] = Seen(call, o, j.buffer, accounts, n)
  <2> DEFINE a == reads[n].name
  <2>1. a \in Addresses => accounts[a] = k[a]
    BY <1>2, <1>3, TouchedFacts, Zenon DEF Agree
  <2>2. n \in 1..Len(j.read)
    BY <1>5, Zenon
  <2>3. reads[n].buffered => j.read[n] = Current(j.buffer, k, a)
    BY <2>2, Zenon DEF StageInv
  <2>4. ~reads[n].buffered => j.read[n] = LookUp(k, a)
    BY <2>2, Zenon DEF LedgerStage
  <2>5. CASE reads[n].buffered
    BY <2>1, <2>3, <2>5, Zenon DEF Seen, LookUp, Overlay, Current
  <2>6. CASE ~reads[n].buffered
    BY <2>1, <2>4, <2>6, Zenon DEF Seen, LookUp
  <2> QED
    BY <2>5, <2>6, ZenonT(60)
<1> QED
  BY <1>2, <1>4, <1>5, ZenonT(60)

\* One more operation on the buffer is one more of performing the call; its failure is one of
\* the call.
LEMMA AppliedNext ==
  ASSUME RulesHold, NEW c \in DOMAIN Calls, NEW j, NEW k, NEW z, JobOK(Calls[c], j),
         StageInv(Calls[c], j, k), LedgerStage(Calls[c], j, k, z), j.at = "applying", j.rest # <<>>,
         Len(j.read) = Len(Reads(Calls[c], Head(j.rest)))
  PROVE  LET call == Calls[c]
             result == ApplyOperation(call, Head(j.rest), j.read)
         IN /\ result.is = "ok" => Applied(call, Tail(j.rest), AddToBuffer(j.buffer, result.value), k)
            /\ result.is # "ok" => \A accounts \in Accounts :
                  Agree(call, accounts, k) => Performed(call, accounts) = result
<1> DEFINE call == Calls[c]
           ops == Operations(call)
           o == Head(j.rest)
           result == ApplyOperation(call, o, j.read)
           b == AddToBuffer(j.buffer, result.value)
<1>1. IsCall(call) /\ ops \in Seq(Range(ops)) /\ j.rest \in Seq(Range(ops))
  BY CallsConstants, OperationsInRange, Zenon DEF StageInv
<1>2. PICK n \in 0..Len(ops) :
        /\ n + Len(j.rest) = Len(ops)
        /\ \A m \in 1..Len(j.rest) : j.rest[m] = ops[n + m]
        /\ \A accounts \in Accounts : Agree(call, accounts, k) =>
              Performing(call, accounts)[n] = Ok(Overlay(j.buffer, accounts))
  BY Zenon DEF LedgerStage, Applied
<1>3. /\ Len(ops) \in Nat /\ Len(j.rest) \in Nat \ {0} /\ o = j.rest[1] /\ o \in Range(ops)
      /\ Len(Tail(j.rest)) = Len(j.rest) - 1
      /\ \A m \in 1..Len(Tail(j.rest)) : Tail(j.rest)[m] = j.rest[m + 1]
  <2> DEFINE S == Range(ops)
             q == j.rest
  <2> HIDE DEF S, ops
  <2>1. ops \in Seq(S) /\ q \in Seq(S) /\ q # <<>>
    BY <1>1, ZenonT(60) DEF S
  <2> HIDE DEF q
  <2>2. /\ Len(ops) \in Nat /\ Len(q) \in Nat \ {0} /\ Head(q) = q[1] /\ Head(q) \in S
        /\ Len(Tail(q)) = Len(q) - 1
        /\ \A m \in 1..Len(Tail(q)) : Tail(q)[m] = q[m + 1]
    BY <2>1, SMTT(60)
  <2> QED
    BY <2>2 DEF S, q
<1>4. n + 1 \in 1..Len(ops) /\ o = ops[n + 1] /\ n + 1 - 1 = n /\ n + 1 \in 0..Len(ops)
  <2> HIDE DEF call, o, ops
  <2> QED
    BY <1>2, <1>3, SMTT(60)
<1>5. IsOperation(o)
  BY <1>1, <1>3, OperationsInRange, Zenon
<1>6. ASSUME NEW accounts \in Accounts, Agree(call, accounts, k)
      PROVE  /\ result.is = "ok" => Performing(call, accounts)[n + 1] = Ok(Overlay(b, accounts))
             /\ result.is # "ok" => Performing(call, accounts)[n + 1] = result
  <2> DEFINE now == Overlay(j.buffer, accounts)
  <2>1. /\ Found(call, o, j.read)
        /\ \A m \in 1..Len(Reads(call, o)) : j.read[m] = Seen(call, o, j.buffer, accounts, m)
    BY <1>1, <1>6, ReadIsSeen, SMTT(60)
  <2>2. /\ result.is = "ok" => Perform(call, o, accounts, now) = Ok(Overlay(b, accounts))
        /\ result.is # "ok" => Perform(call, o, accounts, now) = result
    <3> HIDE DEF call, o, ops
    <3> QED
      BY <1>1, <1>5, <2>1, PerformFacts, SMTT(60)
  <2>3. Performing(call, accounts)[n + 1]
          = PerformStep(call, accounts, Performing(call, accounts)[n + 1 - 1], n + 1)
    <3>1. \A m \in 1..Len(ops) : Performing(call, accounts)[m]
            = PerformStep(call, accounts, Performing(call, accounts)[m - 1], m)
      <4>1. Len(Operations(call)) \in Nat
        BY <1>3, Zenon
      <4> HIDE DEF call, o
      <4> QED
        BY <4>1, PerformingGoesOn, Zenon
    <3>2. n + 1 \in 1..Len(ops)
      BY <1>4, Zenon
    <3> HIDE DEF call, o, ops
    <3> QED
      BY <3>1, <3>2, SMTT(60)
  <2>4. Performing(call, accounts)[n + 1 - 1] = Ok(now)
    BY <1>2, <1>4, <1>6, Zenon
  <2>5. Ok(now).is = "ok" /\ Ok(now).value = now
    BY DEF Ok
  <2>6. Performing(call, accounts)[n + 1] = Perform(call, o, accounts, now)
    BY <1>4, <2>3, <2>4, <2>5, Zenon DEF PerformStep
  <2> QED
    BY <2>2, <2>6, Zenon
<1>7. result.is = "ok" => Applied(call, Tail(j.rest), b, k)
  <2>1. n + 1 + Len(Tail(j.rest)) = Len(ops)
    <3> DEFINE x == Len(Tail(j.rest))
               y == Len(j.rest)
               w == Len(ops)
    <3>1. x = y - 1 /\ n + y = w /\ y \in Nat /\ w \in Nat /\ n \in 0..w
      BY <1>2, <1>3, Zenon
    <3> HIDE DEF x, y, w
    <3>2. n + 1 + x = w
      BY <3>1, SMTT(60)
    <3> QED
      BY <3>2, ZenonT(60) DEF x, w
  <2>2. ASSUME NEW m \in 1..Len(Tail(j.rest))
        PROVE  Tail(j.rest)[m] = ops[n + 1 + m]
    <3> HIDE DEF call, o, ops
    <3>1. m + 1 \in 1..Len(j.rest) /\ n + (m + 1) = n + 1 + m
      BY <1>2, <1>3, SMTT(60)
    <3> QED
      BY <1>2, <1>3, <3>1
  <2> HIDE DEF b, result
  <2>3. \A m \in 1..Len(Tail(j.rest)) : Tail(j.rest)[m] = ops[n + 1 + m]
    BY <2>2
  <2> HIDE DEF ops
  <2> DEFINE p == n + 1
  <2> HIDE DEF p
  <2>4. /\ p \in 0..Len(ops) /\ p + Len(Tail(j.rest)) = Len(ops)
        /\ \A m \in 1..Len(Tail(j.rest)) : Tail(j.rest)[m] = ops[p + m]
    BY <1>4, <2>1, <2>3, Zenon DEF p
  <2>5. result.is = "ok" => \A accounts \in Accounts : Agree(call, accounts, k) =>
          Performing(call, accounts)[p] = Ok(Overlay(b, accounts))
    BY <1>6, Zenon DEF p
  <2> QED
    BY <2>4, <2>5, Zenon DEF Applied, ops
<1>8. result.is # "ok" => \A accounts \in Accounts :
         Agree(call, accounts, k) => Performed(call, accounts) = result
  <2> SUFFICES ASSUME result.is # "ok", NEW accounts \in Accounts, Agree(call, accounts, k)
               PROVE  Performed(call, accounts) = result
    BY Zenon
  <2> HIDE DEF result
  <2>1. Performing(call, accounts)[n + 1] = result
    BY <1>6, Zenon
  <2> DEFINE p == n + 1
  <2>2. p \in 0..Len(Operations(call)) /\ Len(Operations(call)) \in Nat
    BY <1>3, <1>4, Zenon
  <2> HIDE DEF p, call, ops, o
  <2>3. Performing(call, accounts)[p].is # "ok"
    BY <2>1, Zenon DEF p
  <2>4. Performed(call, accounts) = Performing(call, accounts)[p]
    BY <2>2, <2>3, FailureStays, Zenon
  <2> QED
    BY <2>1, <2>4, Zenon DEF p
<1> QED
  BY <1>7, <1>8, Zenon

\* Applying an operation changes nothing in the ledger, or refuses the call.
LEMMA ApplyNextLedger ==
  ASSUME RulesHold, LedgerInv, CallsInv', NEW c \in DOMAIN Calls, ApplyNext(c)
  PROVE  LedgerInv' /\ [Promise!Next]_(Promise!vars)
<1> DEFINE call == Calls[c]
           j == job[c]
           result == ApplyOperation(call, Head(j.rest), j.read)
           b == AddToBuffer(j.buffer, result.value)
           to == [j EXCEPT !.read = <<>>, !.rest = Tail(@), !.buffer = AddToBuffer(@, result.value)]
<1>1. /\ j.at = "applying" /\ j.rest # <<>> /\ Len(j.read) = Len(Reads(call, Head(j.rest)))
      /\ UNCHANGED <<cache, late>> /\ UnderWay(c) /\ alive
      /\ \/ result.is = "ok" /\ Goes(c, to) /\ UNCHANGED alive
         \/ result.is = "err" /\ Goes(c, Job("failed")) /\ UNCHANGED alive
         \/ result.is = "panic" /\ Goes(c, Job("lost")) /\ alive' = FALSE
  BY Zenon DEF ApplyNext, Operation, UnderWay, Fails
<1>2. /\ CallsInv /\ LedgerStage(call, j, cache, late) /\ StageInv(call, j, cache)
      /\ IsCall(call) /\ JobOK(call, j) /\ IsJob(j)
  BY CallsConstants, Zenon DEF LedgerInv, CallsInv, TypeInv, JobOK
<1>3. late' \in {late, late + 1}
  BY <1>1
<1>4. /\ result.is = "ok" => Applied(call, Tail(j.rest), b, cache)
      /\ result.is # "ok" => \A accounts \in Accounts :
            Agree(call, accounts, cache) => Performed(call, accounts) = result
  BY <1>1, <1>2, AppliedNext, ZenonT(60)
<1>5. /\ Job("failed").at = "failed" /\ Job("lost").at = "lost"
  BY DEF Job
<1>6. CASE result.is = "ok" /\ Goes(c, to) /\ UNCHANGED alive
  <2> HIDE DEF result
  <2>1. to.at = "applying" /\ to.read = <<>> /\ to.rest = Tail(j.rest) /\ to.buffer = b
    BY <1>1, <1>2, ZenonT(60) DEF IsJob
  <2> HIDE DEF to, b, j
  <2>2. 1..Len(to.read) = {}
    BY <2>1
  <2>3. LedgerStage(call, to, cache', late')
    BY <1>1, <1>4, <1>6, <2>1, <2>2, Zenon DEF LedgerStage
  <2>4. LedgerInv'
    BY <1>1, <1>2, <1>3, <1>6, <2>3, LedgerOthers, Zenon
  <2>5. Accounted' = Accounted
    BY <1>1, <1>2, <1>6, <2>1, NothingWritten, Zenon DEF j
  <2> QED
    BY <1>1, <1>2, <1>3, <1>6, <2>1, <2>4, <2>5, Unseen, Zenon DEF j
<1>7. CASE result.is = "err" /\ Goes(c, Job("failed")) /\ UNCHANGED alive
  <2>1. LedgerInv'
    BY <1>1, <1>2, <1>3, <1>5, <1>7, OtherStage, LedgerOthers, ZenonT(60)
  <2>2. Accounted' = Accounted
    BY <1>1, <1>2, <1>5, <1>7, NothingWritten, Zenon
  <2>3. Agree(call, Accounted, cache) /\ Accounted \in Accounts
    BY <1>1, <1>2, <1>7, AccountedAgrees, AccountedTypes, ZenonT(60)
  <2>4. Performed(call, Accounted).is = "err"
    BY <1>4, <1>7, <2>3, ZenonT(60)
  <2>5. Moved(c, Job("failed"))
    BY <1>1, <1>2, <1>7, LedgerMoves, ZenonT(60)
  <2>6. Outcomes[c] = "counted" /\ Outcomes' = [Outcomes EXCEPT ![c] = "refused"]
    BY <1>1, <1>5, <2>5, OutcomeFacts, Zenon DEF Moved
  <2>7. Booked = Accounted /\ Booked' = Accounted'
    BY <1>1, <1>7, BookedIs, Zenon
  <2>8. Promise!Refuse(c)
    BY <1>1, <1>7, <2>2, <2>4, <2>6, <2>7, Zenon DEF Promise!Refuse, Promise!Outcome
  <2> QED
    BY <1>3, <2>1, <2>8, Zenon DEF Promise!Next
<1>8. CASE result.is = "panic" /\ Goes(c, Job("lost")) /\ alive' = FALSE
  <2>1. LedgerInv'
    BY <1>1, <1>2, <1>3, <1>5, <1>8, OtherStage, LedgerOthers, ZenonT(60)
  <2>2. Agree(call, Accounted, cache) /\ Accounted \in Accounts
    BY <1>1, <1>2, <1>8, AccountedAgrees, AccountedTypes, ZenonT(60)
  <2>3. Performed(call, Accounted).is = "panic"
    BY <1>4, <1>8, <2>2, ZenonT(60)
  <2>4. Moved(c, Job("lost"))
    BY <1>1, <1>2, <1>8, LedgerMoves, ZenonT(60)
  <2>5. Outcomes[c] = "counted" /\ Outcomes' = [Outcomes EXCEPT ![c] = Outcomes[c]]
    BY <1>1, <1>5, <2>4, OutcomeFacts, Zenon DEF Moved
  <2>6. Outcomes' = Outcomes
    BY <2>5 DEF Outcomes
  <2>7. Booked = Accounted /\ Booked' = cache
    BY <1>1, <1>8, BookedIs, Zenon
  <2>8. Promise!Halt(c)
    BY <1>1, <1>8, <2>3, <2>5, <2>6, <2>7, Zenon DEF Promise!Halt
  <2> QED
    BY <1>3, <2>1, <2>8, Zenon DEF Promise!Next
<1> QED
  BY <1>1, <1>6, <1>7, <1>8, Zenon

\* With the last operation the call is performed, all at once.
LEMMA AllAppliedLedger ==
  ASSUME RulesHold, LedgerInv, CallsInv', NEW c \in DOMAIN Calls, AllApplied(c)
  PROVE  LedgerInv' /\ [Promise!Next]_(Promise!vars)
<1> DEFINE call == Calls[c]
           j == job[c]
           to == [Job("writing") EXCEPT !.buffer = j.buffer]
<1>1. /\ j.at = "applying" /\ j.rest = <<>> /\ Goes(c, to) /\ UNCHANGED <<cache, alive, late>> /\ UnderWay(c) /\ alive
  BY Zenon DEF AllApplied, UnderWay
<1>2. /\ CallsInv /\ LedgerStage(call, j, cache, late) /\ StageInv(call, j, cache)
      /\ IsCall(call) /\ IsBuffer(j.buffer)
  BY CallsConstants, Zenon DEF LedgerInv, CallsInv, TypeInv, JobOK
<1>3. to.at = "writing" /\ to.buffer = j.buffer
  BY <1>2, WritingFacts, Zenon
<1> HIDE DEF to
<1>4. late' \in {late, late + 1}
  BY <1>1
<1>5. LedgerInv'
  BY <1>1, <1>2, <1>3, <1>4, OtherStage, LedgerOthers, ZenonT(60)
<1>6. Moved(c, to)
  BY <1>1, <1>2, LedgerMoves, ZenonT(60)
<1>7. Agree(call, Accounted, cache) /\ Accounted \in Accounts
  BY <1>1, <1>2, AccountedAgrees, AccountedTypes, ZenonT(60)
<1>8. Performed(call, Accounted) = Ok(Overlay(j.buffer, Accounted))
  <2>1. PICK n \in 0..Len(Operations(call)) :
          /\ n + Len(j.rest) = Len(Operations(call))
          /\ Performing(call, Accounted)[n] = Ok(Overlay(j.buffer, Accounted))
    BY <1>1, <1>2, <1>7, Zenon DEF LedgerStage, Applied
  <2>2. Len(Operations(call)) \in Nat /\ Len(j.rest) = 0
    BY <1>1, <1>2, OperationsInRange, SMTT(60)
  <2> DEFINE L == Len(Operations(call))
  <2> HIDE DEF L, j
  <2>3. n = L
    <3>1. n \in 0..L /\ n + 0 = L /\ L \in Nat
      BY <2>1, <2>2, Zenon DEF L
    <3> QED
      BY <3>1, SMTT(60)
  <2> QED
    BY <2>1, <2>3, Zenon DEF Performed, L
<1>9. Accounted' = Overlay(j.buffer, Accounted)
  <2>1. ASSUME NEW a \in Addresses
        PROVE  Accounted'[a] = IF j.buffer[a] # None THEN j.buffer[a] ELSE Accounted[a]
    <3>1. CASE a \in Touched(call)
      BY <1>1, <1>3, <1>6, <1>7, <3>1, Zenon DEF Moved, Mine, Agree
    <3>2. CASE a \notin Touched(call)
      <4>1. j.buffer[a] = None
        BY <1>1, <1>2, <3>2, Zenon DEF StageInv
      <4> QED
        BY <1>6, <3>2, <4>1, Zenon DEF Moved
    <3> QED
      BY <3>1, <3>2, ZenonT(60)
  <2>2. Accounted' = [a \in Addresses |-> Accounted'[a]]
    BY DEF Accounted
  <2> QED
    BY <2>1, <2>2, Zenon DEF Overlay
<1>10. Outcomes[c] = "counted" /\ Outcomes' = [Outcomes EXCEPT ![c] = "applied"]
  BY <1>1, <1>3, <1>6, OutcomeFacts, Zenon DEF Moved
<1>11. /\ Performed(call, Accounted).is = "ok"
       /\ Performed(call, Accounted).value = Overlay(j.buffer, Accounted)
  BY <1>8 DEF Ok
<1>12. Booked = Accounted /\ Booked' = Accounted'
  BY <1>1, BookedIs, Zenon
<1>13. Promise!Apply(c)
  BY <1>1, <1>9, <1>10, <1>11, <1>12, Zenon DEF Promise!Apply, Promise!Outcome
<1> QED
  BY <1>4, <1>5, <1>13, Zenon DEF Promise!Next

\* Writing one account back writes it down in the ledger: it was accounted for.
LEMMA WriteAccountLedger ==
  ASSUME RulesHold, LedgerInv, CallsInv', NEW c \in DOMAIN Calls, NEW a \in Addresses,
         WriteAccount(c, a)
  PROVE  LedgerInv' /\ [Promise!Next]_(Promise!vars)
<1> DEFINE call == Calls[c]
           j == job[c]
           b == Without(j.buffer, a)
           to == [j EXCEPT !.buffer = Without(@, a)]
<1>1. /\ j.at = "writing" /\ j.buffer[a] # None /\ UnderWay(c) /\ UNCHANGED <<alive, late>> /\ alive
      /\ cache' = [cache EXCEPT ![a] = j.buffer[a]] /\ Goes(c, to)
  BY Zenon DEF WriteAccount, UnderWay
<1>2. /\ CallsInv /\ StageInv(call, j, cache) /\ IsBuffer(cache) /\ IsBuffer(j.buffer) /\ IsJob(j)
  BY Zenon DEF LedgerInv, CallsInv, TypeInv, JobOK
<1>3. to.at = "writing" /\ to.buffer = b
  BY <1>1, <1>2, ZenonT(60) DEF IsJob
<1> HIDE DEF to
<1>4. \A d \in Addresses : b[d] = IF d = a THEN None ELSE j.buffer[d]
  BY <1>2, Zenon DEF IsBuffer, Without
<1>5. \A d \in Addresses : cache'[d] = IF d = a THEN j.buffer[d] ELSE cache[d]
  BY <1>1, <1>2, Zenon DEF IsBuffer
<1> HIDE DEF b
<1>6. a \in Touched(call)
  BY <1>1, <1>2, Zenon DEF StageInv
<1>7. \A d \in Addresses : d \notin Touched(call) => cache'[d] = cache[d]
  BY <1>5, <1>6, Zenon
<1>8. late' \in {late, late + 1}
  BY <1>1
<1>9. LedgerInv'
  BY <1>1, <1>3, <1>7, <1>8, OtherStage, LedgerOthers, ZenonT(60)
<1>10. \A d \in Addresses : Mine(to, cache', d) = Mine(job[c], cache, d)
  BY <1>1, <1>3, <1>4, <1>5, Zenon DEF Mine
<1>11. Accounted' = Accounted
  BY <1>1, <1>2, <1>7, <1>10, LedgerStays, ZenonT(60)
<1>12. Moved(c, to)
  BY <1>1, <1>2, <1>7, LedgerMoves, ZenonT(60)
<1>13. Outcomes' = Outcomes
  <2>1. Outcomes' = [Outcomes EXCEPT ![c] = Outcomes[c]]
    BY <1>1, <1>3, <1>12, Zenon DEF Moved
  <2> QED
    BY <2>1 DEF Outcomes
<1>14. Booked = Accounted /\ Booked' = Accounted'
  BY <1>1, BookedIs, Zenon
<1>15. Booked[a] = j.buffer[a]
  BY <1>1, <1>6, <1>12, <1>14, Zenon DEF Moved, Mine
<1>16. Promise!Write(a)
  BY <1>1, <1>11, <1>13, <1>14, <1>15, Zenon DEF Promise!Write
<1>17. a \in DOMAIN Booked
  BY <1>2, BookedTypes, Zenon
<1> QED
  BY <1>8, <1>9, <1>16, <1>17, Zenon DEF Promise!Next

\* The answer is given when all is written.
LEMMA AnswerLedger ==
  ASSUME RulesHold, LedgerInv, CallsInv', NEW c \in DOMAIN Calls,
         AnswerCall(c) \/ AnswerRegistration(c)
  PROVE  LedgerInv' /\ [Promise!Next]_(Promise!vars)
<1> DEFINE to == Job("applied")
<1>1. /\ job[c].at = "writing" /\ job[c].buffer = Empty(Addresses) /\ UnderWay(c)
      /\ UNCHANGED <<cache, alive>> /\ Goes(c, to) /\ alive
      /\ late' = late \/ \E answer : Read("answering", Calls[c].from, answer)
  BY Zenon DEF AnswerCall, AnswerRegistration, UnderWay
<1>2. late' \in {late, late + 1}
  BY <1>1, ReadIs, ZenonT(60)
<1>3. to.at = "applied" /\ CallsInv
  BY DEF Job, LedgerInv
<1> HIDE DEF to
<1>4. LedgerInv'
  BY <1>1, <1>2, <1>3, OtherStage, LedgerOthers, ZenonT(60)
<1>5. \A a \in Addresses : Mine(to, cache', a) = Mine(job[c], cache, a)
  BY <1>1, <1>3, Zenon DEF Mine, Empty
<1>6. Accounted' = Accounted
  BY <1>1, <1>3, <1>5, LedgerStays, ZenonT(60)
<1>7. Moved(c, to)
  BY <1>1, <1>3, LedgerMoves, ZenonT(60)
<1>8. Outcomes[c] = "applied" /\ Outcomes' = [Outcomes EXCEPT ![c] = "answered"]
  BY <1>1, <1>3, <1>7, OutcomeFacts, Zenon DEF Moved
<1>9. Booked = Accounted /\ Booked' = Accounted'
  BY <1>1, BookedIs, Zenon
<1>10. \A a \in DOMAIN Booked : a \in Touched(Calls[c]) => cache[a] = Booked[a]
  BY <1>1, <1>3, <1>7, <1>9, BookedTypes, Zenon DEF Moved, Mine, Empty
<1>11. Promise!Answer(c)
  BY <1>1, <1>6, <1>8, <1>9, <1>10, Zenon DEF Promise!Answer, Promise!Outcome
<1> QED
  BY <1>2, <1>4, <1>11, Zenon DEF Promise!Next

\* A program is registered at once, or refused.
LEMMA RegisterProgramLedger ==
  ASSUME RulesHold, LedgerInv, CallsInv', NEW c \in DOMAIN Calls, RegisterProgram(c)
  PROVE  LedgerInv' /\ [Promise!Next]_(Promise!vars)
<1> DEFINE call == Calls[c]
           x == FreshProgram(call.to, call.from, call.metadata)
           Y(answer) == [answer EXCEPT !.nonce = @ + 1]
           B(answer) == AddToBuffer(Empty(Addresses), <<x, Y(answer)>>)
<1>1. PICK answer :
        /\ Read("registering", call.from, answer)
        /\ IF answer = None \/ ~call.wellFormed
           THEN Goes(c, Job("failed"))
           ELSE Goes(c, [Job("writing") EXCEPT !.buffer = B(answer)])
        /\ UNCHANGED <<cache, alive>> /\ job[c].at = "registering" /\ alive
  BY Zenon DEF RegisterProgram, Job, Fails
<1>2. /\ late' \in {late, late + 1} /\ (answer # None => answer = LookUp(cache, call.from))
      /\ answer # LookUp(cache, call.from) => late' > 0
  BY <1>1, ReadIs, Zenon
<1>3. /\ UnderWay(c) /\ CallsInv /\ TypeInv /\ IsCall(call) /\ call.type = "RegisterProgram"
  BY <1>1, CallsConstants, Zenon DEF UnderWay, LedgerInv, CallsInv, TypeInv, JobOK, RightKind
<1>4. /\ call.from \in Addresses /\ call.to \in Addresses /\ call.from # call.to
      /\ call.from \in Touched(call) /\ call.to \in Touched(call)
  BY <1>3, CallersAreUsers, TouchedFacts, Zenon DEF IsCall
<1>5. CASE answer = None \/ ~call.wellFormed
  <2>1. Goes(c, Job("failed")) /\ Job("failed").at = "failed"
    BY <1>1, <1>5, Zenon DEF Job
  <2>2. LedgerInv'
    BY <1>1, <1>2, <1>3, <2>1, OtherStage, LedgerOthers, ZenonT(60)
  <2>3. Agree(call, Booked, cache)
    BY <1>1, <1>3, <2>1, BookedAgrees, ZenonT(60)
  <2>4. late' > 0 \/ Booked[call.from] = None \/ ~call.wellFormed
    BY <1>2, <1>4, <1>5, <2>3, Zenon DEF Agree, LookUp
  <2> QED
    BY <1>1, <1>2, <1>3, <2>1, <2>2, <2>4, Refused, ZenonT(60)
<1>6. CASE ~(answer = None \/ ~call.wellFormed)
  <2> DEFINE y == Y(answer)
             b == B(answer)
             to == [Job("writing") EXCEPT !.buffer = b]
  <2>1. answer \in Account /\ answer.self = call.from /\ answer = cache[call.from]
    <3>1. answer \in Account /\ answer.self = call.from
      <4>1. IsAccountOf(answer, call.from)
        BY <1>1, <1>3, ReadFacts, ZenonT(60)
      <4> QED
        BY <1>6, <4>1, Zenon DEF IsAccountOf
    <3> QED
      BY <1>2, <1>4, <1>6, <3>1, Zenon DEF LookUp
  <2>2. y \in Account /\ y.self = call.from
    BY <2>1, SMTT(60) DEF Account
  <2>3. x \in Account /\ x.self = call.to
    BY <1>3, <1>4, FreshFacts, ZenonT(60) DEF IsCall
  <2>4. Goes(c, to)
    BY <1>1, <1>6, ZenonT(60)
  <2>5. IsBuffer(b)
    BY <1>3, <1>6, <2>1, RegistrationBuffer, ZenonT(60) DEF IsAccountOf
  <2> HIDE DEF x, y
  <2>6. b = [a \in Addresses |-> IF a = call.to THEN x
                                 ELSE IF a = call.from THEN y ELSE Empty(Addresses)[a]]
    <3>1. x.self # y.self
      BY <1>4, <2>2, <2>3, ZenonT(60)
    <3>2. AddToBuffer(Empty(Addresses), <<x, y>>)
            = [a \in Addresses |-> IF a = x.self THEN x
                                   ELSE IF a = y.self THEN y ELSE Empty(Addresses)[a]]
      BY <3>1, AddTwo, SMTT(60)
    <3> QED
      BY <2>2, <2>3, <3>2, Zenon DEF y
  <2> HIDE DEF b
  <2>7. to.at = "writing" /\ to.buffer = b
    BY <2>5, WritingFacts, Zenon
  <2> HIDE DEF to
  <2>8. LedgerInv'
    BY <1>1, <1>2, <1>3, <2>4, <2>7, OtherStage, LedgerOthers, ZenonT(60)
  <2>9. Moved(c, to) /\ Agree(call, Accounted, cache)
    BY <1>1, <1>3, <2>4, LedgerMoves, AccountedAgrees, ZenonT(60)
  <2>10. Accounted[call.from] = answer /\ answer # None
    BY <1>4, <1>6, <2>1, <2>9, Zenon DEF Agree
  <2>11. \A a \in Addresses : b[a] = IF a = call.to THEN x ELSE IF a = call.from THEN y ELSE None
    BY <2>6, Zenon DEF Empty
  <2>12. x # None /\ y # None
    BY <2>2, <2>3, NoneIsNoValue, ZenonT(60)
  <2>13. ASSUME NEW a \in Addresses
         PROVE  Accounted'[a] = IF a = call.to THEN x ELSE IF a = call.from THEN y ELSE Accounted[a]
    <3>1. CASE a \in Touched(call)
      <4>1. Accounted'[a] = IF b[a] # None THEN b[a] ELSE cache'[a]
        BY <2>7, <2>9, <3>1, Zenon DEF Moved, Mine
      <4>2. Accounted[a] = cache'[a]
        BY <1>1, <2>9, <3>1, Zenon DEF Agree
      <4> QED
        BY <2>11, <2>12, <4>1, <4>2, Zenon
    <3>2. CASE a \notin Touched(call)
      BY <1>4, <2>9, <3>2, Zenon DEF Moved
    <3> QED
      BY <3>1, <3>2, ZenonT(60)
  <2>14. Accounted' = Registered(call, Accounted)
    <3>1. /\ Accounted = [a \in Addresses |-> Accounted[a]]
          /\ Accounted' = [a \in Addresses |-> Accounted'[a]]
      BY DEF Accounted
    <3>2. Accounted' = [Accounted EXCEPT ![call.to] = x, ![call.from] = y]
      BY <1>4, <2>13, <3>1, ZenonT(60)
    <3>3. [Accounted EXCEPT ![call.to] = x][call.from] = answer
      BY <1>4, <2>10, <3>1, ZenonT(60)
    <3>4. [Accounted EXCEPT ![call.to] = x, ![call.from].nonce = @ + 1]
            = [Accounted EXCEPT ![call.to] = x, ![call.from] = y]
      BY <2>10, <3>3, Zenon DEF y
    <3> QED
      BY <3>2, <3>4, Zenon DEF Registered, x
  <2>15. Outcomes[c] = "none" /\ Outcomes' = [Outcomes EXCEPT ![c] = "applied"]
    BY <1>1, <2>7, <2>9, OutcomeFacts, Zenon DEF Moved
  <2>16. Booked = Accounted /\ Booked' = Accounted'
    BY <1>1, BookedIs, Zenon
  <2>17. Promise!Register(c)
    BY <1>1, <1>3, <1>6, <2>10, <2>14, <2>15, <2>16, Zenon DEF Promise!Register, Promise!Outcome
  <2> QED
    BY <1>2, <2>8, <2>17, Zenon DEF Promise!Next
<1> QED
  BY <1>5, <1>6, ZenonT(60)

\* Submitting a call changes nothing in the ledger.
LEMMA SubmitLedger ==
  ASSUME LedgerInv, CallsInv', NEW c \in DOMAIN Calls, Submit(c)
  PROVE  LedgerInv' /\ [Promise!Next]_(Promise!vars)
<1> DEFINE at == IF Calls[c].type = "Call" THEN "checking" ELSE "registering"
<1>1. Goes(c, Job(at)) /\ UNCHANGED <<cache, alive, late>> /\ job[c].at = "idle"
  BY Zenon DEF Submit
<1>2. /\ job'[c] = Job(at)
      /\ \A d \in DOMAIN Calls : d # c => job'[d] = job[d]
  BY <1>1, GoesFacts, ZenonT(60) DEF CallsInv, LedgerInv
<1>3. Job(at).at = at /\ Job(at).accounts = <<>> /\ at \in {"checking", "registering"}
  BY DEF Job
<1> HIDE DEF at
<1>4. LedgerStage(Calls[c], Job(at), cache, late)
  <2>1. DOMAIN <<>> = {} /\ <<>> = [n \in DOMAIN <<>> |-> <<>>[n]]
    OBVIOUS
  <2>2. CASE at = "checking"
    BY <1>3, <2>1, <2>2 DEF LedgerStage
  <2>3. CASE at = "registering"
    BY <1>3, <2>3, Zenon DEF LedgerStage
  <2> QED
    BY <1>3, <2>2, <2>3, ZenonT(60)
<1>5. \A d \in DOMAIN Calls : LedgerStage(Calls[d], job'[d], cache', late')
  BY <1>1, <1>2, <1>4, Zenon DEF LedgerInv
<1>6. LedgerInv'
  BY <1>5, Zenon DEF LedgerInv
<1>7. Accounted' = Accounted
  <2>1. \A a \in Addresses, d \in DOMAIN Calls :
          /\ Writes(job', d, a) <=> Writes(job, d, a)
          /\ Writes(job, d, a) => job'[d] = job[d]
    BY <1>1, <1>2, <1>3, ZenonT(60) DEF Writes
  <2>2. ASSUME NEW a \in Addresses
        PROVE  Settled(cache', job')[a] = Settled(cache, job)[a]
    <3>1. (CHOOSE d \in DOMAIN Calls : Writes(job', d, a))
            = CHOOSE d \in DOMAIN Calls : Writes(job, d, a)
      BY <2>1
    <3>2. CASE \E d \in DOMAIN Calls : Writes(job, d, a)
      <4>1. PICK w \in DOMAIN Calls : Writes(job, w, a) /\ w = CHOOSE d \in DOMAIN Calls : Writes(job, d, a)
        BY <3>2, Zenon
      <4>2. \E d \in DOMAIN Calls : Writes(job', d, a)
        BY <2>1, <3>2, Zenon
      <4>3. Settled(cache', job')[a] = job'[w].buffer[a] /\ Settled(cache, job)[a] = job[w].buffer[a]
        BY <3>1, <3>2, <4>1, <4>2, Zenon DEF Settled
      <4> QED
        BY <2>1, <4>1, <4>3, Zenon
    <3>3. CASE ~\E d \in DOMAIN Calls : Writes(job, d, a)
      <4>1. ~\E d \in DOMAIN Calls : Writes(job', d, a)
        BY <2>1, <3>3, Zenon
      <4> QED
        BY <1>1, <3>3, <4>1, Zenon DEF Settled
    <3> QED
      BY <3>2, <3>3, ZenonT(60)
  <2>3. /\ Settled(cache, job) = [a \in Addresses |-> Settled(cache, job)[a]]
        /\ Settled(cache', job') = [a \in Addresses |-> Settled(cache', job')[a]]
    BY DEF Settled
  <2>4. Settled(cache', job') = Settled(cache, job)
    BY <2>2, <2>3, Zenon
  <2> QED
    BY <2>4, AccountedIsSettled, Zenon
<1>8. Outcomes' = Outcomes
  <2>1. OutcomeAt("idle") = "none" /\ OutcomeAt(at) = "none"
    BY <1>3 DEF OutcomeAt
  <2>2. \A d \in DOMAIN Calls : OutcomeAt(job'[d].at) = OutcomeAt(job[d].at)
    BY <1>1, <1>2, <1>3, <2>1, Zenon
  <2> QED
    BY <2>2, Zenon DEF Outcomes
<1>9. Booked' = Booked
  BY <1>1, <1>7, Zenon DEF Booked
<1> QED
  BY <1>1, <1>6, <1>8, <1>9, Zenon DEF Promise!vars

\* At the start the ledger has the accounts of the start, and no call has an outcome.
LEMMA LedgerInvInit ==
  Init => LedgerInv /\ Promise!Init
<1> SUFFICES ASSUME Init PROVE LedgerInv /\ Promise!Init
  OBVIOUS
<1>1. /\ CallsInv /\ cache = Genesis /\ late = 0 /\ alive = TRUE
      /\ \A c \in DOMAIN Calls : job[c].at = "idle"
  BY CallsInvInit, ZenonT(60) DEF Init, Job
<1>2. LedgerInv
  BY <1>1, Zenon DEF LedgerInv, LedgerStage
<1>3. Outcomes = [c \in DOMAIN Calls |-> "none"]
  <2>1. OutcomeAt("idle") = "none"
    BY DEF OutcomeAt
  <2> QED
    BY <1>1, <2>1, Zenon DEF Outcomes
<1>4. Accounted = Genesis
  <2>1. Genesis = [a \in Addresses |-> Genesis[a]]
    BY CallsConstants
  <2>2. Accounted = [a \in Addresses |-> cache[a]]
    BY <1>1 DEF Accounted
  <2> QED
    BY <1>1, <2>1, <2>2, Zenon
<1>5. Booked = Genesis
  BY <1>1, <1>4, Zenon DEF Booked
<1> QED
  BY <1>1, <1>2, <1>3, <1>5, Zenon DEF Promise!Init

\* Every step is a step of the ledger, or none.
LEMMA LedgerStep ==
  ASSUME RulesHold, "applying" \notin LateReads, LedgerInv, [Next]_vars
  PROVE  LedgerInv' /\ [Promise!Next]_(Promise!vars)
<1>1. RulesHold /\ CallsInv'
  BY CallsInvStep DEF LedgerInv
<1>2. CASE UNCHANGED vars
  <2>1. UNCHANGED <<cache, job, alive, late>>
    BY <1>2, Zenon DEF vars
  <2>2. Booked' = Booked /\ Outcomes' = Outcomes
    BY <2>1, Zenon DEF Booked, Accounted, Outcomes
  <2> QED
    BY <1>1, <2>1, <2>2, Zenon DEF LedgerInv, Promise!vars
<1>3. ASSUME NEW c \in DOMAIN Calls, Submit(c)
      PROVE  LedgerInv' /\ [Promise!Next]_(Promise!vars)
  BY <1>1, <1>3, SubmitLedger, ZenonT(60)
<1>4. ASSUME NEW c \in DOMAIN Calls, Step(c)
      PROVE  LedgerInv' /\ [Promise!Next]_(Promise!vars)
  <2>1. CASE PendingCall(c)
    BY <1>1, <2>1, PendingCallLedger, ZenonT(60)
  <2>2. CASE Validate(c)
    BY <1>1, <2>2, ValidateLedger, ZenonT(60)
  <2>3. CASE ReadCalled(c)
    BY <1>1, <2>3, ReadCalledLedger
  <2>4. CASE IncrementNonce(c)
    BY <1>1, <2>4, IncrementNonceLedger
  <2>5. CASE ReadNext(c)
    BY <1>1, <2>5, ReadNextLedger, ZenonT(60)
  <2>6. CASE ApplyNext(c)
    BY <1>1, <2>6, ApplyNextLedger
  <2>7. CASE AllApplied(c)
    BY <1>1, <2>7, AllAppliedLedger
  <2>8. ASSUME NEW a \in Addresses, WriteAccount(c, a)
        PROVE  LedgerInv' /\ [Promise!Next]_(Promise!vars)
    BY <1>1, <2>8, WriteAccountLedger, ZenonT(60)
  <2>9. CASE AnswerCall(c) \/ AnswerRegistration(c)
    BY <1>1, <2>9, AnswerLedger, ZenonT(60)
  <2>10. CASE RegisterProgram(c)
    BY <1>1, <2>10, RegisterProgramLedger
  <2> QED
    BY <1>4, <2>1, <2>2, <2>3, <2>4, <2>5, <2>6, <2>7, <2>8, <2>9, <2>10, Zenon DEF Step
<1> QED
  BY <1>2, <1>3, <1>4, Zenon DEF Next
=============================================================================
