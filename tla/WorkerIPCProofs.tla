--------------------------- MODULE WorkerIPCProofs ---------------------------
(***************************************************************************)
(* Proofs about the worker protocol, for every number of workers, every    *)
(* set of commands and every length of the program of rank 0.              *)
(***************************************************************************)
EXTENDS WorkerIPC, TLAPS, SequenceTheorems, NaturalsInduction, WellFoundedInduction

Command == Methods \cup {"exit"}

IPCTypeOK ==
  /\ issued \in Seq(Command)
  /\ length \in Nat /\ data \in Nat
  /\ event \in [Workers -> BOOLEAN]
  /\ mpc \in {"idle", "length", "data", "events", "execute", "result", "exited"}
  /\ setting \in Workers
  /\ wpc \in [Workers -> {"wait", "size", "read", "clear", "execute", "barrier", "met",
                          "exited", "raised"}]
  /\ sized \in [Workers -> Nat] /\ got \in [Workers -> Nat]
  /\ log \in [Workers -> Seq(Nat)]
  /\ todo \in [Workers -> Nat]
  /\ coll \in [Ranks -> Seq({"all_reduce", "barrier"})]

(***************************************************************************)
(* What the buffer holds, and what a worker that was woken finds in it.    *)
(* This much is true even where commands are lost.                         *)
(***************************************************************************)
BufferInv ==
  /\ mpc # "idle" => issued # << >>
  /\ length = Len(issued) - (IF mpc = "length" THEN 1 ELSE 0)
  /\ data = Len(issued) - (IF mpc \in {"length", "data"} THEN 1 ELSE 0)
  /\ \A w \in Workers :
       /\ got[w] <= data
       /\ event[w] \/ wpc[w] \in {"size", "read"} => data >= 1
       /\ wpc[w] \in {"clear", "execute", "barrier", "met"} => got[w] >= 1
       /\ \A i \in DOMAIN log[w] : log[w][i] <= got[w]

(***************************************************************************)
(* While the ranks stay in step after every command.  n is the number of commands *)
(* issued; a rank has entered the collectives of the first n - 1 or of all *)
(* n, and a worker that is one behind is on its way: not woken yet, woken, *)
(* reading, or executing command n.                                        *)
(***************************************************************************)
Lossless == \A i \in DOMAIN issued : ~Unpaired(issued[i])

Entered(r, k) == Len(coll[r]) = k /\ \A i \in 1 .. k : coll[r][i] = CollectiveOf(issued[i])
Received(w, k) == Len(log[w]) = k /\ \A i \in 1 .. k : log[w][i] = i
Called(w) == mpc \in {"execute", "result"} \/ (mpc = "events" /\ w < setting)
AtRest(w, k) == \/ wpc[w] = "wait"
                \/ wpc[w] \in {"met", "barrier"} /\ todo[w] = 0 /\ got[w] = k

Done(w, n) ==
  /\ Entered(w, n) /\ Received(w, n) /\ ~event[w]
  /\ AtRest(w, n) \/ (wpc[w] = "exited" /\ n > 0 /\ issued[n] = "exit")
  /\ mpc \in {"idle", "exited"} \/ Called(w)

Unaware(w, n) ==
  /\ mpc \in {"length", "data", "events"} /\ ~Called(w)
  /\ ~event[w] /\ Received(w, n - 1) /\ AtRest(w, n - 1)

Reading(w, n) ==
  /\ Called(w) /\ event[w] /\ Received(w, n - 1)
  /\ \/ AtRest(w, n - 1) \/ wpc[w] = "size"
     \/ wpc[w] = "read" /\ sized[w] = n
     \/ wpc[w] = "clear" /\ got[w] = n

Executing(w, n) ==
  /\ Called(w) /\ ~event[w] /\ got[w] = n
  /\ \/ wpc[w] = "execute" /\ Received(w, n - 1)
     \/ wpc[w] = "barrier" /\ todo[w] = 1 /\ Received(w, n) /\ issued[n] \in {"sync", "exit"}

Behind(w, n) ==
  n > 0 /\ Entered(w, n - 1) /\ (Unaware(w, n) \/ Reading(w, n) \/ Executing(w, n))

MasterInv(n) ==
  /\ Entered(0, IF mpc \in {"result", "idle", "exited"} THEN n ELSE n - 1)
  /\ mpc = "exited" => issued[n] = "exit"
  /\ \A i \in DOMAIN issued : issued[i] = "exit" => i = n /\ mpc # "idle"

LosslessInv ==
  Lossless => /\ MasterInv(Len(issued))
              /\ \A w \in Workers : Done(w, Len(issued)) \/ Behind(w, Len(issued))

(***************************************************************************)
(* Once a command was issued that unpairs the ranks: every worker has      *)
(* executed the commands before it, and executes none of them again.       *)
(***************************************************************************)
LossyWorker(w, k) ==
  /\ k <= Len(log[w])
  /\ \A i \in DOMAIN log[w] : IF i <= k THEN log[w][i] = i ELSE log[w][i] > k
  /\ event[w] \/ wpc[w] \in {"size", "read"} => data > k
  /\ wpc[w] \in {"clear", "execute"} => got[w] > k

LossyInv == ~Lossless => \A w \in Workers : LossyWorker(w, Kept)

IPCInv == IPCTypeOK /\ BufferInv /\ LosslessInv /\ LossyInv

-----------------------------------------------------------------------------
(* Types. *)
LEMMA TypeInit == Init => IPCTypeOK
BY IPCAssumption DEF Init, IPCTypeOK, Workers, Ranks, Command

LEMMA TypeNext == IPCTypeOK /\ [Next]_vars => IPCTypeOK'
<1> SUFFICES ASSUME IPCTypeOK, [Next]_vars PROVE IPCTypeOK'
  OBVIOUS
<1> USE DEF IPCTypeOK, masterVars, workerVars
<1>0. CellCount \in Nat
  BY IPCAssumption
<1>1. ASSUME NEW c \in Methods \cup {"exit"}, Call(c) PROVE IPCTypeOK'
  BY <1>1 DEF Call, Command
<1>2. CASE WriteLength BY <1>2 DEF WriteLength
<1>3. CASE WriteData
  <2>1. 1 \in Workers
    BY IPCAssumption DEF Workers
  <2> QED BY <1>3, <2>1 DEF WriteData
<1>4. CASE SetEvent
  <2>1. setting' \in Workers
    BY <1>4, IPCAssumption DEF SetEvent, Workers
  <2>2. event' \in [Workers -> BOOLEAN]
    BY <1>4 DEF SetEvent
  <2> QED BY <1>4, <2>1, <2>2 DEF SetEvent
<1>5. CASE Execute
  <2>1. \A c : Append(coll[0], CollectiveOf(c)) \in Seq({"all_reduce", "barrier"})
    BY IPCAssumption DEF CollectiveOf, Ranks
  <2> QED BY <1>5, <2>1 DEF Execute
<1>6. CASE Return BY <1>6 DEF Return
<1>7. ASSUME NEW w \in Workers, Worker(w) PROVE IPCTypeOK'
  <2>1. CASE WaitEvent(w) BY <2>1 DEF WaitEvent
  <2>2. CASE ReadLength(w) BY <2>2 DEF ReadLength
  <2>3. CASE ReadData(w) BY <2>3 DEF ReadData
  <2>4. CASE ReadTorn(w) BY <2>4 DEF ReadTorn
  <2>5. CASE Clear(w) BY <2>5 DEF Clear
  <2>0. /\ \A c \in {"all_reduce", "barrier"} : Append(coll[w], c) \in Seq({"all_reduce", "barrier"})
        /\ Append(log[w], got[w]) \in Seq(Nat)
    BY IPCAssumption DEF Ranks, Workers
  <2>6. CASE ExecuteMethod(w)
    <3>1. coll' \in [Ranks -> Seq({"all_reduce", "barrier"})]
      BY <2>0, <2>6 DEF ExecuteMethod
    <3> QED BY <2>0, <2>6, <3>1 DEF ExecuteMethod
  <2>7. CASE ExecuteBarriers(w) BY <1>0, <2>0, <2>7 DEF ExecuteBarriers
  <2>8. CASE EnterBarrier(w)
    <3>1. coll' \in [Ranks -> Seq({"all_reduce", "barrier"})]
      BY <2>0, <2>8 DEF EnterBarrier
    <3>2. todo' \in [Workers -> Nat]
      <4>1. todo[w] - 1 \in Nat
        BY <2>8 DEF EnterBarrier
      <4> QED BY <2>8, <4>1 DEF EnterBarrier
    <3> QED BY <2>8, <3>1, <3>2 DEF EnterBarrier
  <2>9. CASE LeaveBarrier(w) BY <2>9 DEF LeaveBarrier
  <2>10. CASE EndBarriers(w) BY <2>10 DEF EndBarriers
  <2> QED BY <1>7, <2>1, <2>2, <2>3, <2>4, <2>5, <2>6, <2>7, <2>8, <2>9, <2>10 DEF Worker
<1>8. CASE UNCHANGED vars BY <1>8 DEF vars
<1> QED BY <1>1, <1>2, <1>3, <1>4, <1>5, <1>6, <1>7, <1>8 DEF Next, Master

-----------------------------------------------------------------------------
(* The buffer. *)
LEMMA BufferInit == Init => BufferInv
BY DEF Init, BufferInv

(* Facts about sequences and commands that the provers are told once. *)
LEMMA AppendFacts ==
  ASSUME NEW S, NEW s \in Seq(S), NEW e \in S
  PROVE  /\ Append(s, e) \in Seq(S) /\ Append(s, e) # << >>
         /\ Len(Append(s, e)) = Len(s) + 1
         /\ \A i \in 1 .. Len(s) : Append(s, e)[i] = s[i]
         /\ Append(s, e)[Len(s) + 1] = e
OBVIOUS

LEMMA LogType ==
  ASSUME IPCTypeOK, NEW w \in Workers
  PROVE  /\ log[w] \in Seq(Nat) /\ DOMAIN log[w] = 1 .. Len(log[w]) /\ Len(log[w]) \in Nat
         /\ \A i \in DOMAIN log[w] : log[w][i] \in Nat
         /\ got[w] \in Nat /\ sized[w] \in Nat
<1>1. log[w] \in Seq(Nat) /\ got[w] \in Nat /\ sized[w] \in Nat
  BY DEF IPCTypeOK
<1> QED BY <1>1

LEMMA BufferNext == IPCTypeOK /\ BufferInv /\ [Next]_vars => BufferInv'
<1> SUFFICES ASSUME IPCTypeOK, BufferInv, [Next]_vars PROVE BufferInv'
  OBVIOUS
<1> USE DEF IPCTypeOK, BufferInv, masterVars, workerVars
<1>1. ASSUME NEW c \in Methods \cup {"exit"}, Call(c) PROVE BufferInv'
  <2>1. issued' # << >> /\ Len(issued') = Len(issued) + 1
    BY <1>1, AppendFacts, c \in Command DEF Call, Command
  <2> QED BY <1>1, <2>1 DEF Call
<1>2. CASE WriteLength BY <1>2 DEF WriteLength
<1>3. CASE WriteData
  <2>1. Len(issued) \in Nat /\ data <= Len(issued) /\ Len(issued) >= 1
    BY <1>3 DEF WriteData
  <2>2. issued' = issued /\ data' = Len(issued) /\ length' = length /\ mpc' = "events"
    BY <1>3 DEF WriteData
  <2>3. ASSUME NEW w \in Workers
        PROVE  /\ got'[w] <= data'
               /\ \A i \in DOMAIN log'[w] : log'[w][i] <= got'[w]
    BY <1>3, <2>1, <2>2 DEF WriteData
  <2>4. ASSUME NEW w \in Workers
        PROVE  wpc'[w] \in {"clear", "execute", "barrier", "met"} => got'[w] >= 1
    BY <1>3 DEF WriteData
  <2> QED BY <1>3, <2>1, <2>2, <2>3, <2>4 DEF WriteData
<1>4. CASE SetEvent BY <1>4 DEF SetEvent
<1>5. CASE Execute BY <1>5 DEF Execute
<1>6. CASE Return BY <1>6 DEF Return
<1>7. ASSUME NEW w \in Workers, Worker(w) PROVE BufferInv'
  <2>1. CASE WaitEvent(w) BY <2>1 DEF WaitEvent
  <2>2. CASE ReadLength(w) BY <2>2 DEF ReadLength
  <2>3. CASE ReadData(w)
    <3>1. ASSUME NEW v \in Workers, NEW i \in DOMAIN log[v] PROVE log[v][i] <= data
      <4>1. log[v][i] \in Nat /\ got[v] \in Nat
        BY LogType
      <4>2. data \in Nat /\ got[v] <= data /\ log[v][i] <= got[v]
        OBVIOUS
      <4> HIDE DEF IPCTypeOK, BufferInv
      <4> QED BY <4>1, <4>2
    <3>2. /\ wpc' = [wpc EXCEPT ![w] = "clear"] /\ got' = [got EXCEPT ![w] = data] /\ data >= 1
          /\ UNCHANGED <<issued, length, data, mpc, event, log>>
      BY <2>3 DEF ReadData
    <3>3. \A v \in Workers : \A i \in DOMAIN log[v] : log[v][i] <= got'[v]
      BY <3>1, <3>2
    <3>4. \A v \in Workers :
            /\ got'[v] <= data
            /\ event[v] \/ wpc'[v] \in {"size", "read"} => data >= 1
            /\ wpc'[v] \in {"clear", "execute", "barrier", "met"} => got'[v] >= 1
      <4>1. data \in Nat /\ DOMAIN wpc = Workers /\ DOMAIN got = Workers
        OBVIOUS
      <4>2. \A v \in Workers :
              /\ got[v] <= data
              /\ event[v] \/ wpc[v] \in {"size", "read"} => data >= 1
              /\ wpc[v] \in {"clear", "execute", "barrier", "met"} => got[v] >= 1
        OBVIOUS
      <4>3. /\ got'[w] = data /\ wpc'[w] = "clear"
            /\ \A v \in Workers \ {w} : got'[v] = got[v] /\ wpc'[v] = wpc[v]
        BY <3>2, <4>1
      <4> HIDE DEF IPCTypeOK, BufferInv
      <4> QED BY <3>2, <4>1, <4>2, <4>3
    <3> QED BY <3>2, <3>3, <3>4
  <2>4. CASE ReadTorn(w) BY <2>4 DEF ReadTorn
  <2>5. CASE Clear(w) BY <2>5 DEF Clear
  <2>0. \A i \in DOMAIN Append(log[w], got[w]) : Append(log[w], got[w])[i] <= got[w]
    <3>1. \A i \in 1 .. Len(log[w]) : log[w][i] <= got[w]
      BY LogType
    <3>2. DOMAIN Append(log[w], got[w]) = 1 .. Len(log[w]) + 1
      BY LogType
    <3> HIDE DEF IPCTypeOK, BufferInv
    <3> QED BY <3>1, <3>2, LogType, AppendFacts
  <2>6. CASE ExecuteMethod(w)
    <3>1. log'[w] = Append(log[w], got[w]) /\ \A v \in Workers \ {w} : log'[v] = log[v]
      BY <2>6 DEF ExecuteMethod
    <3>2. \A v \in Workers : \A i \in DOMAIN log'[v] : log'[v][i] <= got[v]
      BY <2>0, <3>1
    <3> QED BY <2>6, <3>2 DEF ExecuteMethod
  <2>7. CASE ExecuteBarriers(w)
    <3>1. log'[w] = Append(log[w], got[w]) /\ \A v \in Workers \ {w} : log'[v] = log[v]
      BY <2>7 DEF ExecuteBarriers
    <3>2. \A v \in Workers : \A i \in DOMAIN log'[v] : log'[v][i] <= got[v]
      BY <2>0, <3>1
    <3> QED BY <2>7, <3>2 DEF ExecuteBarriers
  <2>8. CASE EnterBarrier(w) BY <2>8 DEF EnterBarrier
  <2>9. CASE LeaveBarrier(w) BY <2>9 DEF LeaveBarrier
  <2>10. CASE EndBarriers(w) BY <2>10 DEF EndBarriers
  <2> QED BY <1>7, <2>1, <2>2, <2>3, <2>4, <2>5, <2>6, <2>7, <2>8, <2>9, <2>10 DEF Worker
<1>8. CASE UNCHANGED vars BY <1>8 DEF vars
<1> QED BY <1>1, <1>2, <1>3, <1>4, <1>5, <1>6, <1>7, <1>8 DEF Next, Master

(* Even where commands are lost, no worker holds a command that was never    *)
(* issued or is older than one it has executed: write_shm overwrites one     *)
(* buffer with ever later commands, and read_shm returns what it holds.      *)
THEOREM NothingOlderIsRead == Spec => []NeverBackwards
<1>1. IPCTypeOK /\ BufferInv => NeverBackwards
  <2> SUFFICES ASSUME IPCTypeOK, BufferInv, NEW w \in Workers, wpc[w] \in {"clear", "execute"}
               PROVE  got[w] \in DOMAIN issued /\ \A i \in DOMAIN log[w] : log[w][i] <= got[w]
    BY DEF NeverBackwards
  <2>1. got[w] \in Nat /\ got[w] >= 1 /\ got[w] <= data
    BY DEF IPCTypeOK, BufferInv
  <2>2. data <= Len(issued) /\ issued \in Seq(Command)
    BY DEF IPCTypeOK, BufferInv
  <2> QED BY <2>1, <2>2 DEF BufferInv, IPCTypeOK
<1> QED BY <1>1, TypeInit, TypeNext, BufferInit, BufferNext, PTL DEF Spec

-----------------------------------------------------------------------------
(* While the ranks are in step. *)
LEMMA RankFacts ==
  /\ 0 \in Ranks /\ 0 \notin Workers /\ 1 \in Workers
  /\ \A w \in Workers : w \in Ranks /\ w \in Nat /\ w >= 1 /\ w <= NumWorkers
  /\ \A w \in Ranks : w = 0 \/ w \in Workers
BY IPCAssumption DEF Ranks, Workers

(* What the invariants say of one worker before a step of its own. *)
LEMMA WorkerFacts ==
  ASSUME IPCTypeOK, BufferInv, NEW w \in Workers, NEW n \in Nat, n = Len(issued)
  PROVE  /\ w \in DOMAIN wpc /\ w \in DOMAIN event /\ w \in DOMAIN sized /\ w \in DOMAIN got
         /\ w \in DOMAIN log /\ w \in DOMAIN todo /\ w \in DOMAIN coll
         /\ coll[w] \in Seq({"all_reduce", "barrier"}) /\ log[w] \in Seq(Nat)
         /\ todo[w] \in Nat /\ got[w] \in Nat
         /\ length = n - (IF mpc = "length" THEN 1 ELSE 0)
         /\ data = n - (IF mpc \in {"length", "data"} THEN 1 ELSE 0)
         /\ wpc[w] \in {"clear", "execute", "barrier", "met"} => got[w] >= 1
         /\ got[w] <= n
         /\ \A i \in 1 .. n : issued[i] \in Command
         /\ DOMAIN issued = 1 .. n
<1>1. w \in Ranks
  BY RankFacts
<1>2. issued \in Seq(Command) /\ length \in Nat /\ data \in Nat
  BY DEF IPCTypeOK
<1>3. /\ coll[w] \in Seq({"all_reduce", "barrier"}) /\ log[w] \in Seq(Nat)
      /\ todo[w] \in Nat /\ got[w] \in Nat
  BY <1>1 DEF IPCTypeOK
<1>4. /\ w \in DOMAIN wpc /\ w \in DOMAIN event /\ w \in DOMAIN sized /\ w \in DOMAIN got
      /\ w \in DOMAIN log /\ w \in DOMAIN todo /\ w \in DOMAIN coll
  BY <1>1 DEF IPCTypeOK
<1>5. /\ length = n - (IF mpc = "length" THEN 1 ELSE 0)
      /\ data = n - (IF mpc \in {"length", "data"} THEN 1 ELSE 0)
      /\ got[w] <= data
      /\ wpc[w] \in {"clear", "execute", "barrier", "met"} => got[w] >= 1
  BY DEF BufferInv
<1> QED BY <1>2, <1>3, <1>4, <1>5

(* A step of somebody else leaves a worker as far as it was. *)
LEMMA WorkerFrame ==
  ASSUME NEW v \in Workers, NEW n \in Nat,
         UNCHANGED <<issued, mpc, setting, event[v], wpc[v], sized[v], got[v], log[v],
                     todo[v], coll[v]>>
  PROVE  /\ Done(v, n) => Done(v, n)'
         /\ Behind(v, n) => Behind(v, n)'
BY DEF Done, Behind, Entered, Received, Called, AtRest, Unaware, Reading, Executing

LEMMA MasterFrame ==
  ASSUME NEW n \in Nat, MasterInv(n), UNCHANGED <<issued, mpc, coll[0]>>
  PROVE  MasterInv(n)'
BY DEF MasterInv, Entered

LEMMA EnterOne ==
  ASSUME NEW r \in Ranks, NEW n \in Nat, n > 0, Entered(r, n - 1),
         coll[r] \in Seq({"all_reduce", "barrier"}), issued' = issued,
         coll'[r] = Append(coll[r], CollectiveOf(issued[n]))
  PROVE  Entered(r, n)'
<1>1. CollectiveOf(issued[n]) \in {"all_reduce", "barrier"}
  BY DEF CollectiveOf
<1>2. Len(coll[r]) = n - 1 /\ \A i \in 1 .. n - 1 : coll[r][i] = CollectiveOf(issued[i])
  BY DEF Entered
<1>3. /\ Len(coll'[r]) = n /\ coll'[r][n] = CollectiveOf(issued[n])
      /\ \A i \in 1 .. n - 1 : coll'[r][i] = coll[r][i]
  BY <1>1, <1>2, AppendFacts
<1>4. \A i \in 1 .. n : i = n \/ i \in 1 .. n - 1
  OBVIOUS
<1> QED BY <1>2, <1>3, <1>4 DEF Entered, CollectiveOf

LEMMA WorkerStep ==
  ASSUME IPCTypeOK, BufferInv, Lossless,
         NEW n \in Nat, n = Len(issued), MasterInv(n),
         NEW w \in Workers, Done(w, n) \/ Behind(w, n), Worker(w)
  PROVE  Done(w, n)' \/ Behind(w, n)'
<1> USE WorkerFacts DEF masterVars, workerVars
<1>1. CASE WaitEvent(w)
  BY <1>1 DEF WaitEvent, Done, Behind, Entered, Received, Called, AtRest, Unaware, Reading, Executing
<1>2. CASE ReadLength(w)
  BY <1>2 DEF ReadLength, Done, Behind, Entered, Received, Called, AtRest, Unaware, Reading, Executing
<1>3. CASE ReadData(w)
  BY <1>3 DEF ReadData, Done, Behind, Entered, Received, Called, AtRest, Unaware, Reading, Executing
<1>4. CASE ReadTorn(w)
  BY <1>4 DEF ReadTorn, Done, Behind, Entered, Received, Called, AtRest, Unaware, Reading, Executing
<1>5. CASE Clear(w)
  BY <1>5 DEF Clear, Done, Behind, Entered, Received, Called, AtRest, Unaware, Reading, Executing
<1>6. CASE ExecuteMethod(w)
  <2>1. n > 0 /\ Entered(w, n - 1) /\ Executing(w, n) /\ wpc[w] = "execute"
    BY <1>6 DEF ExecuteMethod, Done, Behind, AtRest, Unaware, Reading
  <2>2. issued[n] = "run"
    BY <1>6, <2>1 DEF ExecuteMethod, Lossless, Unpaired, Executing, IPCTypeOK
  <2>3. coll'[w] = Append(coll[w], "all_reduce") /\ log'[w] = Append(log[w], n)
    BY <1>6, <2>1, <2>2 DEF ExecuteMethod, Executing
  <2>4. Entered(w, n)'
    BY <1>6, <2>1, <2>2, <2>3, EnterOne, RankFacts DEF ExecuteMethod, CollectiveOf
  <2>5. Received(w, n)'
    BY <2>1, <2>3, AppendFacts DEF Executing, Received
  <2> QED BY <1>6, <2>1, <2>4, <2>5 DEF ExecuteMethod, Executing, Done, AtRest, Called
<1>7. CASE ExecuteBarriers(w)
  <2>1. n > 0 /\ Entered(w, n - 1) /\ Executing(w, n) /\ wpc[w] = "execute"
    BY <1>7 DEF ExecuteBarriers, Done, Behind, AtRest, Unaware, Reading
  <2>2. todo'[w] = 1
    <3>1. issued[n] = "sync" => CellCount = 1
      BY <1>7, <2>1 DEF Lossless, Unpaired
    <3> QED BY <1>7, <2>1, <3>1 DEF ExecuteBarriers, Executing
  <2>3. log'[w] = Append(log[w], n)
    BY <1>7, <2>1 DEF ExecuteBarriers, Executing
  <2>4. Entered(w, n - 1)'
    BY <1>7, <2>1 DEF ExecuteBarriers, Entered
  <2>5. Received(w, n)'
    BY <2>1, <2>3, AppendFacts DEF Executing, Received
  <2> QED BY <1>7, <2>1, <2>2, <2>4, <2>5 DEF ExecuteBarriers, Executing, Behind, Called
<1>8. CASE EnterBarrier(w)
  <2>1. n > 0 /\ Entered(w, n - 1) /\ Executing(w, n) /\ todo[w] = 1
    BY <1>8 DEF EnterBarrier, Done, Behind, AtRest, Unaware, Reading, Executing
  <2>2. Received(w, n) /\ issued[n] \in {"sync", "exit"}
    BY <1>8, <2>1 DEF EnterBarrier, Executing
  <2>3. coll'[w] = Append(coll[w], "barrier") /\ todo'[w] = 0
    BY <1>8, <2>1 DEF EnterBarrier
  <2>4. Entered(w, n)'
    BY <1>8, <2>1, <2>2, <2>3, EnterOne, RankFacts DEF EnterBarrier, CollectiveOf
  <2>5. Received(w, n)'
    BY <1>8, <2>2 DEF EnterBarrier, Received
  <2> QED BY <1>8, <2>1, <2>3, <2>4, <2>5 DEF EnterBarrier, Executing, Done, AtRest, Called
<1>9. CASE LeaveBarrier(w)
  BY <1>9 DEF LeaveBarrier, Done, Behind, Entered, Received, Called, AtRest, Unaware, Reading, Executing
<1>10. CASE EndBarriers(w)
  <2>1. issued[got[w]] = "exit" => got[w] = n
    BY <1>10 DEF EndBarriers, MasterInv, IPCTypeOK
  <2>2. /\ wpc[w] = "barrier" /\ todo[w] = 0
        /\ wpc'[w] = IF issued[got[w]] = "exit" THEN "exited" ELSE "wait"
        /\ UNCHANGED <<issued, mpc, setting, event, got, log, todo, coll>>
    BY <1>10 DEF EndBarriers
  <2>3. CASE Done(w, n)
    BY <2>1, <2>2, <2>3 DEF Done, Entered, Received, Called, AtRest
  <2>4. CASE Behind(w, n)
    <3>1. got[w] = n - 1 /\ (Unaware(w, n) \/ Reading(w, n))
      BY <2>2, <2>4 DEF Behind, Unaware, Reading, Executing, AtRest
    <3>2. wpc'[w] = "wait"
      BY <2>1, <2>2, <3>1
    <3> QED BY <2>2, <2>4, <3>1, <3>2 DEF Behind, Entered, Received, Called, AtRest, Unaware, Reading
  <2> QED BY <2>3, <2>4
<1> QED BY <1>1, <1>2, <1>3, <1>4, <1>5, <1>6, <1>7, <1>8, <1>9, <1>10 DEF Worker

LEMMA LosslessInit == Init => LosslessInv
<1> SUFFICES ASSUME Init PROVE LosslessInv
  OBVIOUS
<1>1. Len(issued) = 0 /\ DOMAIN issued = {} /\ mpc = "idle"
  BY DEF Init
<1>2. Entered(0, 0)
  BY RankFacts DEF Init, Entered
<1>3. ASSUME NEW w \in Workers PROVE Done(w, 0)
  BY <1>1, RankFacts DEF Init, Done, Entered, Received, AtRest
<1> QED BY <1>1, <1>2, <1>3 DEF LosslessInv, MasterInv

LEMMA LosslessNext ==
  ASSUME IPCTypeOK, BufferInv, LosslessInv, [Next]_vars
  PROVE  LosslessInv'
<1> SUFFICES ASSUME Lossless'
             PROVE  (/\ MasterInv(Len(issued))
                     /\ \A w \in Workers : Done(w, Len(issued)) \/ Behind(w, Len(issued)))'
  BY DEF LosslessInv
<1> USE DEF masterVars, workerVars
<1>n. /\ Len(issued) \in Nat /\ issued \in Seq(Command) /\ setting \in Workers
      /\ coll[0] \in Seq({"all_reduce", "barrier"})
  BY RankFacts DEF IPCTypeOK
<1> PICK n \in Nat : n = Len(issued)
  BY <1>n
<1>m. mpc # "idle" => n > 0
  BY <1>n DEF BufferInv
<1>0. Lossless => MasterInv(n) /\ \A w \in Workers : Done(w, n) \/ Behind(w, n)
  BY DEF LosslessInv
<1>1. ASSUME NEW c \in Methods \cup {"exit"}, Call(c)
      PROVE  /\ MasterInv(Len(issued))'
             /\ \A w \in Workers : Done(w, Len(issued))' \/ Behind(w, Len(issued))'
  <2>1. /\ mpc = "idle" /\ mpc' = "length" /\ issued' = Append(issued, c)
        /\ UNCHANGED <<event, setting, wpc, sized, got, log, todo, coll>>
    BY <1>1 DEF Call
  <2>2. /\ Len(issued') = n + 1 /\ DOMAIN issued' = 1 .. n + 1
        /\ \A i \in 1 .. n : issued'[i] = issued[i]
    BY <1>n, <2>1, AppendFacts, c \in Command DEF Command
  <2>3. Lossless
    BY <1>n, <2>2 DEF Lossless
  <2>4. MasterInv(n) /\ \A w \in Workers : Done(w, n)
    BY <1>0, <2>1, <2>3 DEF Behind, Unaware, Reading, Executing, Called
  <2>5. \A i \in 1 .. n : issued[i] # "exit"
    BY <1>n, <2>1, <2>4 DEF MasterInv
  <2>6. ASSUME NEW r \in Ranks, Entered(r, n) PROVE Entered(r, n)'
    BY <2>1, <2>2, <2>6 DEF Entered
  <2>7. MasterInv(n + 1)'
    BY <2>1, <2>2, <2>4, <2>5, <2>6, RankFacts DEF MasterInv
  <2>8. ASSUME NEW w \in Workers PROVE Behind(w, n + 1)'
    <3>1. /\ Entered(w, n) /\ Received(w, n) /\ ~event[w] /\ AtRest(w, n)
      BY <2>4, <2>5 DEF Done
    <3>2. Entered(w, n)' /\ Received(w, n)' /\ ~event'[w] /\ AtRest(w, n)'
      BY <2>1, <2>6, <3>1, RankFacts DEF Received, AtRest
    <3>3. n + 1 > 0 /\ n + 1 - 1 = n /\ ~Called(w)'
      BY <2>1 DEF Called
    <3> QED BY <2>1, <3>2, <3>3 DEF Behind, Unaware
  <2> QED BY <2>2, <2>7, <2>8
<1>2. ASSUME UNCHANGED issued,
             MasterInv(n)', \A w \in Workers : Done(w, n)' \/ Behind(w, n)'
      PROVE  (/\ MasterInv(Len(issued))
              /\ \A w \in Workers : Done(w, Len(issued)) \/ Behind(w, Len(issued)))'
  BY <1>2
<1>3. CASE WriteLength
  <2>1. Lossless /\ mpc = "length" /\ mpc' = "data"
        /\ UNCHANGED <<issued, event, setting, workerVars, coll>>
    BY <1>3 DEF WriteLength, Lossless
  <2>2. MasterInv(n)'
    BY <1>0, <2>1 DEF MasterInv, Entered
  <2>3. ASSUME NEW w \in Workers PROVE Behind(w, n)'
    BY <1>0, <2>1 DEF Done, Behind, Entered, Received, Called, AtRest, Unaware, Reading, Executing
  <2> QED BY <1>2, <2>1, <2>2, <2>3
<1>4. CASE WriteData
  <2>1. Lossless /\ mpc = "data" /\ mpc' = "events" /\ setting' = 1
        /\ UNCHANGED <<issued, event, workerVars, coll>>
    BY <1>4 DEF WriteData, Lossless
  <2>2. MasterInv(n)'
    BY <1>0, <2>1 DEF MasterInv, Entered
  <2>3. ASSUME NEW w \in Workers PROVE Behind(w, n)'
    <3>1. ~Called(w)'
      BY <2>1, RankFacts DEF Called
    <3> QED
      BY <1>0, <2>1, <3>1 DEF Done, Behind, Entered, Received, Called, AtRest, Unaware, Reading, Executing
  <2> QED BY <1>2, <2>1, <2>2, <2>3
<1>5. CASE SetEvent
  <2> PICK s \in Workers : s = setting
    BY <1>n
  <2>1. /\ Lossless /\ mpc = "events" /\ s \in Nat /\ s <= NumWorkers
        /\ setting' = (IF s < NumWorkers THEN s + 1 ELSE 1)
        /\ mpc' = (IF s < NumWorkers THEN "events" ELSE "execute")
        /\ UNCHANGED <<issued, workerVars, coll>>
    BY <1>5, RankFacts DEF SetEvent, Lossless
  <2>2. event'[s] = TRUE /\ \A w \in Workers \ {s} : event'[w] = event[w]
    BY <1>5 DEF SetEvent, IPCTypeOK
  <2>3. \A w \in Workers : /\ Called(w) <=> w < s
                           /\ Called(w)' <=> w < s + 1
    BY <2>1, RankFacts, IPCAssumption DEF Called
  <2>4. MasterInv(n)'
    BY <1>0, <2>1 DEF MasterInv, Entered
  <2>5. ASSUME NEW w \in Workers, w # s PROVE Done(w, n)' \/ Behind(w, n)'
    <3>1. /\ event'[w] = event[w] /\ (Called(w) <=> Called(w)')
          /\ (~Called(w)' => mpc' = "events")
      <4>1. w \in Nat /\ w <= NumWorkers /\ NumWorkers \in Nat
        BY RankFacts, IPCAssumption
      <4>2. w < s <=> w < s + 1
        BY <2>1, <2>5, <4>1
      <4>3. ~(w < s + 1) => s < NumWorkers
        BY <2>1, <4>1
      <4> QED BY <2>1, <2>2, <2>3, <2>5, <4>2, <4>3
    <3> QED
      BY <1>0, <2>1, <3>1 DEF Done, Behind, Entered, Received, AtRest, Unaware, Reading, Executing
  <2>6. Behind(s, n)'
    <3>1. Behind(s, n) /\ Unaware(s, n)
      BY <1>0, <2>1, <2>3 DEF Done, Behind, Reading, Executing
    <3>2. event'[s] /\ Called(s)'
      BY <2>1, <2>2, <2>3
    <3> QED BY <2>1, <3>1, <3>2 DEF Behind, Entered, Received, AtRest, Unaware, Reading
  <2> QED BY <1>2, <2>1, <2>4, <2>5, <2>6
<1>6. CASE Execute
  <2>1. /\ Lossless /\ mpc = "execute" /\ mpc' = "result"
        /\ UNCHANGED <<issued, event, setting, workerVars>>
    BY <1>6 DEF Execute, Lossless
  <2>2. n > 0 /\ Last(issued) = issued[n] /\ issued[n] # "method"
    BY <1>n, <1>m, <2>1 DEF Last, Lossless, Unpaired
  <2>3. coll' = [coll EXCEPT ![0] = Append(@, CollectiveOf(issued[n]))]
    BY <1>6, <2>2 DEF Execute
  <2>4. coll'[0] = Append(coll[0], CollectiveOf(issued[n])) /\ \A w \in Workers : coll'[w] = coll[w]
    BY <2>3, RankFacts DEF IPCTypeOK
  <2>5. Entered(0, n)'
    BY <1>0, <1>n, <2>1, <2>2, <2>4, EnterOne, RankFacts DEF MasterInv
  <2>6. MasterInv(n)'
    BY <1>0, <2>1, <2>5 DEF MasterInv
  <2>7. ASSUME NEW w \in Workers PROVE Done(w, n)' \/ Behind(w, n)'
    BY <1>0, <2>1, <2>4 DEF Done, Behind, Entered, Received, Called, AtRest, Unaware, Reading, Executing
  <2> QED BY <1>2, <2>1, <2>6, <2>7
<1>7. CASE Return
  <2>1. /\ Lossless /\ mpc = "result" /\ Met(0)
        /\ mpc' = (IF Last(issued) = "exit" THEN "exited" ELSE "idle")
        /\ UNCHANGED <<issued, event, setting, workerVars, coll>>
    BY <1>7 DEF Return, Lossless
  <2>2. n > 0 /\ Last(issued) = issued[n]
    BY <1>n, <1>m, <2>1 DEF Last
  <2>3. MasterInv(n)'
    BY <1>0, <1>n, <2>1, <2>2 DEF MasterInv, Entered
  <2>4. ASSUME NEW w \in Workers PROVE Done(w, n)
    <3>1. Len(coll[w]) >= n
      BY <1>0, <2>1, RankFacts DEF Met, MasterInv, Entered
    <3> QED BY <1>0, <2>1, <2>2, <3>1 DEF Behind, Entered
  <2>5. ASSUME NEW w \in Workers PROVE Done(w, n)'
    BY <2>1, <2>4 DEF Done, Entered, Received, AtRest
  <2> QED BY <1>2, <2>1, <2>3, <2>5
<1>8. ASSUME NEW w \in Workers, Worker(w)
      PROVE  (/\ MasterInv(Len(issued))
              /\ \A v \in Workers : Done(v, Len(issued)) \/ Behind(v, Len(issued)))'
  <2>1. /\ UNCHANGED <<issued, mpc, setting>> /\ Lossless
        /\ \A v \in Workers \ {w} : UNCHANGED <<event[v], wpc[v], sized[v], got[v], log[v],
                                             todo[v], coll[v]>>
        /\ UNCHANGED coll[0]
    BY <1>8, RankFacts DEF Worker, WaitEvent, ReadLength, ReadData, ReadTorn, Clear, ExecuteMethod,
       ExecuteBarriers, EnterBarrier, LeaveBarrier, EndBarriers, Lossless, IPCTypeOK
  <2>2. MasterInv(n)'
    BY <1>0, <2>1, MasterFrame
  <2>3. ASSUME NEW v \in Workers, v # w PROVE Done(v, n)' \/ Behind(v, n)'
    BY <1>0, <2>1, <2>3, WorkerFrame
  <2>4. Done(w, n)' \/ Behind(w, n)'
    BY <1>0, <1>8, <2>1, WorkerStep
  <2> QED BY <1>2, <2>1, <2>2, <2>3, <2>4
<1>9. CASE UNCHANGED vars
  BY <1>0, <1>9, <1>2, WorkerFrame, MasterFrame DEF vars, Lossless
<1> QED BY <1>1, <1>3, <1>4, <1>5, <1>6, <1>7, <1>8, <1>9 DEF Next, Master

-----------------------------------------------------------------------------
(* The commands before the first that unpairs the ranks. *)
LEMMA MinFact ==
  ASSUME NEW I \in SUBSET Nat, I # {}
  PROVE  Min(I) \in I /\ \A j \in I : Min(I) <= j
<1>1. PICK x \in I : \A y \in I : ~(<<y, x>> \in OpToRel(<, Nat))
  BY WFMin, NatLessThanWellFounded
<1>2. ASSUME NEW y \in I, y < x PROVE FALSE
  <2>1. <<y, x>> \in {ss \in Nat \X Nat : ss[1] < ss[2]}
    BY <1>2
  <2> QED BY <1>1, <2>1 DEF OpToRel
<1>3. \A y \in I : x <= y
  BY <1>2
<1> QED BY <1>3 DEF Min

LEMMA KeptFacts ==
  issued \in Seq(Command) =>
    IF Lossless THEN FirstLossy = 0 /\ Kept = Len(issued)
    ELSE /\ FirstLossy # 0 /\ Kept \in Nat /\ Kept < Len(issued)
         /\ Unpaired(issued[Kept + 1])
         /\ \A i \in 1 .. Kept : ~Unpaired(issued[i])
<1> DEFINE I == {i \in 1 .. Len(issued) : Unpaired(issued[i])}
<1> SUFFICES ASSUME issued \in Seq(Command)
             PROVE  IF Lossless THEN FirstLossy = 0 /\ Kept = Len(issued)
                    ELSE /\ FirstLossy # 0 /\ Kept \in Nat /\ Kept < Len(issued)
                         /\ Unpaired(issued[Kept + 1])
                         /\ \A i \in 1 .. Kept : ~Unpaired(issued[i])
  OBVIOUS
<1>1. FirstLossy = IF I # {} THEN Min(I) ELSE 0
  BY DEF FirstLossy, SelectInSeq
<1>2. Lossless <=> I = {}
  BY DEF Lossless
<1>3. CASE I = {}
  BY <1>1, <1>2, <1>3 DEF Kept
<1>4. CASE I # {}
  <2>1. I \in SUBSET Nat
    OBVIOUS
  <2>2. Min(I) \in I /\ \A j \in I : Min(I) <= j
    BY <1>4, <2>1, MinFact
  <2> PICK m \in I : m = Min(I)
    BY <2>2
  <2>3. m \in 1 .. Len(issued) /\ Unpaired(issued[m])
    OBVIOUS
  <2>4. Kept = m - 1 /\ FirstLossy = m
    BY <1>1, <1>4, <2>3 DEF Kept
  <2>5. \A i \in 1 .. m - 1 : ~Unpaired(issued[i])
    BY <2>2, <2>3
  <2> HIDE DEF I
  <2> QED BY <1>2, <1>4, <2>3, <2>4, <2>5
<1> QED BY <1>3, <1>4

LEMMA KeptSame == UNCHANGED issued => UNCHANGED <<Lossless, Kept>>
<1> SUFFICES ASSUME UNCHANGED issued PROVE UNCHANGED <<Lossless, Kept>>
  OBVIOUS
<1>1. {i \in 1 .. Len(issued) : Unpaired(issued[i])}'
        = {i \in 1 .. Len(issued) : Unpaired(issued[i])}
  OBVIOUS
<1>2. FirstLossy' = FirstLossy
  BY <1>1 DEF FirstLossy, SelectInSeq
<1>3. Lossless' <=> Lossless
  BY DEF Lossless
<1> QED BY <1>2, <1>3 DEF Kept

LEMMA FirstOnly ==
  ASSUME NEW s \in Seq(Command), NEW k \in Nat, NEW m \in Nat,
         k < Len(s), Unpaired(s[k + 1]), \A i \in 1 .. k : ~Unpaired(s[i]),
         m < Len(s), Unpaired(s[m + 1]), \A i \in 1 .. m : ~Unpaired(s[i])
  PROVE  k = m
<1>1. ~(k < m)
  <2>1. k < m => k + 1 \in 1 .. m
    OBVIOUS
  <2> QED BY <2>1
<1>2. ~(m < k)
  <2>1. m < k => m + 1 \in 1 .. k
    OBVIOUS
  <2> QED BY <2>1
<1> QED BY <1>1, <1>2

(* What a call adds to them. *)
LEMMA KeptAppend ==
  ASSUME issued \in Seq(Command), NEW c \in Command, issued' = Append(issued, c)
  PROVE  /\ Lossless' <=> Lossless /\ ~Unpaired(c)
         /\ Kept' = IF Lossless' THEN Kept + 1 ELSE Kept
<1>1. issued' \in Seq(Command)
  BY AppendFacts
<1>2. /\ Len(issued) \in Nat /\ Len(issued') = Len(issued) + 1 /\ issued'[Len(issued) + 1] = c
      /\ DOMAIN issued = 1 .. Len(issued) /\ DOMAIN issued' = 1 .. Len(issued) + 1
      /\ \A i \in 1 .. Len(issued) : issued'[i] = issued[i]
  BY AppendFacts
<1>3. (issued \in Seq(Command) =>
         IF Lossless THEN FirstLossy = 0 /\ Kept = Len(issued)
         ELSE /\ FirstLossy # 0 /\ Kept \in Nat /\ Kept < Len(issued)
              /\ Unpaired(issued[Kept + 1])
              /\ \A i \in 1 .. Kept : ~Unpaired(issued[i]))'
  BY KeptFacts, PTL
<1>4. Lossless' <=> Lossless /\ ~Unpaired(c)
  <2>1. \A i \in 1 .. Len(issued) + 1 : i = Len(issued) + 1 \/ i \in 1 .. Len(issued)
    BY <1>2
  <2> QED BY <1>2, <2>1 DEF Lossless
<1>5. CASE Lossless'
  BY <1>1, <1>2, <1>3, <1>4, <1>5, KeptFacts
<1>6. ASSUME ~Lossless'
      PROVE  /\ Kept' \in Nat /\ Kept' < Len(issued) + 1 /\ Unpaired(issued'[Kept' + 1])
             /\ \A i \in 1 .. Kept' : ~Unpaired(issued'[i])
  BY <1>1, <1>2, <1>3, <1>6
<1>7. CASE Lossless /\ Unpaired(c)
  <2>1. Kept = Len(issued)
    BY <1>7, KeptFacts
  <2>2. \A i \in 1 .. Len(issued) : ~Unpaired(issued'[i])
    BY <1>2, <1>7 DEF Lossless
  <2>3. /\ Kept' \in Nat /\ Kept' < Len(issued') /\ Unpaired(issued'[Kept' + 1])
        /\ \A i \in 1 .. Kept' : ~Unpaired(issued'[i])
    BY <1>2, <1>4, <1>6, <1>7
  <2>4. Len(issued) < Len(issued')
    BY <1>2
  <2>5. Kept' = Len(issued)
    BY <1>1, <1>2, <1>7, <2>2, <2>3, <2>4, FirstOnly
  <2> QED BY <1>4, <1>7, <2>1, <2>5
<1>8. CASE ~Lossless
  <2>1. /\ Kept \in Nat /\ Kept < Len(issued) /\ Unpaired(issued[Kept + 1])
        /\ \A i \in 1 .. Kept : ~Unpaired(issued[i])
    BY <1>8, KeptFacts
  <2>2. /\ Kept' \in Nat /\ Kept' < Len(issued') /\ Unpaired(issued'[Kept' + 1])
        /\ \A i \in 1 .. Kept' : ~Unpaired(issued'[i])
    BY <1>2, <1>4, <1>6, <1>8
  <2>3. /\ Kept < Len(issued') /\ Unpaired(issued'[Kept + 1])
        /\ \A i \in 1 .. Kept : ~Unpaired(issued'[i])
    <3>1. Kept + 1 \in 1 .. Len(issued) /\ \A i \in 1 .. Kept : i \in 1 .. Len(issued)
      BY <1>2, <2>1
    <3> QED BY <1>2, <2>1, <3>1
  <2>4. Kept = Kept'
    BY <1>1, <2>1, <2>2, <2>3, FirstOnly
  <2> QED BY <1>4, <1>8, <2>4
<1> QED BY <1>4, <1>5, <1>7, <1>8

-----------------------------------------------------------------------------
(* The collectives of two ranks. *)
LEMMA EnteredPrefix ==
  ASSUME IPCTypeOK, NEW p \in Ranks, NEW q \in Ranks, NEW j \in Nat, NEW k \in Nat, j <= k,
         Entered(p, j), Entered(q, k)
  PROVE  IsPrefix(coll[p], coll[q])
<1>1. coll[p] \in Seq({"all_reduce", "barrier"}) /\ coll[q] \in Seq({"all_reduce", "barrier"})
  BY DEF IPCTypeOK
<1>2. Len(coll[p]) = j /\ Len(coll[q]) = k /\ \A i \in 1 .. j : coll[p][i] = coll[q][i]
  BY DEF Entered
<1>3. SubSeq(coll[p], 1, j) = SubSeq(coll[q], 1, j)
  BY <1>1, <1>2
<1> QED BY <1>2, <1>3 DEF IsPrefix

LEMMA RanksEntered ==
  ASSUME IPCTypeOK, LosslessInv, Lossless, NEW r \in Ranks
  PROVE  \E k \in Nat : Entered(r, k)
<1>1. Len(issued) \in Nat
  BY DEF IPCTypeOK
<1>2. /\ r = 0 => MasterInv(Len(issued))
      /\ r \in Workers => Done(r, Len(issued)) \/ Behind(r, Len(issued))
      /\ r = 0 \/ r \in Workers
  BY RankFacts DEF LosslessInv
<1>3. Len(coll[r]) \in Nat
  BY DEF IPCTypeOK
<1>4. \A k : Entered(r, k) => k = Len(coll[r])
  BY DEF Entered
<1> QED BY <1>2, <1>3, <1>4 DEF MasterInv, Done, Behind

LEMMA CollectivesMatchIn == IPCTypeOK /\ LosslessInv => CollectivesMatch
<1> SUFFICES ASSUME IPCTypeOK, LosslessInv, FirstLossy = 0, NEW p \in Ranks, NEW q \in Ranks
             PROVE  IsPrefix(coll[p], coll[q]) \/ IsPrefix(coll[q], coll[p])
  BY DEF CollectivesMatch, CollectivesPair
<1>1. Lossless
  BY KeptFacts DEF IPCTypeOK
<1>2. PICK j \in Nat : Entered(p, j)
  BY <1>1, RanksEntered
<1>3. PICK k \in Nat : Entered(q, k)
  BY <1>1, RanksEntered
<1>4. j <= k \/ k <= j
  OBVIOUS
<1> QED BY <1>2, <1>3, <1>4, EnteredPrefix

(* All ranks enter the same collectives in the same order, however many      *)
(* workers there are and whatever they are told to run, up to the first      *)
(* command that unpairs them: a method without a collective, or              *)
(* __SYNC_REGISTRY__ unless the artifact has exactly one cell (loop,         *)
(* sync_registry, exit).                                                     *)
THEOREM CollectivesAgree == Spec => []CollectivesMatch
<1>1. Init => IPCTypeOK /\ BufferInv /\ LosslessInv
  BY TypeInit, BufferInit, LosslessInit
<1>2. IPCTypeOK /\ BufferInv /\ LosslessInv /\ [Next]_vars => (IPCTypeOK /\ BufferInv /\ LosslessInv)'
  BY TypeNext, BufferNext, LosslessNext
<1> QED BY <1>1, <1>2, CollectivesMatchIn, PTL DEF Spec

-----------------------------------------------------------------------------
(* Before a call all workers have executed everything. *)
LEMMA AllDone ==
  ASSUME IPCTypeOK, LosslessInv, Lossless, mpc \in {"idle", "exited"}, NEW w \in Workers
  PROVE  Done(w, Len(issued))
BY DEF LosslessInv, Behind, Unaware, Reading, Executing, Called

(* A step other than a call, of rank 0 or of a worker. *)
LEMMA LossyStep ==
  ASSUME IPCTypeOK, BufferInv, NEW k \in Nat, k < Len(issued), \A w \in Workers : LossyWorker(w, k),
         [Next]_vars, UNCHANGED issued
  PROVE  \A w \in Workers : LossyWorker(w, k)'
<1> SUFFICES ASSUME NEW v \in Workers PROVE LossyWorker(v, k)'
  OBVIOUS
<1> USE DEF masterVars, workerVars
<1>0. /\ log[v] \in Seq(Nat) /\ Len(log[v]) \in Nat /\ DOMAIN log[v] = 1 .. Len(log[v])
      /\ got[v] \in Nat /\ data \in Nat /\ Len(issued) \in Nat
      /\ data = Len(issued) - (IF mpc \in {"length", "data"} THEN 1 ELSE 0)
      /\ v \in DOMAIN event /\ v \in DOMAIN wpc /\ v \in DOMAIN got /\ v \in DOMAIN log
  BY LogType DEF IPCTypeOK, BufferInv
<1>1. LossyWorker(v, k)
  OBVIOUS
<1>2. ASSUME NEW c \in Methods \cup {"exit"}, Call(c) PROVE FALSE
  BY <1>2, AppendFacts DEF Call, IPCTypeOK, Command
<1>3. CASE WriteLength BY <1>1, <1>3 DEF WriteLength, LossyWorker
<1>4. CASE WriteData
  BY <1>0, <1>1, <1>4 DEF WriteData, LossyWorker
<1>5. CASE SetEvent
  <2>1. event'[v] => event[v] \/ data > k
    BY <1>0, <1>5 DEF SetEvent
  <2> QED BY <1>1, <1>5, <2>1 DEF SetEvent, LossyWorker
<1>6. CASE Execute BY <1>1, <1>6 DEF Execute, LossyWorker
<1>7. CASE Return BY <1>1, <1>7 DEF Return, LossyWorker
<1>8. ASSUME NEW w \in Workers, Worker(w) PROVE LossyWorker(v, k)'
  <2>1. CASE w # v
    <3>1. data' = data /\ UNCHANGED <<event[v], wpc[v], got[v], log[v]>>
      BY <1>0, <1>8, <2>1 DEF Worker, WaitEvent, ReadLength, ReadData, ReadTorn, Clear, ExecuteMethod,
         ExecuteBarriers, EnterBarrier, LeaveBarrier, EndBarriers
    <3> QED BY <1>1, <3>1 DEF LossyWorker
  <2>2. ASSUME w = v, ExecuteMethod(v) \/ ExecuteBarriers(v) PROVE LossyWorker(v, k)'
    <3>1. /\ wpc[v] = "execute" /\ log'[v] = Append(log[v], got[v])
          /\ wpc'[v] \in {"wait", "barrier"} /\ UNCHANGED <<event, data>>
      BY <1>0, <2>2 DEF ExecuteMethod, ExecuteBarriers
    <3>2. got[v] > k /\ k <= Len(log[v])
      BY <1>1, <3>1 DEF LossyWorker
    <3>3. Len(log'[v]) = Len(log[v]) + 1 /\ DOMAIN log'[v] = 1 .. Len(log[v]) + 1
      BY <1>0, <3>1, AppendFacts
    <3>4. ASSUME NEW i \in 1 .. Len(log[v]) + 1
          PROVE  IF i <= k THEN log'[v][i] = i ELSE log'[v][i] > k
      <4>1. CASE i = Len(log[v]) + 1
        BY <1>0, <3>1, <3>2, <4>1, AppendFacts
      <4>2. CASE i \in 1 .. Len(log[v])
        <5>1. log'[v][i] = log[v][i]
          BY <1>0, <3>1, <4>2, AppendFacts
        <5>2. IF i <= k THEN log[v][i] = i ELSE log[v][i] > k
          BY <1>0, <1>1, <4>2 DEF LossyWorker
        <5> QED BY <5>1, <5>2
      <4> QED BY <1>0, <4>1, <4>2
    <3> QED BY <1>0, <1>1, <3>1, <3>2, <3>3, <3>4 DEF LossyWorker
  <2>3. CASE w = v /\ WaitEvent(v) BY <1>0, <1>1, <2>3 DEF WaitEvent, LossyWorker
  <2>4. CASE w = v /\ ReadLength(v) BY <1>0, <1>1, <2>4 DEF ReadLength, LossyWorker
  <2>5. CASE w = v /\ ReadData(v) BY <1>0, <1>1, <2>5 DEF ReadData, LossyWorker
  <2>6. CASE w = v /\ ReadTorn(v) BY <1>0, <1>1, <2>6 DEF ReadTorn, LossyWorker
  <2>7. CASE w = v /\ Clear(v) BY <1>0, <1>1, <2>7 DEF Clear, LossyWorker
  <2>8. CASE w = v /\ EnterBarrier(v) BY <1>0, <1>1, <2>8 DEF EnterBarrier, LossyWorker
  <2>9. CASE w = v /\ LeaveBarrier(v) BY <1>0, <1>1, <2>9 DEF LeaveBarrier, LossyWorker
  <2>10. CASE w = v /\ EndBarriers(v) BY <1>0, <1>1, <2>10 DEF EndBarriers, LossyWorker
  <2> QED BY <1>8, <2>1, <2>2, <2>3, <2>4, <2>5, <2>6, <2>7, <2>8, <2>9, <2>10 DEF Worker
<1>9. CASE UNCHANGED vars BY <1>1, <1>9 DEF vars, LossyWorker
<1> QED BY <1>2, <1>3, <1>4, <1>5, <1>6, <1>7, <1>8, <1>9 DEF Next, Master

LEMMA LossyNext ==
  ASSUME IPCTypeOK, BufferInv, LosslessInv, LossyInv, [Next]_vars
  PROVE  LossyInv'
<1> SUFFICES ASSUME ~Lossless' PROVE (\A w \in Workers : LossyWorker(w, Kept))'
  BY DEF LossyInv
<1>0. issued \in Seq(Command)
  BY DEF IPCTypeOK
<1>1. ASSUME NEW c \in Methods \cup {"exit"}, Call(c), Lossless
      PROVE  \A w \in Workers : LossyWorker(w, Kept)'
  <2>1. Kept' = Len(issued) /\ Len(issued) \in Nat
    BY <1>0, <1>1, KeptAppend, KeptFacts DEF Call, Command
  <2>2. /\ mpc = "idle" /\ UNCHANGED <<data, event, wpc, sized, got, log, todo, coll>>
    BY <1>1 DEF Call, workerVars
  <2>3. ASSUME NEW w \in Workers PROVE LossyWorker(w, Len(issued))
    <3>1. Done(w, Len(issued))
      BY <1>1, <2>2, AllDone
    <3>2. /\ log[w] \in Seq(Nat) /\ DOMAIN log[w] = 1 .. Len(log[w])
      BY LogType
    <3> QED BY <2>1, <3>1, <3>2 DEF Done, Received, AtRest, LossyWorker
  <2> QED BY <2>1, <2>2, <2>3 DEF LossyWorker
<1>2. ASSUME NEW c \in Methods \cup {"exit"}, Call(c), ~Lossless
      PROVE  \A w \in Workers : LossyWorker(w, Kept)'
  <2>1. Kept' = Kept
    BY <1>0, <1>2, KeptAppend DEF Call, Command
  <2>2. UNCHANGED <<data, event, wpc, got, log>>
    BY <1>2 DEF Call, workerVars
  <2> QED BY <1>2, <2>1, <2>2 DEF LossyWorker, LossyInv
<1>3. CASE UNCHANGED issued
  <2>1. ~Lossless /\ Kept' = Kept
    BY <1>3, KeptSame
  <2> PICK k \in Nat : k = Kept /\ k < Len(issued)
    BY <1>0, <2>1, KeptFacts
  <2>2. \A w \in Workers : LossyWorker(w, k)
    BY <2>1 DEF LossyInv
  <2>3. \A w \in Workers : LossyWorker(w, k)'
    BY <1>3, <2>2, LossyStep
  <2> QED BY <2>1, <2>3
<1>4. UNCHANGED issued \/ \E c \in Methods \cup {"exit"} : Call(c)
  BY DEF Next, Master, WriteLength, WriteData, SetEvent, Execute, Return, Worker, WaitEvent, ReadLength,
     ReadData, ReadTorn, Clear, ExecuteMethod, ExecuteBarriers, EnterBarrier, LeaveBarrier, EndBarriers,
     vars, masterVars
<1> QED BY <1>1, <1>2, <1>3, <1>4

LEMMA LossyInit == Init => LossyInv
BY DEF Init, LossyInv, Lossless

LEMMA InvInit == Init => IPCInv
BY TypeInit, BufferInit, LosslessInit, LossyInit DEF IPCInv

LEMMA InvNext == IPCInv /\ [Next]_vars => IPCInv'
BY TypeNext, BufferNext, LosslessNext, LossyNext DEF IPCInv

-----------------------------------------------------------------------------
(* The refinement.  A worker has executed the first k of the kept commands. *)
ExecutedBy(w) == [i \in {j \in DOMAIN log[w] : log[w][j] <= Kept} |-> issued[log[w][i]]]
Took(w, k) ==
  /\ {j \in DOMAIN log[w] : log[w][j] <= Kept} = 1 .. k
  /\ \A i \in 1 .. k : log[w][i] = i

LEMMA KeptBound == IPCInv => Kept \in Nat /\ Kept <= Len(issued) /\ Len(issued) \in Nat
BY KeptFacts DEF IPCInv, IPCTypeOK

AllTook ==
  /\ Lossless => \A w \in Workers : \A k \in 0 .. Len(issued) : Received(w, k) => Took(w, k)
  /\ ~Lossless => \A w \in Workers : Took(w, Kept)

LEMMA TookReceived ==
  IPCInv /\ Lossless => \A w \in Workers : \A k \in 0 .. Len(issued) : Received(w, k) => Took(w, k)
<1> SUFFICES ASSUME IPCInv, Lossless, NEW w \in Workers, NEW k \in 0 .. Len(issued), Received(w, k)
             PROVE  Took(w, k)
  OBVIOUS
<1>1. Kept = Len(issued) /\ Len(issued) \in Nat
  BY KeptFacts DEF IPCInv, IPCTypeOK
<1>2. DOMAIN log[w] = 1 .. k /\ \A i \in 1 .. k : log[w][i] = i
  BY LogType DEF IPCInv, Received
<1> QED BY <1>1, <1>2 DEF Took

LEMMA TookLossy == IPCInv /\ ~Lossless => \A w \in Workers : Took(w, Kept)
<1> SUFFICES ASSUME IPCInv, ~Lossless, NEW w \in Workers PROVE Took(w, Kept)
  OBVIOUS
<1> PICK k \in Nat : k = Kept
  BY KeptBound
<1>1. /\ DOMAIN log[w] = 1 .. Len(log[w]) /\ k <= Len(log[w]) /\ Len(log[w]) \in Nat
      /\ \A i \in 1 .. Len(log[w]) : log[w][i] \in Nat
      /\ \A i \in 1 .. Len(log[w]) : IF i <= k THEN log[w][i] = i ELSE log[w][i] > k
  BY LogType DEF IPCInv, LossyInv, LossyWorker
<1>2. {j \in DOMAIN log[w] : log[w][j] <= k} = 1 .. k
  BY <1>1
<1>3. \A i \in 1 .. k : log[w][i] = i
  BY <1>1
<1> QED BY <1>2, <1>3 DEF Took

LEMMA EveryTook == IPCInv => AllTook
BY TookReceived, TookLossy DEF AllTook

LEMMA TookExecuted ==
  \A v \in Workers : \A j \in Nat : Took(v, j) => ExecutedBy(v) = [i \in 1 .. j |-> issued[i]]
BY DEF Took, ExecutedBy

(* A worker that took no further kept command. *)
LEMMA SameExecuted ==
  ASSUME NEW w \in Workers, NEW k \in Nat, Took(w, k), Took(w, k)',
         \A i \in 1 .. k : issued'[i] = issued[i]
  PROVE  ExecutedBy(w)' = ExecutedBy(w)
<1>1. ExecutedBy(w)' = [i \in 1 .. k |-> issued'[i]]
  BY DEF Took, ExecutedBy
<1>2. ExecutedBy(w) = [i \in 1 .. k |-> issued[i]]
  BY TookExecuted
<1> QED BY <1>1, <1>2

barIssued == SubSeq(issued, 1, Kept)
barExecuted == [w \in Workers |-> ExecutedBy(w)]

LEMMA RefineCall ==
  ASSUME IPCInv, IPCInv', NEW c \in Command, Call(c)
  PROVE  \/ B!Issue(c)
         \/ UNCHANGED <<barIssued, barExecuted>>
<1> PICK n \in Nat : n = Len(issued)
  BY KeptBound
<1>1. /\ issued \in Seq(Command) /\ n \in Nat /\ Kept \in Nat /\ Kept <= n
      /\ mpc = "idle" /\ issued' = Append(issued, c) /\ log' = log
  BY KeptBound DEF IPCInv, IPCTypeOK, Call, workerVars
<1>2. /\ Len(issued') = n + 1 /\ \A i \in 1 .. n : issued'[i] = issued[i]
      /\ Lossless' <=> Lossless /\ ~Unpaired(c)
      /\ Kept' = IF Lossless' THEN Kept + 1 ELSE Kept
  BY <1>1, AppendFacts, KeptAppend
<1>3. ASSUME Lossless, NEW w \in Workers
      PROVE  Kept = n /\ Received(w, n) /\ Took(w, n) /\ ExecutedBy(w) = issued
  <2>1. Received(w, n) /\ Kept = n
    BY <1>1, <1>3, AllDone, KeptFacts DEF IPCInv, Done
  <2>2. Took(w, n)
    BY <1>1, <1>3, <2>1, TookReceived
  <2>3. ExecutedBy(w) = [i \in 1 .. n |-> issued[i]]
    BY <1>1, <2>2, TookExecuted
  <2>4. issued = [i \in 1 .. n |-> issued[i]]
    BY <1>1
  <2> QED BY <2>1, <2>2, <2>3, <2>4
<1>4. CASE Lossless /\ ~Unpaired(c)
  <2>1. ASSUME NEW w \in Workers PROVE ExecutedBy(w)' = ExecutedBy(w)
    <3>1. Received(w, n) /\ DOMAIN log[w] = 1 .. n
      BY <1>3, <1>4, LogType DEF IPCInv, Received
    <3>2. Took(w, n)'
      <4>1. \A i \in 1 .. n : log[w][i] = i
        BY <3>1 DEF Received
      <4>2. Kept' = n + 1
        BY <1>2, <1>3, <1>4, RankFacts
      <4>3. {j \in DOMAIN log[w] : log[w][j] <= n + 1} = 1 .. n
        BY <1>1, <3>1, <4>1
      <4> QED BY <1>1, <4>1, <4>2, <4>3 DEF Took
    <3> QED BY <1>1, <1>2, <1>3, <1>4, <3>2, SameExecuted
  <2>2. barIssued = issued /\ barIssued' = Append(issued, c)
    <3>1. Kept = n /\ Kept' = n + 1
      BY <1>2, <1>3, <1>4, RankFacts
    <3>2. issued' \in Seq(Command)
      BY <1>1, AppendFacts
    <3>3. SubSeq(issued, 1, n) = issued /\ SubSeq(issued', 1, n + 1) = issued'
      BY <1>1, <1>2, <3>2
    <3> QED BY <1>1, <3>1, <3>3 DEF barIssued
  <2>3. barExecuted' = barExecuted
    BY <2>1 DEF barExecuted
  <2>4. \A w \in Workers : barExecuted[w] = barIssued
    BY <1>3, <1>4, <2>2 DEF barExecuted
  <2> QED BY <2>2, <2>3, <2>4 DEF B!Issue, barIssued, barExecuted, ExecutedBy
<1>5. CASE ~(Lossless /\ ~Unpaired(c))
  <2>1. Kept' = Kept
    BY <1>2, <1>5
  <2>2. barIssued' = barIssued
    <3>1. issued' \in Seq(Command)
      BY <1>1, AppendFacts
    <3>2. \A i \in 1 .. Kept : i \in 1 .. n
      BY <1>1
    <3> QED BY <1>1, <1>2, <2>1, <3>1, <3>2 DEF barIssued
  <2>3. ASSUME NEW w \in Workers PROVE ExecutedBy(w)' = ExecutedBy(w)
    <3>1. Took(w, Kept)
      BY <1>3, TookLossy
    <3>2. Took(w, Kept)'
      BY <1>1, <2>1, <3>1 DEF Took
    <3> PICK k \in Nat : k = Kept
      BY <1>1
    <3>3. Took(w, k) /\ Took(w, k)'
      BY <1>1, <2>1, <3>1 DEF Took
    <3>4. \A i \in 1 .. k : issued'[i] = issued[i]
      BY <1>1, <1>2
    <3> QED BY <3>3, <3>4, SameExecuted
  <2> QED BY <2>2, <2>3 DEF barExecuted
<1> QED BY <1>4, <1>5

LEMMA RefineExecute ==
  ASSUME IPCInv, IPCInv', NEW w \in Workers, ExecuteMethod(w) \/ ExecuteBarriers(w)
  PROVE  B!Execute(w) \/ UNCHANGED <<barIssued, barExecuted>>
<1> PICK n \in Nat : n = Len(issued)
  BY KeptBound
<1>1. /\ issued \in Seq(Command) /\ Kept \in Nat /\ Kept <= n /\ log \in [Workers -> Seq(Nat)]
      /\ wpc[w] = "execute" /\ issued' = issued /\ log' = [log EXCEPT ![w] = Append(@, got[w])]
      /\ got[w] \in Nat
  BY KeptBound, LogType DEF IPCInv, IPCTypeOK, ExecuteMethod, ExecuteBarriers, masterVars
<1>2. (Lossless' <=> Lossless) /\ Kept' = Kept /\ barIssued' = barIssued
  BY <1>1, KeptSame DEF barIssued
<1>3. log'[w] = Append(log[w], got[w]) /\ \A v \in Workers \ {w} : log'[v] = log[v]
  BY <1>1
<1>4. ASSUME NEW v \in Workers, v # w PROVE ExecutedBy(v)' = ExecutedBy(v)
  BY <1>1, <1>2, <1>3, <1>4 DEF ExecutedBy
<1>5. CASE Lossless
  <2>1. n > 0 /\ Executing(w, n)
    BY <1>1, <1>5 DEF IPCInv, LosslessInv, Done, Behind, AtRest, Unaware, Reading
  <2>2. got[w] = n /\ Received(w, n - 1) /\ Kept = n
    BY <1>1, <1>5, <2>1, KeptFacts DEF Executing
  <2>3. Received(w, n)'
    BY <1>1, <1>3, <2>1, <2>2, LogType, AppendFacts DEF Received, IPCInv
  <2>4. AllTook /\ AllTook'
    BY EveryTook, PTL
  <2>5. Took(w, n)' /\ Took(w, n - 1)
    <3>1. Took(w, n - 1)
      <4>1. n - 1 \in 0 .. Len(issued)
        BY ONLY <2>1, n \in Nat, n = Len(issued)
      <4> QED BY ONLY <1>5, <2>2, <2>4, <4>1, w \in Workers DEF AllTook
    <3>2. Took(w, n)'
      <4>1. Lossless' /\ n \in 0 .. Len(issued')
        BY ONLY <1>1, <1>2, <1>5, n \in Nat, n = Len(issued)
      <4> QED BY ONLY <2>3, <2>4, <4>1, w \in Workers DEF AllTook
    <3> QED BY ONLY <3>1, <3>2
  <2>6. ExecutedBy(w) = [i \in 1 .. n - 1 |-> issued[i]]
    BY <2>1, <2>5, TookExecuted
  <2>7. ExecutedBy(w)' = [i \in 1 .. n |-> issued[i]]
    BY <1>1, <2>5 DEF Took, ExecutedBy
  <2>8. barIssued = issued
    BY <1>1, <2>2 DEF barIssued
  <2>9. /\ Len(ExecutedBy(w)) = n - 1
        /\ ExecutedBy(w)' = Append(ExecutedBy(w), issued[n])
    <3>1. \A i \in 1 .. n : issued[i] \in Command
      BY <1>1
    <3>2. ExecutedBy(w) \in Seq(Command) /\ Len(ExecutedBy(w)) = n - 1
      BY <2>1, <2>6, <3>1
    <3>3. Append(ExecutedBy(w), issued[n]) = [i \in 1 .. n |-> issued[i]]
      BY <2>1, <2>6, <3>1, <3>2
    <3> QED BY <2>7, <3>2, <3>3
  <2>10. barExecuted' = [barExecuted EXCEPT ![w] = Append(@, issued[n])]
    BY <1>4, <2>9 DEF barExecuted
  <2>11. barExecuted[w] = ExecutedBy(w)
    BY DEF barExecuted
  <2>12. /\ Len(barExecuted[w]) < Len(barIssued)
         /\ barExecuted' = [barExecuted EXCEPT ![w] = Append(@, barIssued[Len(@) + 1])]
    <3>1. Len(barExecuted[w]) = n - 1 /\ Len(barIssued) = n
      BY <2>8, <2>9, <2>11
    <3>2. barIssued[Len(barExecuted[w]) + 1] = issued[n]
      BY <2>1, <2>8, <3>1
    <3> QED BY <2>1, <2>10, <3>1, <3>2
  <2> QED BY <1>2, <2>12 DEF B!Execute, barIssued, barExecuted, ExecutedBy
<1>6. CASE ~Lossless
  <2>1. AllTook /\ AllTook'
    BY EveryTook, PTL
  <2> PICK k \in Nat : k = Kept
    BY <1>1
  <2>2. Took(w, k) /\ Took(w, k)'
    BY <1>2, <1>6, <2>1 DEF AllTook, Took
  <2>3. ExecutedBy(w)' = ExecutedBy(w)
    BY <1>1, <2>2, SameExecuted
  <2> QED BY <1>2, <1>4, <2>3 DEF barExecuted
<1> QED BY <1>5, <1>6

LEMMA RefineInit == Init => B!Init
<1> SUFFICES ASSUME Init PROVE B!Init
  OBVIOUS
<1>1. Kept = 0 /\ issued = << >> /\ IPCInv
  BY InvInit, KeptFacts DEF Init, IPCInv, IPCTypeOK, Lossless
<1>2. barIssued = << >>
  BY <1>1 DEF barIssued
<1>3. \A w \in Workers : ExecutedBy(w) = << >>
  BY <1>1 DEF Init, ExecutedBy
<1> QED BY <1>2, <1>3 DEF B!Init, barIssued, ExecutedBy

LEMMA RefineNext == IPCInv /\ IPCInv' /\ [Next]_vars => [B!Next]_(B!vars)
<1> SUFFICES ASSUME IPCInv, IPCInv', [Next]_vars PROVE B!Next \/ UNCHANGED <<barIssued, barExecuted>>
  BY DEF B!vars, barIssued, barExecuted, ExecutedBy
<1>1. ASSUME NEW c \in Methods \cup {"exit"}, Call(c) PROVE B!Next \/ UNCHANGED <<barIssued, barExecuted>>
  BY <1>1, RefineCall DEF Command, B!Next
<1>2. ASSUME NEW w \in Workers, ExecuteMethod(w) \/ ExecuteBarriers(w)
      PROVE  B!Next \/ UNCHANGED <<barIssued, barExecuted>>
  BY <1>2, RefineExecute DEF B!Next
<1>3. CASE UNCHANGED <<issued, log>>
  <2>1. Kept' = Kept
    BY <1>3, KeptSame
  <2> QED BY <1>3, <2>1 DEF barIssued, barExecuted, ExecutedBy
<1>4. \/ UNCHANGED <<issued, log>>
      \/ \E c \in Methods \cup {"exit"} : Call(c)
      \/ \E w \in Workers : ExecuteMethod(w) \/ ExecuteBarriers(w)
  BY DEF Next, Master, WriteLength, WriteData, SetEvent, Execute, Return, Worker, WaitEvent, ReadLength,
     ReadData, ReadTorn, Clear, EnterBarrier, LeaveBarrier, EndBarriers, vars, masterVars, workerVars
<1> QED BY <1>1, <1>2, <1>3, <1>4

(* The safety half of RefinesBroadcast: DistMethodCell delegates every       *)
(* command to every worker once and in order, and rank 0 issues the next     *)
(* command only when all workers have received the last, up to the first     *)
(* command that unpairs the ranks.                                           *)
THEOREM DelegatesInOrder == Spec => B!Init /\ [][B!Next]_(B!vars)
BY InvInit, InvNext, RefineInit, RefineNext, PTL DEF Spec

=============================================================================
