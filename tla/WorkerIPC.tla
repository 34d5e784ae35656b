----------------------------- MODULE WorkerIPC -----------------------------
(***************************************************************************)
(* How rank 0 drives the worker processes of tensor parallelism: the       *)
(* IPCWorkerWrapper of src/src/core/artifact.py and the DistMethodCell     *)
(* that calls it; ModelRunner of the nanovllm services has its own copy    *)
(* of the same protocol.  Commands go through one buffer of shared memory  *)
(* and one multiprocessing.Event per worker; the ranks meet otherwise only *)
(* in the collectives of torch.distributed.                                *)
(*                                                                         *)
(* A command is known by its number in "issued".  "run" is a method whose  *)
(* result rank 0 waits for and that contains a collective (ModelRunner.run *)
(* of a sharded model), "method" one without a collective (compress,       *)
(* reset), "sync" is __SYNC_REGISTRY__.                                    *)
(***************************************************************************)
EXTENDS Integers, SequencesExt

CONSTANTS
  NumWorkers,   \* world_size - 1
  Methods,      \* the commands the program calls
  CellCount,    \* the number of cells of the artifact that is deployed
  MaxCommands   \* bound: commands before exit

ASSUME IPCAssumption ==
  /\ NumWorkers \in Nat \ {0} /\ CellCount \in Nat /\ MaxCommands \in Nat
  /\ Methods \subseteq {"run", "method", "sync"}

Workers == 1 .. NumWorkers
Ranks == 0 .. NumWorkers

VARIABLES
  issued,   \* the commands write_shm was called with
  length,   \* shm.buf[0:4]: the command whose length it is
  data,     \* shm.buf[4:]: the command whose bytes it holds
  event,    \* the Event of every worker
  mpc,      \* where rank 0 is
  setting,  \* the worker whose event rank 0 sets next
  wpc,      \* where every worker is
  sized,    \* the command whose length a worker read
  got,      \* the command whose bytes a worker read
  log,      \* the commands a worker has begun to execute
  todo,     \* barriers a worker still has to enter for its command
  coll      \* the collectives every rank has entered

masterVars == <<issued, length, data, mpc, setting>>
workerVars == <<wpc, sized, got, log, todo>>
vars == <<issued, length, data, event, mpc, setting, wpc, sized, got, log, todo, coll>>

Init ==
  /\ issued = << >> /\ length = 0 /\ data = 0
  /\ event = [w \in Workers |-> FALSE]
  /\ mpc = "idle" /\ setting = 1
  /\ wpc = [w \in Workers |-> "wait"]
  /\ sized = [w \in Workers |-> 0] /\ got = [w \in Workers |-> 0]
  /\ log = [w \in Workers |-> << >>]
  /\ todo = [w \in Workers |-> 0]
  /\ coll = [r \in Ranks |-> << >>]

(* torch.distributed completes a collective when every rank has entered it. *)
Met(r) == \A q \in Ranks : Len(coll[q]) >= Len(coll[r])

-----------------------------------------------------------------------------
(* Rank 0: the call of a DistMethodCell, sync_registry or exit. *)
Call(c) ==
  /\ mpc = "idle"
  /\ Len(issued) < MaxCommands \/ c = "exit"
  /\ issued' = Append(issued, c)
  /\ mpc' = "length"
  /\ UNCHANGED <<length, data, event, setting, workerVars, coll>>

(* Mutation: the events are set before the buffer is written. *)
WriteLengthAfterEvents ==
  /\ mpc = "length"
  /\ event' = [w \in Workers |-> TRUE]
  /\ length' = Len(issued)
  /\ mpc' = "data"
  /\ UNCHANGED <<issued, data, setting, workerVars, coll>>

(* write_shm: the length, the pickled command, then the events in rank order. *)
WriteLength ==
  /\ mpc = "length"
  /\ length' = Len(issued)
  /\ mpc' = "data"
  /\ UNCHANGED <<issued, data, event, setting, workerVars, coll>>

WriteData ==
  /\ mpc = "data"
  /\ data' = Len(issued)
  /\ mpc' = "events" /\ setting' = 1
  /\ UNCHANGED <<issued, length, event, workerVars, coll>>

SetEvent ==
  /\ mpc = "events"
  /\ event' = [event EXCEPT ![setting] = TRUE]
  /\ setting' = IF setting < NumWorkers THEN setting + 1 ELSE 1
  /\ mpc' = IF setting < NumWorkers THEN "events" ELSE "execute"
  /\ UNCHANGED <<issued, length, data, workerVars, coll>>

CollectiveOf(c) == IF c = "run" THEN "all_reduce" ELSE "barrier"

(* Rank 0 executes the method itself, or enters the barrier of sync and exit. *)
Execute ==
  /\ mpc = "execute"
  /\ coll' = IF Last(issued) = "method" THEN coll
             ELSE [coll EXCEPT ![0] = Append(@, CollectiveOf(Last(issued)))]
  /\ mpc' = "result"
  /\ UNCHANGED <<issued, length, data, event, setting, workerVars>>

(* Mutation: rank 0 does not wait for the result. *)
ReturnAtOnce ==
  /\ mpc = "result"
  /\ mpc' = IF Last(issued) = "exit" THEN "exited" ELSE "idle"
  /\ UNCHANGED <<issued, length, data, event, setting, workerVars, coll>>

Return ==
  /\ mpc = "result" /\ Met(0)
  /\ mpc' = IF Last(issued) = "exit" THEN "exited" ELSE "idle"
  /\ UNCHANGED <<issued, length, data, event, setting, workerVars, coll>>

Master ==
  \/ \E c \in Methods \cup {"exit"} : Call(c)
  \/ WriteLength \/ WriteData \/ SetEvent \/ Execute \/ Return

-----------------------------------------------------------------------------
(* A worker in loop(): read_shm waits for its event, *)
WaitEvent(w) ==
  /\ wpc[w] = "wait" /\ event[w]
  /\ wpc' = [wpc EXCEPT ![w] = "size"]
  /\ UNCHANGED <<masterVars, event, sized, got, log, todo, coll>>

(* reads whatever length and bytes the buffer holds by then, *)
ReadLength(w) ==
  /\ wpc[w] = "size"
  /\ sized' = [sized EXCEPT ![w] = length]
  /\ wpc' = [wpc EXCEPT ![w] = "read"]
  /\ UNCHANGED <<masterVars, event, got, log, todo, coll>>

ReadData(w) ==
  /\ wpc[w] = "read"
  /\ got' = [got EXCEPT ![w] = data]
  /\ wpc' = [wpc EXCEPT ![w] = "clear"]
  /\ UNCHANGED <<masterVars, event, sized, log, todo, coll>>

(* where pickle.loads raises if the length cuts the bytes short or they    *)
(* are being overwritten,                                                  *)
ReadTorn(w) ==
  /\ wpc[w] = "read" /\ (sized[w] # data \/ length # data)
  /\ wpc' = [wpc EXCEPT ![w] = "raised"]
  /\ UNCHANGED <<masterVars, event, sized, got, log, todo, coll>>

(* and clears its event. *)
Clear(w) ==
  /\ wpc[w] = "clear"
  /\ event' = [event EXCEPT ![w] = FALSE]
  /\ wpc' = [wpc EXCEPT ![w] = "execute"]
  /\ UNCHANGED <<masterVars, sized, got, log, todo, coll>>

(* A method: its collective goes to the stream of the device and the worker *)
(* returns to its loop.                                                     *)
ExecuteMethod(w) ==
  /\ wpc[w] = "execute" /\ issued[got[w]] \in {"run", "method"}
  /\ log' = [log EXCEPT ![w] = Append(@, got[w])]
  /\ coll' = IF issued[got[w]] = "method" THEN coll
             ELSE [coll EXCEPT ![w] = Append(@, "all_reduce")]
  /\ wpc' = [wpc EXCEPT ![w] = "wait"]
  /\ UNCHANGED <<masterVars, event, sized, got, todo>>

(* __SYNC_REGISTRY__ enters one barrier for every cell, exit enters one.    *)
ExecuteBarriers(w) ==
  /\ wpc[w] = "execute" /\ issued[got[w]] \in {"sync", "exit"}
  /\ log' = [log EXCEPT ![w] = Append(@, got[w])]
  /\ todo' = [todo EXCEPT ![w] = IF issued[got[w]] = "sync" THEN CellCount ELSE 1]
  /\ wpc' = [wpc EXCEPT ![w] = "barrier"]
  /\ UNCHANGED <<masterVars, event, sized, got, coll>>

(* Mutation: the barriers are not counted. *)
EnterBarrierAlways(w) ==
  /\ wpc[w] = "barrier"
  /\ coll' = [coll EXCEPT ![w] = Append(@, "barrier")]
  /\ todo' = [todo EXCEPT ![w] = @ - 1]
  /\ wpc' = [wpc EXCEPT ![w] = "met"]
  /\ UNCHANGED <<masterVars, event, sized, got, log>>

EnterBarrier(w) ==
  /\ wpc[w] = "barrier" /\ todo[w] > 0
  /\ coll' = [coll EXCEPT ![w] = Append(@, "barrier")]
  /\ todo' = [todo EXCEPT ![w] = @ - 1]
  /\ wpc' = [wpc EXCEPT ![w] = "met"]
  /\ UNCHANGED <<masterVars, event, sized, got, log>>

LeaveBarrier(w) ==
  /\ wpc[w] = "met" /\ Met(w)
  /\ wpc' = [wpc EXCEPT ![w] = "barrier"]
  /\ UNCHANGED <<masterVars, event, sized, got, log, todo, coll>>

EndBarriers(w) ==
  /\ wpc[w] = "barrier" /\ todo[w] = 0
  /\ wpc' = [wpc EXCEPT ![w] = IF issued[got[w]] = "exit" THEN "exited" ELSE "wait"]
  /\ UNCHANGED <<masterVars, event, sized, got, log, todo, coll>>

Worker(w) ==
  \/ WaitEvent(w) \/ ReadLength(w) \/ ReadData(w) \/ ReadTorn(w) \/ Clear(w)
  \/ ExecuteMethod(w) \/ ExecuteBarriers(w)
  \/ EnterBarrier(w) \/ LeaveBarrier(w) \/ EndBarriers(w)

Next == Master \/ (\E w \in Workers : Worker(w))

(* The operating system runs every process; the program of rank 0 ends. *)
Spec == /\ Init /\ [][Next]_vars
        /\ WF_vars(Master) /\ \A w \in Workers : WF_vars(Worker(w))

-----------------------------------------------------------------------------
(* The commands after which the ranks are not in step any more: a method    *)
(* without a collective may be lost, and __SYNC_REGISTRY__ leaves a worker  *)
(* in barriers rank 0 does not enter, or rank 0 in one no worker enters,    *)
(* unless the artifact has exactly one cell.  The other promises are about  *)
(* what is issued before the first such command.                            *)
Unpaired(c) == c = "method" \/ (c = "sync" /\ CellCount # 1)

FirstLossy == SelectInSeq(issued, Unpaired)
Kept == IF FirstLossy = 0 THEN Len(issued) ELSE FirstLossy - 1

(* sync_registry "broadcasts finalized DAG state" to "the waiting workers": *)
(* with every command a collective (sync_registry and loop, run on every    *)
(* rank, exit), the n-th of one rank is never another operation than the    *)
(* n-th of another rank.                                                    *)
CollectivesPair ==
  \A p, q \in Ranks : IsPrefix(coll[p], coll[q]) \/ IsPrefix(coll[q], coll[p])

(* The same as long as no command was issued that unpairs the ranks: the    *)
(* protocol of the ModelRunners that have no __SYNC_REGISTRY__.             *)
CollectivesMatch == FirstLossy = 0 => CollectivesPair

(* DistMethodCell delegates "the broadcast logic": a worker executes the   *)
(* commands of rank 0 one by one, none skipped and none twice.             *)
NoneSkipped == \A w \in Workers : \A i \in DOMAIN log[w] : log[w][i] = i

(* Even where commands are lost, no worker reads a command that was not    *)
(* issued, or an older one than it has executed (write_shm, read_shm).     *)
NeverBackwards ==
  \A w \in Workers : wpc[w] \in {"clear", "execute"} =>
    /\ got[w] \in DOMAIN issued
    /\ \A i \in DOMAIN log[w] : log[w][i] <= got[w]

(* Commands with a collective are broadcast as Broadcast says: executed by *)
(* every worker, once, in order, before the next is issued.                *)
B == INSTANCE Broadcast WITH
       Commands <- Methods \cup {"exit"},
       issued <- SubSeq(issued, 1, Kept),
       executed <- [w \in Workers |->
                     [i \in {j \in DOMAIN log[w] : log[w][j] <= Kept} |-> issued[log[w][i]]]]
RefinesBroadcast == B!Spec

(* Rank 0 and all workers leave their loops: exit never waits for a rank   *)
(* that does not come.                                                     *)
Shutdown == <>(FirstLossy # 0 \/ (mpc = "exited" /\ \A w \in Workers : wpc[w] = "exited"))
=============================================================================
