----------------------------- MODULE DiagnoseFile -----------------------------
(***************************************************************************)
(* One call of Provider.DiagnoseFile: a goroutine per object of the file,  *)
(* each started with recovery.SafeGo, a WaitGroup that counts them down    *)
(* and a channel that collects one batch of diagnostics from each.         *)
(*                                                                         *)
(* A goroutine's deferred wg.Done runs when it panics too; its send does   *)
(* not.  It panics when the simple AST has no entry of its object's index. *)
(***************************************************************************)
EXTENDS Integers, Sequences

CONSTANT N          \* number of objects of the file

ASSUME NAssumption == N \in Nat

Object == 1..N

\* What a goroutine finds: the object did not decode, is invalid, refers to something
\* that does not exist, or nothing (the API's error on a reference counts as nothing).
Finding == {"decode", "validity", "reference", "nothing"}
Batch == [object : Object, about : Finding]

VARIABLES
  fileErr,   \* file.Err # nil
  verdict,   \* what decoding and validating each object gives
  docs,      \* len(file.SimpleAST)
  pc,        \* the caller: "start", "spawn", "wait", "collect", "done"
  spawned,   \* the number of goroutines started
  wg,        \* the WaitGroup's counter
  ch,        \* the channel
  worker,    \* each object's goroutine: "none", "run", "sent", "panicked", "ended"
  result     \* the diagnostics collected, batch by batch

vars == <<fileErr, verdict, docs, pc, spawned, wg, ch, worker, result>>
input == <<fileErr, verdict, docs>>

Init ==
  /\ fileErr \in BOOLEAN
  /\ verdict \in [Object -> {"decode", "validity", "valid"}]
  /\ docs \in 0..N
  /\ pc = "start"
  /\ spawned = 0
  /\ wg = 0
  /\ ch = <<>>
  /\ worker = [i \in Object |-> "none"]
  /\ result = <<>>

\* Mutant: the channel is too small for the last batch.
ChanSizeMutant == N - 1

\* make(chan []messages.Diagnostic, len(file.Objects))
ChanSize == N

-----------------------------------------------------------------------------
(* The caller.                                                              *)

\* The error of the file itself is the only diagnostic.
ReturnFileError ==
  /\ pc = "start"
  /\ fileErr
  /\ pc' = "done"
  /\ UNCHANGED <<input, spawned, wg, ch, worker, result>>

\* Mutant: the counter starts one too low.
AddAllMutant ==
  /\ pc = "start"
  /\ ~fileErr
  /\ pc' = "spawn"
  /\ wg' = N - 1
  /\ UNCHANGED <<input, spawned, ch, worker, result>>

AddAll ==
  /\ pc = "start"
  /\ ~fileErr
  /\ pc' = "spawn"
  /\ wg' = N
  /\ UNCHANGED <<input, spawned, ch, worker, result>>

Spawn ==
  /\ pc = "spawn"
  /\ spawned < N
  /\ spawned' = spawned + 1
  /\ worker' = [worker EXCEPT ![spawned + 1] = "run"]
  /\ UNCHANGED <<input, pc, wg, ch, result>>

AllSpawned ==
  /\ pc = "spawn"
  /\ spawned = N
  /\ pc' = "wait"
  /\ UNCHANGED <<input, spawned, wg, ch, worker, result>>

\* Mutant: does not wait for the goroutines.
WaitMutant ==
  /\ pc = "wait"
  /\ pc' = "collect"
  /\ UNCHANGED <<input, spawned, wg, ch, worker, result>>

Wait ==
  /\ pc = "wait"
  /\ wg = 0
  /\ pc' = "collect"
  /\ UNCHANGED <<input, spawned, wg, ch, worker, result>>

\* for range file.Objects: one receive per object.
Collect ==
  /\ pc = "collect"
  /\ Len(result) < N
  /\ ch # <<>>
  /\ ch' = Tail(ch)
  /\ result' = Append(result, Head(ch))
  /\ UNCHANGED <<input, pc, spawned, wg, worker>>

Return ==
  /\ pc = "collect"
  /\ Len(result) = N
  /\ pc' = "done"
  /\ UNCHANGED <<input, spawned, wg, ch, worker, result>>

-----------------------------------------------------------------------------
(* The goroutine of object i.                                               *)

Send(i, about) ==
  /\ worker[i] = "run"
  /\ Len(ch) < ChanSize
  /\ ch' = Append(ch, [object |-> i, about |-> about])
  /\ worker' = [worker EXCEPT ![i] = "sent"]
  /\ UNCHANGED <<input, pc, spawned, wg, result>>

Panics(i) == verdict[i] # "decode" /\ i > docs

\* Mutant: no return after the batch of an object that did not decode.
DecodeErrorMutant(i) ==
  /\ verdict[i] = "decode"
  /\ worker[i] = "run"
  /\ Len(ch) + 1 < ChanSize
  /\ ch' = ch \o <<[object |-> i, about |-> "decode"], [object |-> i, about |-> "nothing"]>>
  /\ worker' = [worker EXCEPT ![i] = "sent"]
  /\ UNCHANGED <<input, pc, spawned, wg, result>>

DecodeError(i) == verdict[i] = "decode" /\ Send(i, "decode")

\* References are checked only in a valid object.
Diagnose(i) ==
  /\ verdict[i] # "decode"
  /\ ~Panics(i)
  /\ \/ verdict[i] = "validity" /\ Send(i, "validity")
     \/ verdict[i] = "valid" /\ \E f \in {"reference", "nothing"} : Send(i, f)

\* Mutant: the deferred wg.Done is a statement the panic skips.
PanicMutant(i) ==
  /\ worker[i] = "run"
  /\ Panics(i)
  /\ worker' = [worker EXCEPT ![i] = "panicked"]
  /\ UNCHANGED <<input, pc, spawned, wg, ch, result>>

\* file.SimpleAST[i] is out of range: no send, but the deferred wg.Done.
Panic(i) ==
  /\ worker[i] = "run"
  /\ Panics(i)
  /\ worker' = [worker EXCEPT ![i] = "panicked"]
  /\ wg' = wg - 1
  /\ UNCHANGED <<input, pc, spawned, ch, result>>

Done(i) ==
  /\ worker[i] = "sent"
  /\ worker' = [worker EXCEPT ![i] = "ended"]
  /\ wg' = wg - 1
  /\ UNCHANGED <<input, pc, spawned, ch, result>>

Caller == ReturnFileError \/ AddAll \/ Spawn \/ AllSpawned \/ Wait \/ Collect \/ Return
Worker(i) == DecodeError(i) \/ Diagnose(i) \/ Panic(i) \/ Done(i)

Next == Caller \/ \E i \in Object : Worker(i)

\* The caller and every goroutine that can run does; the API calls of Diagnose return.
Fairness == WF_vars(Caller) /\ \A i \in Object : WF_vars(Worker(i))

Spec == Init /\ [][Next]_vars /\ Fairness

-----------------------------------------------------------------------------
(* Properties.                                                              *)

\* The type invariant: the WaitGroup's counter is never negative (Go panics if it is).
TypeOK ==
  /\ fileErr \in BOOLEAN
  /\ verdict \in [Object -> {"decode", "validity", "valid"}]
  /\ docs \in 0..N
  /\ pc \in {"start", "spawn", "wait", "collect", "done"}
  /\ spawned \in 0..N
  /\ wg \in 0..N
  /\ ch \in Seq(Batch)
  /\ worker \in [Object -> {"none", "run", "sent", "panicked", "ended"}]
  /\ result \in Seq(Batch)

Panicked == \E i \in Object : worker[i] = "panicked"

\* The channel has room for every goroutine: none is ever blocked in its send, so the
\* WaitGroup cannot wait for a goroutine that waits for the caller to receive.
NoSendBlocks == \A i \in Object : worker[i] = "run" => Len(ch) < ChanSize

\* When DiagnoseFile returns, it returns exactly one batch of every object, each what its
\* goroutine found, in whatever order the goroutines ran.  After a panic it does not return
\* (ServerPanic), and this and NoGoroutineLeft say nothing.
OneBatchPerObject ==
  pc = "done" /\ ~fileErr =>
    /\ Len(result) = N
    /\ \A i \in Object : \E k \in 1..N :
         /\ result[k].object = i
         /\ verdict[i] # "valid" => result[k].about = verdict[i]

\* No goroutine outlives a call that returns.
NoGoroutineLeft ==
  pc = "done" => \A i \in Object : worker[i] \in {"none", "ended"}

\* Without a panic the call returns.
Returns == <>(pc = "done" \/ Panicked)

\* A panic does not keep the caller in wg.Wait: it gets on to collect the batches.
WaitEnds == pc = "wait" ~> pc \in {"collect", "done"}
=============================================================================
