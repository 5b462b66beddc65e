------------------------------ MODULE RuntimeStore -----------------------------
(***************************************************************************)
(* transact of the two Runtime stores, a step per awaited statement, with  *)
(* the answer the Interface worker gives.  Any await of the Postgres store *)
(* may reject, also when the server executed the statement; the server     *)
(* ends the transaction of a connection that is gone.  What Runtime.execute*)
(* does between two awaits is the constant Transition.                     *)
(***************************************************************************)
EXTENDS Integers, Sequences

CONSTANTS Attempts, Nonce, NoNonce, States, EmptyState, Transition, Refused,
  Backends,  \* {"postgres"}, {"memory"} or both
  Nobody

VARIABLES
  backend,   \* which store the process was built with
  row,       \* the singleton row, or Absent; the memory store's state
  used,      \* openrails_runtime_replay_nonces; the memory store's set
  locked,    \* the transaction that holds the row's lock
  queue,     \* the chain of promises behind mutationTail
  pc,        \* pc[a]: the await of attempt a
  draft,     \* draft[a]: the state a works on
  outcome, answer

work == <<row, used, locked, queue>>
storeVars == <<backend, work, pc, draft, outcome, answer>>

Absent == Refused  \* no state either

Current == IF row = Absent THEN EmptyState ELSE row

Store == INSTANCE AtomicStore WITH state <- Current

ASSUME StoreAssumption ==
  /\ EmptyState \in States /\ Refused \notin States
  /\ Transition \in [Attempts -> [States -> States \cup {Refused}]]
  /\ Backends \subseteq {"postgres", "memory"} /\ Nobody \notin Attempts

Awaits == {"idle", "select", "consume", "commit", "sent", "lost", "throw", "end"}

StoreTypeOK ==
  /\ backend \in Backends
  /\ row \in States \cup {Absent}
  /\ locked \in Attempts \cup {Nobody} /\ queue \in Seq(Attempts)
  /\ pc \in [Attempts -> Awaits] /\ draft \in [Attempts -> States]
  /\ outcome \in [Attempts -> Store!Outcomes]
  /\ answer \in [Attempts -> Store!Outcomes \cup {"error"}]

StoreInit ==
  /\ backend \in Backends
  /\ row = Absent /\ used = {} /\ locked = Nobody /\ queue = <<>>
  /\ pc = [a \in Attempts |-> "idle"]
  /\ draft = [a \in Attempts |-> EmptyState]
  /\ outcome = [a \in Attempts |-> "none"]
  /\ answer = [a \in Attempts |-> "none"]

Go(a, from, to) == pc[a] = from /\ pc' = [pc EXCEPT ![a] = to]

(* BEGIN, and the insert of the singleton row.  It does nothing if the row *)
(* exists, and waits for a transaction that is inserting it.               *)
Begin(a) ==
  /\ backend = "postgres" /\ Go(a, "idle", "select")
  /\ IF row = Absent THEN locked = Nobody /\ locked' = a ELSE locked' = locked
  /\ UNCHANGED <<backend, row, used, queue, draft, outcome, answer>>

SelectForUpdate(a) ==
  /\ backend = "postgres" /\ Go(a, "select", "consume")
  /\ locked \in {Nobody, a} /\ locked' = a
  /\ draft' = [draft EXCEPT ![a] = Current]
  /\ UNCHANGED <<backend, row, used, queue, outcome, answer>>

(* transact of the memory store joins the chain, and runs when what stood  *)
(* before it has been released.                                            *)
Enqueue(a) ==
  /\ backend = "memory" /\ Go(a, "idle", "select")
  /\ queue' = Append(queue, a)
  /\ UNCHANGED <<backend, row, used, locked, draft, outcome, answer>>
(* Mutant: the chain is joined, but not waited for.                        *)
DraftAtOnce(a) ==
  /\ backend = "memory" /\ Go(a, "select", "consume")
  /\ locked' = a
  /\ draft' = [draft EXCEPT ![a] = Current]
  /\ UNCHANGED <<backend, row, used, queue, outcome, answer>>

Draft(a) ==
  /\ backend = "memory" /\ Go(a, "select", "consume")
  /\ queue # <<>> /\ Head(queue) = a /\ locked' = a
  /\ draft' = [draft EXCEPT ![a] = Current]
  /\ UNCHANGED <<backend, row, used, queue, outcome, answer>>

(* consumeReplayNonce and, in the same breath, the transition.  Nobody     *)
(* sees the nonce before the commit: the lock keeps others from looking.   *)
(* Mutant: a consumed nonce goes straight into the set.                    *)
ConsumeAtOnce(a) ==
  LET next == Transition[a][draft[a]]
      fresh == Store!Consumed(a) \cap used = {}
  IN  /\ IF fresh /\ next # Refused
         THEN /\ Go(a, "consume", "commit")
              /\ draft' = [draft EXCEPT ![a] = next]
              /\ UNCHANGED outcome
         ELSE /\ Go(a, "consume", "throw")
              /\ outcome' = [outcome EXCEPT ![a] =
                               IF fresh THEN "refused" ELSE "conflict"]
              /\ UNCHANGED draft
      /\ used' = used \cup Store!Consumed(a)
      /\ UNCHANGED <<backend, row, locked, queue, answer>>

Consume(a) ==
  LET next == Transition[a][draft[a]]
      fresh == Store!Consumed(a) \cap used = {}
  IN  /\ IF fresh /\ next # Refused
         THEN /\ Go(a, "consume", "commit")
              /\ draft' = [draft EXCEPT ![a] = next]
              /\ UNCHANGED outcome
         ELSE /\ Go(a, "consume", "throw")
              /\ outcome' = [outcome EXCEPT ![a] =
                               IF fresh THEN "refused" ELSE "conflict"]
              /\ UNCHANGED draft
      /\ UNCHANGED <<backend, work, answer>>

(* UPDATE, and COMMIT is sent.  The memory store assigns both drafts.      *)
Publish(a) ==
  /\ row' = draft[a] /\ used' = used \cup Store!Consumed(a)
  /\ outcome' = [outcome EXCEPT ![a] = "applied"]

SendCommit(a) ==
  /\ backend = "postgres" /\ Go(a, "commit", "sent")
  /\ UNCHANGED <<backend, work, draft, outcome, answer>>

CommitOnServer(a) ==
  /\ pc[a] \in {"sent", "lost"} /\ locked = a
  /\ locked' = Nobody /\ Publish(a)
  /\ UNCHANGED <<backend, queue, pc, draft, answer>>

Assign(a) ==
  /\ backend = "memory" /\ Go(a, "commit", "sent")
  /\ locked' = Nobody /\ queue' = Tail(queue) /\ Publish(a)
  /\ UNCHANGED <<backend, draft, answer>>

(* Mutant: mutationTail is released after a result, not after an error.    *)
ReplyWithoutFinally(a) ==
  /\ \/ Go(a, "sent", "end") /\ outcome[a] = "applied"
     \/ Go(a, "throw", "end")
  /\ answer' = [answer EXCEPT ![a] = outcome[a]]
  /\ UNCHANGED <<backend, work, draft, outcome>>

(* The catch and finally clauses, and the response.                        *)
Reply(a) ==
  /\ \/ Go(a, "sent", "end") /\ outcome[a] = "applied"
     \/ Go(a, "throw", "end")
  /\ answer' = [answer EXCEPT ![a] = outcome[a]]
  /\ IF pc[a] = "throw" /\ backend = "memory"
     THEN locked' = Nobody /\ queue' = Tail(queue)
     ELSE UNCHANGED <<locked, queue>>
  /\ UNCHANGED <<backend, row, used, draft, outcome>>

(* An await rejects, or the isolate is gone.  The client hears of a        *)
(* retryable internal error; a COMMIT that was sent may yet be executed.   *)
Fail(a) ==
  /\ backend = "postgres"
  /\ \E from \in {"select", "consume", "commit"} : Go(a, from, "end")
     \/ Go(a, "sent", "lost")
  /\ answer' = [answer EXCEPT ![a] = "error"]
  /\ UNCHANGED <<backend, work, draft, outcome>>

(* ROLLBACK, or the server ends what a closed connection left open.        *)
Rollback(a) ==
  /\ backend = "postgres"
  /\ pc[a] \in {"throw", "lost", "end"} /\ locked = a
  /\ locked' = Nobody
  /\ UNCHANGED <<backend, row, used, queue, pc, draft, outcome, answer>>

Step(a) ==
  \/ Begin(a) \/ SelectForUpdate(a) \/ Enqueue(a) \/ Draft(a) \/ Consume(a)
  \/ SendCommit(a) \/ CommitOnServer(a) \/ Assign(a) \/ Reply(a) \/ Rollback(a)

StoreNext == \E a \in Attempts : Step(a) \/ Fail(a)

StoreSpec == StoreInit /\ [][StoreNext]_storeVars

(* Statements are executed, answered or rejected, and the server ends the  *)
(* transactions of closed connections; a lock that stays free is granted.  *)
FairStoreSpec == StoreSpec /\ \A a \in Attempts : WF_storeVars(Step(a))

-------------------------------------------------------------------------------
(* The state an attempt works on is the committed one from the moment it   *)
(* reads it until the transaction of the attempt ends.                     *)
Holding(a) ==
  /\ pc[a] \in {"consume", "commit"} => locked = a /\ answer[a] = "none"
  /\ pc[a] = "consume" => outcome[a] = "none" /\ draft[a] = Current
  /\ pc[a] = "commit" \/ (pc[a] \in {"sent", "lost"} /\ locked = a) =>
       /\ outcome[a] = "none" /\ Store!Consumed(a) \cap used = {}
       /\ draft[a] = Transition[a][Current]
  /\ pc[a] \in {"idle", "select"} => outcome[a] = "none" /\ answer[a] = "none"
  /\ pc[a] \in {"sent", "throw"} => answer[a] = "none"
  /\ pc[a] = "throw" => /\ outcome[a] \in {"refused", "conflict"}
                        /\ backend = "memory" => locked = a
  /\ locked = a /\ backend = "memory" =>
       queue # <<>> /\ Head(queue) = a /\ pc[a] \in {"consume", "commit", "throw"}

(* The inductive invariant behind the theorems of RuntimeStoreProofs.      *)
StoreIInv == StoreTypeOK /\ \A a \in Attempts : Holding(a)

(* Both stores do what the Runtime asks of one, whatever fails and in      *)
(* whatever order attempts overlap: no update is lost, no transition is    *)
(* decided on a state that is gone, and no client is told otherwise        *)
(* (PostgresRuntimeStore.transact, SerializedRuntimeStore.transact).       *)
IsAtomicStore == Store!Spec

(* A nonce is consumed exactly by a transition that took effect, so that a *)
(* refused or failed request can be sent again, and an applied one never   *)
(* takes effect twice (consumeReplayNonce, execute).                       *)
NoncesMatchEffects ==
  /\ used = UNION {Store!Consumed(a) : a \in {b \in Attempts : outcome[b] = "applied"}}
  /\ \A a, b \in Attempts :
       /\ outcome[a] = "applied" /\ outcome[b] = "applied"
       /\ Nonce[a] = Nonce[b] /\ Nonce[a] # NoNonce
       => a = b

(* Nobody waits for ever, although transactions before it are refused,     *)
(* fail in the middle or lose their connection (the catch and finally      *)
(* clauses of both stores).                                                *)
EveryAttemptAnswered == \A a \in Attempts : pc[a] # "idle" ~> answer[a] # "none"
===============================================================================
