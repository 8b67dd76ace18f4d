------------------------- MODULE ClassifierExecution -------------------------
(***************************************************************************)
(* How the Classification role executes ClassifySourceMessageRevision:     *)
(* a primary call of the model, a second pass when the first is ambiguous, *)
(* and a proof for every candidate of an accepted output, each admitted    *)
(* durably before the call and tried at most three times, whatever is      *)
(* interrupted; then one ClassificationProposal, or none.                  *)
(*                                                                         *)
(* An attempt holds the session lock of its message from its admission to  *)
(* its record.  A deletion waits for that lock.  A pause of the chat does  *)
(* too, but it locks the queued rows first: the record then waits for the  *)
(* pause, PostgreSQL sees the deadlock and ends one of the two.            *)
(*                                                                         *)
(* One process runs the role.  All commands belong to one chat.            *)
(***************************************************************************)
EXTENDS Integers, Sequences, SequencesExt

CONSTANTS
    Commands,      \* revisions to classify; a smaller one was recorded earlier
    Candidates,    \* candidate keys an accepted output may name
    NoCandidate,
    MaxAttempts,   \* attempts per pass and per candidate's proof (3)
    MaxCrashes     \* bound on crashes of the role

ASSUME ClassifierAssumption ==
    /\ Commands \subseteq Nat
    /\ NoCandidate \notin Candidates
    /\ MaxAttempts \in Nat \ {0}
    /\ MaxCrashes \in Nat

\* Attempts are kept per pass and candidate: the proofs of a primary output
\* are of pass 2, those of a second output of pass 3.
Primary   == <<1, NoCandidate>>
Second    == <<2, NoCandidate>>
ProofKeys == {2, 3} \X Candidates
Keys      == {Primary, Second} \cup ProofKeys

Jobs       == {"classify", "deleted"} \X Commands
Finished   == {"settled", "cancelled"}
Failures   == {"authentication", "quota", "error", "invalid"}
Circuits   == {"closed", "quota", "authentication"}
NoOutput   == [pass |-> 0, number |-> 0, disposition |-> "none", candidates |-> {}]
NoWork     == [out |-> NoOutput, proofs |-> {}]
NoRun      == [cmd |-> 0, mode |-> "none", key |-> Primary, out |-> NoOutput, done |-> {},
               proofs |-> {}, tried |-> {}, circuit |-> "closed"]

VARIABLES
    row,         \* contract_outbox: absent, waiting, held, later, or finished
    attempts,    \* classification_attempts: whether each one succeeded
    work,        \* classification_proof_work
    proposals,   \* ClassificationProposals recorded
    circuit,     \* classifier_adapter_circuits
    probeDue,    \* next_probe_at has passed
    deleted,     \* messages whose deletion the Application has accepted
    paused,      \* the chat is paused, for these revisions for good
    pausing,     \* the Application's pause waits for a message lock
    pc, job, run,  \* the worker: idle, claimed or calling; its row and memory
    calls,       \* calls of the model that were started
    crashes

queue   == <<row, attempts, work, proposals>>
breaker == <<circuit, probeDue>>
chat    == <<deleted, paused, pausing>>
worker  == <<pc, job, run>>
vars    == <<queue, breaker, chat, worker, calls, crashes>>

NoJob == <<"none", 0>>

Init == /\ row = [j \in Jobs |-> IF j[1] = "classify" THEN "waiting" ELSE "absent"]
        /\ attempts = [c \in Commands |-> [k \in Keys |-> <<>>]]
        /\ work = [c \in Commands |-> NoWork]
        /\ proposals = {}
        /\ circuit = "closed" /\ probeDue = FALSE
        /\ deleted = {} /\ paused = FALSE /\ pausing = FALSE
        /\ pc = "idle" /\ job = NoJob /\ run = NoRun
        /\ calls = [c \in Commands |-> [k \in Keys |-> 0]]
        /\ crashes = 0

Barred(c) == c \in deleted \/ paused
-----------------------------------------------------------------------------
(* claim_next of the Classification role.                                  *)

(* A pause that waits holds the rows it cancels (SKIP LOCKED).             *)
Claimable(j) == row[j] = "waiting" /\ ~(pausing /\ j[1] = "classify")

Older(j, i) == /\ j[1] = "classify"
               /\ (i[1] = "deleted" \/ j[2] < i[2])

(* An open circuit stops every claim, but for a probe when one is due.     *)
MayClaim == /\ pc = "idle"
            /\ \/ circuit = "closed"
               \/ circuit = "quota" /\ probeDue

Leased == \E j \in Jobs : row[j] = "held"

Claim(j) == /\ MayClaim /\ ~Leased
            /\ Claimable(j)
            /\ \A i \in Jobs : Claimable(i) => ~Older(i, j)
            /\ row' = [row EXCEPT ![j] = "held"]
            /\ probeDue' = FALSE
            /\ pc' = "claimed" /\ job' = j
            /\ UNCHANGED <<attempts, work, proposals, circuit, chat, run, calls, crashes>>

(* The probe is used up even when there is nothing to claim.               *)
EmptyProbe == /\ MayClaim /\ circuit = "quota"
              /\ Leased \/ ~\E j \in Jobs : Claimable(j)
              /\ probeDue' = FALSE
              /\ UNCHANGED <<queue, circuit, chat, worker, calls, crashes>>
-----------------------------------------------------------------------------
(* What a transaction of the worker leaves.                                *)
Idle == pc' = "idle" /\ job' = NoJob /\ run' = NoRun

(* consume: the row is done with, and nothing follows.                     *)
Consume(c) ==
    /\ row' = [row EXCEPT ![<<"classify", c>>] = "settled"]
    /\ Idle
    /\ UNCHANGED <<attempts, work, proposals, breaker, chat, calls, crashes>>

(* record_classification_attempt: a failure of the adapter opens its       *)
(* circuit, a successful attempt closes one that was open for quota.       *)
Circuit(opened, succeeded) ==
    /\ circuit' = IF opened # "closed" THEN opened
                  ELSE IF succeeded /\ circuit = "quota" THEN "closed" ELSE circuit
    /\ probeDue' = IF opened = "quota" THEN FALSE ELSE probeDue

Marked(r) ==
    [attempts EXCEPT ![r.cmd] =
        [k \in Keys |-> IF k \in r.done THEN Append(Front(@[k]), TRUE) ELSE @[k]]]

(* The attempt that is recorded first, with the others beside it.          *)
RecordedSucceeded(r) == CASE r.mode = "fresh"  -> Primary \in r.done
                          [] r.mode = "second" -> Second \in r.done
                          [] r.mode = "proofs" -> TRUE

(* It waits for a pause that locked the row.                               *)
Record(r, next, keep, publish) ==
    /\ ~pausing
    /\ attempts' = Marked(r)
    /\ row' = [row EXCEPT ![<<"classify", r.cmd>>] = next]
    /\ work' = [work EXCEPT ![r.cmd] = keep]
    /\ proposals' = proposals \cup publish
    /\ Circuit(r.circuit, RecordedSucceeded(r))
    /\ Idle
    /\ UNCHANGED <<chat, calls, crashes>>

(* Mutant: the handoff of an exhausted job is not finalized.               *)
LeftAfterExhaustion == "waiting"
AfterExhaustion     == "settled"

(* _terminalize_exhausted_classification_attempt, with the last attempt.   *)
Terminalize(c, k) ==
    /\ ~pausing
    /\ row' = [row EXCEPT ![<<"classify", c>>] = AfterExhaustion]
    /\ work' = [work EXCEPT ![c] = NoWork]
    /\ Circuit("closed", Last(attempts[c][k]))
    /\ Idle
    /\ UNCHANGED <<attempts, proposals, chat, calls, crashes>>

(* Mutant: four attempts.                                                  *)
ExhaustedLate(c, k) == Len(attempts[c][k]) > MaxAttempts
Exhausted(c, k)     == Len(attempts[c][k]) >= MaxAttempts

(* begin_classification_attempt: the lock, the barriers, and the attempt   *)
(* committed as failed before the model is called.                         *)
Admit(c, k, r) ==
    IF Barred(c) THEN Consume(c)
    ELSE /\ attempts' = [attempts EXCEPT ![c][k] = Append(@, FALSE)]
         /\ calls' = [calls EXCEPT ![c][k] = @ + 1]
         /\ pc' = "calling" /\ run' = [r EXCEPT !.key = k]
         /\ UNCHANGED <<row, work, proposals, breaker, chat, job, crashes>>

Try(c, k, r) == IF Exhausted(c, k) THEN Terminalize(c, k) ELSE Admit(c, k, r)

ProofKey(out, k) == <<out.pass + 1, k>>
Made(r, k)       == [candidate |-> k, pass |-> r.out.pass, number |-> r.out.number]
Proved(r)        == {p.candidate : p \in r.proofs}

(* The attempt a proposal names for its output.                            *)
NamedAttempt(r) ==
    IF r.mode = "proofs"
    THEN <<2, SelectLastInSeq(attempts[r.cmd][Second], LAMBDA ok : ok)>>
    ELSE <<r.out.pass, Len(attempts[r.cmd][<<r.out.pass, NoCandidate>>])>>

Publish(r) ==
    Record(r, "settled", IF r.mode = "proofs" THEN NoWork ELSE work[r.cmd],
           {[cmd |-> r.cmd, out |-> r.out, proofs |-> r.proofs, attempt |-> NamedAttempt(r)]})

(* Mutant: a candidate whose proof failed is published without it.         *)
NoProofFailed(r) == FALSE
ProofFailed(r)   == r.tried # {}

(* The proofs are over: all made, some failed, or the circuit opened.      *)
CloseProofs(r) ==
    LET retryable == \/ r.circuit # "closed"
                     \/ \E k \in r.tried :
                            Len(attempts[r.cmd][ProofKey(r.out, k)]) < MaxAttempts
    IN  IF ~ProofFailed(r) THEN Publish(r)
        ELSE Record(r,
                    CASE r.circuit # "closed" -> "waiting"
                      [] r.circuit = "closed" /\ retryable -> "later"
                      [] OTHER -> "settled",
                    CASE ~retryable -> NoWork
                      [] retryable /\ r.out.pass = 2 -> [out |-> r.out, proofs |-> r.proofs]
                      [] OTHER -> work[r.cmd],
                    {})

Broken(r)      == r.circuit # "closed"

(* The loop over the candidates that have no proof yet.                    *)
Prove(r) ==
    LET open == r.out.candidates \ (Proved(r) \cup r.tried)
    IN  \/ /\ Broken(r) \/ open = {}
           /\ CloseProofs(r)
        \/ /\ ~Broken(r)
           /\ \E k \in open : Try(r.cmd, ProofKey(r.out, k), r)
-----------------------------------------------------------------------------
(* _classify_source_message_v2_impl, from the claim on.                    *)

(* What earlier attempts left decides where a run starts.                  *)
Mode(c) == CASE TRUE \in ToSet(attempts[c][Second]) /\ work[c] # NoWork -> "proofs"
             [] /\ ~(TRUE \in ToSet(attempts[c][Second]) /\ work[c] # NoWork)
                /\ attempts[c][Second] # <<>>
                /\ TRUE \in ToSet(attempts[c][Primary]) -> "second"
             [] OTHER -> "fresh"

Start == /\ pc = "claimed" /\ job[1] = "classify"
         /\ LET c == job[2]
                r == [NoRun EXCEPT !.cmd = c, !.mode = Mode(c)]
            IN  CASE Barred(c) -> Consume(c)
                  [] ~Barred(c) /\ r.mode = "fresh"  -> Try(c, Primary, r)
                  [] ~Barred(c) /\ r.mode = "second" -> Try(c, Second, r)
                  [] ~Barred(c) /\ r.mode = "proofs" ->
                         Prove([r EXCEPT !.out = work[c].out, !.proofs = work[c].proofs])

Opened(failure) == IF failure \in {"quota", "authentication"} THEN failure ELSE "closed"

(* A primary or a second pass fails, or its output is invalid.             *)
CallFails(failure) ==
    /\ pc = "calling" /\ run.key \in {Primary, Second}
    /\ LET r == [run EXCEPT !.circuit = Opened(failure)]
       IN  Record(r,
                  CASE r.circuit # "closed" -> "waiting"
                    [] r.circuit = "closed" /\ ~Exhausted(r.cmd, r.key) -> "later"
                    [] OTHER -> "settled",
                  work[r.cmd], {})

Outputs == [disposition : {"review", "ambiguous"}, candidates : {{}}]
           \cup [disposition : {"accepted"}, candidates : SUBSET Candidates \ {{}}]

(* A valid output.  The second pass is for an ambiguous primary only.      *)
CallSucceeds(o) ==
    /\ pc = "calling" /\ run.key \in {Primary, Second}
    /\ LET c == run.cmd
           r == [run EXCEPT !.done = @ \cup {run.key},
                            !.out = [pass |-> run.key[1], number |-> Len(attempts[c][run.key]),
                                     disposition |-> o.disposition, candidates |-> o.candidates]]
       IN  CASE o.disposition = "accepted" -> Prove(r)
             [] o.disposition = "ambiguous" /\ run.key = Primary -> Try(c, Second, r)
             [] OTHER -> Publish(r)

ProofFails(failure) ==
    /\ pc = "calling" /\ run.key \in ProofKeys
    /\ Prove([run EXCEPT !.tried = @ \cup {run.key[2]}, !.circuit = Opened(failure)])

ProofSucceeds ==
    /\ pc = "calling" /\ run.key \in ProofKeys
    /\ Prove([run EXCEPT !.done = @ \cup {run.key}, !.proofs = @ \cup {Made(run, run.key[2])}])

(* SourceMessageDeleted: the role scrubs what it keeps of the message.     *)
Scrub == /\ pc = "claimed" /\ job[1] = "deleted"
         /\ work' = [work EXCEPT ![job[2]] = NoWork]
         /\ row' = [row EXCEPT ![job] = "settled"]
         /\ Idle
         /\ UNCHANGED <<attempts, proposals, breaker, chat, calls, crashes>>

(* The process ends: its lock is freed, its row stays leased.              *)
Crash == /\ pc # "idle" /\ crashes < MaxCrashes
         /\ crashes' = crashes + 1
         /\ Idle
         /\ UNCHANGED <<queue, breaker, chat, calls>>

(* The record of an answer meets the pause that waits for its message, and *)
(* PostgreSQL chooses the record.                                          *)
DeadlockEndsRole == /\ pc = "calling" /\ pausing
                    /\ Idle
                    /\ UNCHANGED <<queue, breaker, chat, calls, crashes>>
-----------------------------------------------------------------------------
(* Time, the operator and the Application.                                 *)

(* claimed_until passes, of a lease or of a retry's delay.                 *)
Elapse(j) == /\ row[j] \in {"held", "later"}
             /\ row' = [row EXCEPT ![j] = "waiting"]
             /\ UNCHANGED <<attempts, work, proposals, breaker, chat, worker, calls, crashes>>

ProbeFallsDue == /\ circuit = "quota" /\ ~probeDue
                 /\ probeDue' = TRUE
                 /\ UNCHANGED <<queue, circuit, chat, worker, calls, crashes>>

(* close_classifier_authentication_circuit, after a smoke test.            *)
CloseAuthentication == /\ circuit = "authentication"
                       /\ circuit' = "closed" /\ probeDue' = FALSE
                       /\ UNCHANGED <<queue, chat, worker, calls, crashes>>

Locked(c)    == pc = "calling" /\ run.cmd = c

(* accept_source_event of a deletion, which waits for the lock.            *)
Delete(c) == /\ c \notin deleted /\ ~paused /\ ~pausing
             /\ ~Locked(c)
             /\ deleted' = deleted \cup {c}
             /\ row' = [row EXCEPT ![<<"deleted", c>>] = "waiting"]
             /\ UNCHANGED <<attempts, work, proposals, breaker, paused, pausing, worker,
                            calls, crashes>>

(* change_source_chat_lifecycle: cancel_source_chat_work, then the locks.  *)
Pause == /\ ~paused
         /\ ~\E c \in Commands : Locked(c)
         /\ paused' = TRUE /\ pausing' = FALSE
         /\ row' = [j \in Jobs |-> IF j[1] = "classify" /\ row[j] \notin Finished
                                   THEN "cancelled" ELSE row[j]]
         /\ work' = [c \in Commands |-> NoWork]
         /\ UNCHANGED <<attempts, proposals, breaker, deleted, worker, calls, crashes>>

PauseWaits == /\ ~paused /\ ~pausing
              /\ \E c \in Commands : Locked(c)
              /\ pausing' = TRUE
              /\ UNCHANGED <<queue, breaker, deleted, paused, worker, calls, crashes>>

(* PostgreSQL chooses the pause, or the Application ends: the command is   *)
(* claimed again later.                                                    *)
PauseRollsBack == /\ pausing
                  /\ pausing' = FALSE
                  /\ UNCHANGED <<queue, breaker, deleted, paused, worker, calls, crashes>>

Answer == \/ \E f \in Failures : CallFails(f) \/ ProofFails(f)
          \/ \E o \in Outputs : CallSucceeds(o)
          \/ ProofSucceeds \/ DeadlockEndsRole

Work == \/ \E j \in Jobs : Claim(j)
        \/ EmptyProbe \/ Start \/ Scrub \/ Answer

Next == \/ Work \/ Crash
        \/ \E j \in Jobs : Elapse(j)
        \/ ProbeFallsDue \/ CloseAuthentication
        \/ \E c \in Commands : Delete(c)
        \/ Pause \/ PauseWaits \/ PauseRollsBack

(* The pump loops for ever, a call ends, time passes, and a pause whose    *)
(* locks are free commits.  Nothing obliges the operator.                  *)
Fairness == /\ WF_vars(Work) /\ WF_vars(ProbeFallsDue)
            /\ \A j \in Jobs : WF_vars(Elapse(j))
            /\ WF_vars(pausing /\ Pause)

Spec     == Init /\ [][Next]_vars
FairSpec == Spec /\ Fairness
-----------------------------------------------------------------------------
Output == [pass : 0..2, number : Nat, disposition : {"none", "review", "ambiguous", "accepted"},
           candidates : SUBSET Candidates]
Proofs == SUBSET [candidate : Candidates, pass : 0..2, number : Nat]

TypeOK == /\ row \in [Jobs -> {"absent", "waiting", "held", "later"} \cup Finished]
          /\ attempts \in [Commands -> [Keys -> Seq(BOOLEAN)]]
          /\ \A c \in Commands : work[c].out \in Output /\ work[c].proofs \in Proofs
          /\ \A p \in proposals : p.out \in Output /\ p.proofs \in Proofs
          /\ circuit \in Circuits /\ probeDue \in BOOLEAN
          /\ deleted \subseteq Commands /\ {paused, pausing} \subseteq BOOLEAN
          /\ pc \in {"idle", "claimed", "calling"} /\ job \in Jobs \cup {NoJob}
          /\ run.out \in Output /\ run.proofs \in Proofs /\ run.done \subseteq Keys
          /\ run.tried \subseteq Candidates /\ run.circuit \in Circuits
          /\ calls \in [Commands -> [Keys -> Nat]] /\ crashes \in 0..MaxCrashes

(* No pass of a revision and no proof of a candidate costs more than the   *)
(* three calls of its budget, however many crashes, deadlocks, closed      *)
(* circuits and resumed runs there are.                                    *)
BudgetKept == \A c \in Commands, k \in Keys : calls[c][k] <= MaxAttempts

(* An accepted proposal carries a proof for each of its candidates, made   *)
(* for the very output it publishes, also when the output and some proofs  *)
(* come from an earlier run, and names the attempt that output came from.  *)
ProofsOfTheOutput ==
    \A p \in proposals :
        /\ p.attempt = <<p.out.pass, p.out.number>>
        /\ p.out.disposition = "accepted" =>
               p.proofs = {[candidate |-> k, pass |-> p.out.pass, number |-> p.out.number] :
                               k \in p.out.candidates}

(* Every command and every deletion is settled or cancelled in the end,    *)
(* unless the authentication circuit is open: a job whose budget crashes   *)
(* or refusals used up is closed, and an open quota circuit keeps probing. *)
EverySettled ==
    \A j \in Jobs : row[j] # "absent" ~> row[j] \in Finished \/ circuit = "authentication"
=============================================================================
