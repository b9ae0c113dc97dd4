----------------------------- MODULE Allowances -----------------------------
(***************************************************************************)
(* The two commands that write allowances with sudo transactions:          *)
(* setup-allowances (src/src/setup.rs), for all benchmark accounts in      *)
(* batches, and admin set-quota (src/src/ops/admin.rs, run_admin_cmd), for *)
(* one account.  They may run at the same time, with the same sudo account *)
(* and hence the same nonces; setup may be run again after a failure.      *)
(*                                                                         *)
(* External, from its use: get_account_nonce, which returns the account's  *)
(* nonce at some recent block; submit_extrinsic, which returns Ok once the *)
(* transaction is finalized and did not fail; and the chain.  Blocks are   *)
(* not reverted.  Sudo succeeds although the call inside it may fail.      *)
(***************************************************************************)
EXTENDS Integers, FiniteSets, FiniteSetsExt, SudoKey

CONSTANTS
  Accounts,  \* bound on --num-clients
  MaxSize,   \* bound on --allowance-batch-size and --max-batch-calls
  Runs       \* how often setup-allowances may be run

ASSUME SizesAssumption ==
  Accounts \in Nat \ {0} /\ MaxSize \in Nat /\ Runs \in Nat \ {0}

Account == 0 .. Accounts - 1
Process == {"setup", "admin"}
Target == 0  \* the account of set-quota
Quota == {"none", "old", "cohort", "quota"}

VARIABLES
  options,    \* of setup-allowances
  undisturbed,\* nothing fails, and the commands run one after the other
  initial,    \* what each account was allowed before
  chain,      \* the sudo account's transactions in blocks; nonces are positions
  finalized,  \* how many of them are in finalized blocks
  pool,       \* those the node holds, not in a block yet
  pc, nonce,  \* per process
  batch, run  \* setup: transactions done, and the run it is in

nodeVars == <<chain, finalized, pool>>
processVars == <<pc, nonce, batch, run>>
vars == <<options, undisturbed, initial, nodeVars, processVars>>

SetupArgs ==
  [numClients : {0, Accounts}, batchSize : 0 .. MaxSize, maxCalls : 0 .. MaxSize]

Location ==
  {"start", "nonce", "submit", "wait", "verify", "success", "failure", "panicked"}
Stopped(p) == pc[p] \in {"success", "failure", "panicked"}

Transaction == [by : Process, run : 1 .. Runs, batch : Nat, nonce : Nat]
Effect ==
  {"applied",  \* the storage is written
   "inner",    \* the call inside sudo failed, and the extrinsic succeeded
   "failed"}   \* the extrinsic failed

TypeOK ==
  /\ options \in SetupArgs
  /\ initial \in [Account -> Quota]
  /\ chain \in Seq([tx : Transaction, effect : Effect])
  /\ \A i \in DOMAIN chain : chain[i].tx.nonce = i - 1
  /\ finalized \in 0 .. Len(chain)
  /\ pool \subseteq Transaction
  /\ \A tx \in pool : tx.nonce >= Len(chain)
  /\ pc \in [Process -> Location] /\ nonce \in [Process -> 0 .. Len(chain)]
  /\ batch \in 0 .. Accounts /\ run \in 1 .. Runs

Init ==
  /\ options \in SetupArgs
  /\ undisturbed \in BOOLEAN
  /\ initial \in {[i \in Account |-> quota] : quota \in {"none", "old"}}
  /\ chain = <<>> /\ finalized = 0 /\ pool = {}
  /\ pc = [p \in Process |-> "start"] /\ nonce = [p \in Process |-> 0]
  /\ batch = 0 /\ run = 1

-----------------------------------------------------------------------------
(* What a transaction writes.  slice::chunks puts item i into chunk         *)
(* i div size: accounts into set_storage calls, calls into transactions.    *)

\* Mutant of Chunks: one more than the complete ones, also if there is no other.
OneMoreChunk(n, size) == n \div size + 1

\* Mutant of Chunks: an incomplete last chunk is left out.
FullChunks(n, size) == n \div size

\* The number of chunks that n items make.
Chunks(n, size) == (n + size - 1) \div size

StorageCalls == Chunks(options.numClients, options.batchSize)
Batches == Chunks(StorageCalls, options.maxCalls)

BatchAccounts(b) ==
  {i \in 0 .. options.numClients - 1 :
     i \div (options.batchSize * options.maxCalls) = b}

Writes(tx) == IF tx.by = "admin" THEN {Target} ELSE BatchAccounts(tx.batch)

\* The allowance of an account after the first n transactions of the chain.
AllowanceAt(account, n) ==
  LET writing == {i \in 1 .. n : /\ chain[i].effect = "applied"
                                 /\ account \in Writes(chain[i].tx)}
  IN  IF writing = {} THEN initial[account]
      ELSE IF chain[Max(writing)].tx.by = "admin" THEN "quota" ELSE "cohort"

-----------------------------------------------------------------------------
(* Node and chain. *)

NodeFrame == UNCHANGED <<options, undisturbed, initial, processVars>>

\* A block with the next transaction of the account.
Include ==
  /\ \E tx \in pool :
       /\ tx.nonce = Len(chain)
       /\ \E effect \in IF undisturbed THEN {"applied"} ELSE Effect :
            chain' = Append(chain, [tx |-> tx, effect |-> effect])
       /\ pool' = {other \in pool : other.nonce > tx.nonce}
  /\ UNCHANGED finalized /\ NodeFrame

Finalize ==
  /\ finalized < Len(chain)
  /\ finalized' = finalized + 1
  /\ UNCHANGED <<chain, pool>> /\ NodeFrame

\* The node forgets a transaction that it has accepted.
Drop ==
  /\ ~undisturbed
  /\ \E tx \in pool : pool' = pool \ {tx}
  /\ UNCHANGED <<chain, finalized>> /\ NodeFrame

-----------------------------------------------------------------------------
(* What both commands do. *)

Frame == UNCHANGED <<options, undisturbed, initial, chain, finalized>>

Goto(p, location) == pc' = [pc EXCEPT ![p] = location]

\* The transaction that p is about to submit, or waits for.
Current(p) ==
  [by |-> p, run |-> IF p = "setup" THEN run ELSE 1,
   batch |-> IF p = "setup" THEN batch ELSE 0, nonce |-> nonce[p]]

\* The connection is lost, or was not made; or the process is killed.
Disconnected(p) ==
  /\ ~undisturbed
  /\ ~Stopped(p)
  /\ Goto(p, "failure")
  /\ UNCHANGED <<pool, nonce, batch, run>> /\ Frame

\* get_account_nonce; then max_batch_calls = 0 panics in chunks().
GetNonce(p) ==
  /\ pc[p] = "nonce"
  /\ \E n \in finalized .. Len(chain) : nonce' = [nonce EXCEPT ![p] = n]
  /\ Goto(p, IF p = "admin" THEN "submit"
             ELSE IF options.maxCalls = 0 THEN "panicked"
             ELSE IF Batches = 0 THEN "verify" ELSE "submit")
  /\ UNCHANGED <<pool, batch, run>> /\ Frame

\* submit_extrinsic: a nonce that has been used is refused; one that another
\* transaction in the pool has, is refused as well or replaces that one.
Submit(p) ==
  /\ pc[p] = "submit"
  /\ LET rivals == {tx \in pool : tx.nonce = nonce[p]}
     IN  \/ /\ nonce[p] >= Len(chain)
            /\ pool' = (pool \ rivals) \cup {Current(p)}
            /\ Goto(p, "wait")
         \/ /\ nonce[p] < Len(chain) \/ rivals # {}
            /\ Goto(p, "failure")
            /\ UNCHANGED pool
  /\ UNCHANGED <<nonce, batch, run>> /\ Frame

InBlock(p) == nonce[p] < Len(chain) /\ chain[nonce[p] + 1].tx = Current(p)
Ok(p) ==
  InBlock(p) /\ nonce[p] < finalized /\ chain[nonce[p] + 1].effect # "failed"
Refused(p) ==
  IF InBlock(p) THEN nonce[p] < finalized /\ chain[nonce[p] + 1].effect = "failed"
                ELSE Current(p) \notin pool

\* Mutant of SubmitFails: setup goes on with the next batch.
SubmitFailsAndGoesOn(p) ==
  /\ pc[p] = "wait"
  /\ Refused(p)
  /\ p = "setup"
  /\ Goto(p, IF batch + 1 < Batches THEN "submit" ELSE "verify")
  /\ batch' = batch + 1
  /\ UNCHANGED <<pool, nonce, run>> /\ Frame

\* submit_extrinsic returns an error: the transaction failed, or is no longer
\* known to the node.
SubmitFails(p) ==
  /\ pc[p] = "wait"
  /\ Refused(p)
  /\ Goto(p, "failure")
  /\ UNCHANGED <<pool, nonce, batch, run>> /\ Frame

-----------------------------------------------------------------------------
(* setup-allowances *)

\* Connecting and the key; then chunks() panics if allowance_batch_size = 0.
StartSetup ==
  /\ pc["setup"] = "start"
  /\ Goto("setup", IF options.batchSize = 0 THEN "panicked" ELSE "nonce")
  /\ UNCHANGED <<pool, nonce, batch, run>> /\ Frame

\* Mutant of NextBatch: the nonce stays as it was.
NextBatchSameNonce ==
  /\ pc["setup"] = "wait"
  /\ Ok("setup")
  /\ batch' = batch + 1
  /\ Goto("setup", IF batch + 1 < Batches THEN "submit" ELSE "verify")
  /\ UNCHANGED <<pool, nonce, run>> /\ Frame

\* A batch is finalized.
NextBatch ==
  /\ pc["setup"] = "wait"
  /\ Ok("setup")
  /\ batch' = batch + 1
  /\ nonce' = [nonce EXCEPT !["setup"] = @ + 1]
  /\ Goto("setup", IF batch + 1 < Batches THEN "submit" ELSE "verify")
  /\ UNCHANGED <<pool, run>> /\ Frame

\* Verification, in the latest finalized block: each account has an allowance.
Verify ==
  /\ pc["setup"] = "verify"
  /\ Goto("setup",
          IF \A i \in 0 .. options.numClients - 1 : AllowanceAt(i, finalized) # "none"
          THEN "success" ELSE "failure")
  /\ UNCHANGED <<pool, nonce, batch, run>> /\ Frame

\* The operator runs it again.
Rerun ==
  /\ pc["setup"] = "failure"
  /\ run < Runs
  /\ run' = run + 1
  /\ batch' = 0
  /\ Goto("setup", "start")
  /\ UNCHANGED <<pool, nonce>> /\ Frame

-----------------------------------------------------------------------------
(* admin set-quota *)

Keys == {ResolveSudoKeypair(args) : args \in SudoKeyArgs}

\* A key of an account that is not sudo has nonces of its own, and its
\* transaction fails or is refused; nothing of the sudo account changes.
StartAdmin ==
  /\ pc["admin"] = "start"
  /\ undisturbed => Stopped("setup")
  /\ \E key \in IF undisturbed THEN {"sudo"} ELSE Keys :
       Goto("admin", IF key = "sudo" THEN "nonce" ELSE "failure")
  /\ UNCHANGED <<pool, nonce, batch, run>> /\ Frame

QuotaSet ==
  /\ pc["admin"] = "wait"
  /\ Ok("admin")
  /\ Goto("admin", "verify")
  /\ UNCHANGED <<pool, nonce, batch, run>> /\ Frame

\* show_quota: the latest block, finalized or not.
ShowQuota == AllowanceAt(Target, Len(chain))

\* Mutant of ReadBack: any quota will do.
ReadBackAny ==
  /\ pc["admin"] = "verify"
  /\ Goto("admin", IF ShowQuota # "none" THEN "success" ELSE "failure")
  /\ UNCHANGED <<pool, nonce, batch, run>> /\ Frame

\* run_admin_cmd compares what it reads with what was asked for.
ReadBack ==
  /\ pc["admin"] = "verify"
  /\ Goto("admin", IF ShowQuota = "quota" THEN "success" ELSE "failure")
  /\ UNCHANGED <<pool, nonce, batch, run>> /\ Frame

-----------------------------------------------------------------------------
Setup ==
  \/ StartSetup \/ GetNonce("setup") \/ Submit("setup") \/ SubmitFails("setup")
  \/ NextBatch \/ Verify
Admin ==
  \/ StartAdmin \/ GetNonce("admin") \/ Submit("admin") \/ SubmitFails("admin")
  \/ QuotaSet \/ ReadBack
Chain == Include \/ Finalize

Next ==
  \/ Setup \/ Admin \/ Chain
  \/ Drop \/ Rerun \/ \E p \in Process : Disconnected(p)

Spec == Init /\ [][Next]_vars

\* The processes run and the chain grows; submit_extrinsic is waited for without
\* a timeout.
FairSpec ==
  Spec /\ WF_vars(Setup) /\ WF_vars(Admin) /\ WF_vars(Include) /\ WF_vars(Finalize)

-----------------------------------------------------------------------------
(* Properties. *)

\* The transactions of a run of setup-allowances, finalized without failing.
Done(r, b) ==
  \E i \in 1 .. finalized :
    /\ chain[i].effect # "failed"
    /\ chain[i].tx.by = "setup" /\ chain[i].tx.run = r /\ chain[i].tx.batch = b

\* A batch is only sent when all batches before it, of the same run, have been
\* finalized and have not failed, also if a run before has left a transaction
\* behind, or set-quota takes a nonce: a run never leaves a gap.
BatchesInOrder ==
  \A tx \in pool \cup {chain[i].tx : i \in DOMAIN chain} :
    tx.by = "setup" => \A b \in 0 .. tx.batch - 1 : Done(tx.run, b)

\* A run that succeeds has sent, for every account, a transaction that was
\* finalized, once; and every account has an allowance.
SetupTrue ==
  pc["setup"] = "success" =>
    \A i \in 0 .. options.numClients - 1 :
      /\ \E b \in 0 .. batch - 1 : i \in BatchAccounts(b) /\ Done(run, b)
      /\ AllowanceAt(i, finalized) # "none"

\* set-quota succeeds only if the account has had the quota that was asked for
\* since its own transaction was finalized, also if that one had no effect.
SetQuotaTrue ==
  pc["admin"] = "success" =>
    /\ InBlock("admin") /\ nonce["admin"] < finalized
    /\ \E n \in nonce["admin"] + 1 .. Len(chain) : AllowanceAt(Target, n) = "quota"

\* Both commands end as long as the chain grows; and if nothing disturbs them,
\* both succeed, provided that the sizes are positive.
Ends ==
  /\ <>[](\A p \in Process : Stopped(p))
  /\ undisturbed /\ options.batchSize > 0 /\ options.maxCalls > 0
       => <>[](\A p \in Process : pc[p] = "success")
=============================================================================
